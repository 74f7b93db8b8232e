------------------------------ MODULE ReceiveStream ------------------------------
(***************************************************************************)
(* The receiving half of a stream (`ReceiveStream`), the reassembly buffer *)
(* it owns and the connection window it shares with other streams, against *)
(* a peer that sends any frame in any order.                               *)
(*                                                                         *)
(* The buffer is abstracted to the offsets it was given (`received`), the  *)
(* number of bytes read (`consumed`), the highest offset seen and the      *)
(* final size; -1 is a final size that is not known and, as a waiter, the  *)
(* absence of one.  `arrived` and `end` remember what the peer sent beyond *)
(* a reset of the buffer; the code has no such memory.                     *)
(***************************************************************************)
EXTENDS IncomingFlowControl, FiniteSetsExt

CONSTANTS
    Packets,        \* packet numbers
    Window,         \* window of the stream
    ConnWindow,     \* window of the connection
    MaxBytes,       \* bound on the offsets the peer uses
    MaxLow          \* bound on the low watermark of a request

ASSUME PacketsAssumption == Packets \subseteq Nat \ {0}

ASSUME SizesAssumption ==
    Window \in Nat /\ ConnWindow \in Nat /\ MaxBytes \in Nat /\ MaxLow \in Nat

VARIABLES
    rs,     \* the receiving half of the stream
    conn,   \* the IncomingConnectionFlowController
    closed, \* why the connection was closed, "None" while it is open
    handle  \* the status the application's handle keeps (`State::rx`)

vars == <<rs, conn, closed, handle>>

NoWaiter == -1

Unknown == -1

RecvNew(window) ==
    [state |-> "Receiving",
     received |-> {}, consumed |-> 0, maxRecv |-> 0, final |-> Unknown,
     window |-> IncrementalNew(window, window, window \div 10), desired |-> window,
     acquired |-> 0, released |-> 0,
     stop |-> NotRequested, missing |-> [start |-> 0, end |-> Unknown],
     waiter |-> NoWaiter, observed |-> FALSE, detached |-> FALSE,
     arrived |-> {}, end |-> Unknown]

Init ==
    /\ rs = RecvNew(Window)
    /\ conn = IncomingConnNew(ConnWindow, ConnWindow)
    /\ closed = "None"
    /\ handle = "Open"

-----------------------------------------------------------------------------
(* The reassembly buffer.  A frame covers the offsets start..end-1.        *)

TotalReceivedLen(x) == Min((0..Cardinality(x.received)) \ x.received)

BufferLen(x) == TotalReceivedLen(x) - x.consumed

IsWritingComplete(x) == x.final # Unknown /\ TotalReceivedLen(x) = x.final

BufferReset(x) ==
    [x EXCEPT !.received = {}, !.consumed = 0, !.maxRecv = 0, !.final = Unknown]

(* Mutant: a known final size may shrink.                                  *)
MutantFinMayShrink(x, frame) ==
    IF x.final = Unknown THEN frame.fin => x.maxRecv <= frame.end ELSE frame.end <= x.final

(* check_reader_fin: the final size never changes and nothing exceeds it.  *)
FinIsValid(x, frame) ==
    CASE frame.fin /\ x.final # Unknown -> frame.end = x.final
      [] frame.fin /\ x.final = Unknown -> x.maxRecv <= frame.end
      [] ~frame.fin /\ x.final # Unknown -> frame.end <= x.final
      [] OTHER -> TRUE

(* write_at and write_at_fin                                               *)
BufferWrite(x, frame) ==
    [x EXCEPT !.received = @ \cup frame.start..(frame.end - 1),
              !.maxRecv = IF frame.end > @ THEN frame.end ELSE @,
              !.final = IF frame.fin THEN frame.end ELSE @]

-----------------------------------------------------------------------------
(* ReceiveStream's methods on the triple of stream, connection and error.  *)

RecvDetach(x) ==
    [x EXCEPT !.detached = TRUE, !.waiter = NoWaiter,
              !.observed = @ \/ x.state \in {"DataRead", "Reset"}]

RecvWake(x) ==
    CASE x.waiter # NoWaiter -> [x EXCEPT !.waiter = NoWaiter]
      [] x.waiter = NoWaiter /\ x.detached -> RecvDetach(x)
      [] OTHER -> x

(* MissingData::on_data                                                    *)
MissingStart(missing, frame) ==
    IF missing.start \in frame.start..(frame.end - 1) THEN frame.end ELSE missing.start

MissingEnd(missing, frame) ==
    CASE ~frame.fin /\ missing.end \notin frame.start..(frame.end - 1) -> missing.end
      [] missing.end = Unknown \/ frame.start < missing.end -> frame.start
      [] OTHER -> missing.end

RecvOnMissingData(x, missing) ==
    IF missing.end # Unknown /\ missing.start >= missing.end
      THEN [x EXCEPT !.missing = missing, !.stop = Cancel(@), !.observed = TRUE]
      ELSE [x EXCEPT !.missing = missing]


CrossesWatermark(x) ==
    /\ x.waiter # NoWaiter
    /\ BufferLen(x) > 0
    /\ BufferLen(x) >= Min({x.waiter, Watermark(x)})

(* The part of on_data that follows the write.                             *)
RecvWakeReader(x) ==
    IF CrossesWatermark(x) \/ IsWritingComplete(x) \/ x.state = "DataRead"
      THEN RecvWake(x) ELSE x

RecvAfterFin(x, frame) ==
    IF frame.fin /\ x.consumed = x.final
      THEN [BufferReset(x) EXCEPT !.state = "DataRead"]
      ELSE x

(* Mutant: the FIN does not stop the window updates.                       *)
MutantFinKeepsWindow(x, frame) ==
    [x EXCEPT !.stop = IF IsWritingComplete(x) THEN Cancel(@) ELSE @]

RecvStopSyncs(x, frame) ==
    [x EXCEPT !.window = IF frame.fin THEN IncrementalStopSync(@) ELSE @,
              !.stop = IF IsWritingComplete(x) THEN Cancel(@) ELSE @]

RecvWrite(p, frame) ==
    CASE p.err # "None" -> p
      [] p.err = "None" /\ ~FinIsValid(p.stream, frame) -> [p EXCEPT !.err = "FinalSizeError"]
      [] OTHER ->
            [p EXCEPT !.stream =
                RecvWakeReader(RecvAfterFin(RecvStopSyncs(BufferWrite(@, frame), frame), frame))]

RecvOnData(p, frame) ==
    CASE p.stream.state = "Receiving" ->
            RecvWrite(IF p.stream.final = Unknown THEN AcquireWindowUpTo(p, frame.end) ELSE p, frame)
      [] p.stream.state = "Stopping" ->
            [p EXCEPT !.stream = RecvOnMissingData(@, [start |-> MissingStart(@.missing, frame),
                                                       end |-> MissingEnd(@.missing, frame)])]
      [] OTHER -> p

(* init_reset, once the credit for the final size was acquired             *)
RecvClear(x) == [BufferReset(x) EXCEPT !.window = IncrementalStopSync(@)]

RecvEnterReset(p) ==
    IF p.err # "None" THEN p
    ELSE [ReleaseOutstandingWindow([p EXCEPT !.stream = RecvClear(@)])
          EXCEPT !.stream.state = "Reset"]

(* init_reset; the size is not known when the connection fails.            *)
RecvInitReset(p, size) ==
    CASE p.stream.state \in {"Reset", "DataRead"} -> p
      [] p.stream.state = "Receiving" /\ p.stream.final # Unknown ->
            IF size # Unknown /\ size # p.stream.final
              THEN [p EXCEPT !.err = "FinalSizeError"]
              ELSE IF IsWritingComplete(p.stream) THEN p ELSE RecvEnterReset(p)
      [] OTHER ->
            RecvEnterReset(IF size # Unknown THEN AcquireWindowUpTo(p, size) ELSE p)

RecvOnInternalReset(p) == [RecvInitReset(p, Unknown) EXCEPT !.stream = RecvWake(@)]

RecvCancelStop(x) == [x EXCEPT !.stop = Cancel(@)]

RecvEndReset(p) ==
    IF p.err # "None" THEN p ELSE [p EXCEPT !.stream = RecvWake(RecvCancelStop(@))]

RecvOnReset(p, size) == RecvEndReset(RecvInitReset(p, size))

RecvOnPacketAck(x, pns) ==
    [x EXCEPT !.window = IncrementalOnPacketAck(@, pns), !.stop = OnceOnPacketAck(@, pns)]

RecvOnPacketLoss(x, pns) ==
    [x EXCEPT !.window = IncrementalOnPacketLoss(@, pns), !.stop = OnceOnPacketLoss(@, pns)]

RecvOnTransmit(x, pn, constraint) ==
    [x EXCEPT !.stop = OnceOnTransmit(@, pn, constraint),
              !.window = IncrementalOnTransmit(@, pn, constraint)]

(* Mutant: the gaps behind the first one are taken for received.           *)
MutantStopAfterLast(x) ==
    BufferReset(RecvDetach([x EXCEPT !.state = "Stopping", !.stop = OnceRequestDelivery(@, 1),
                                     !.missing = [start |-> x.maxRecv, end |-> Unknown]]))

RecvStop(x) ==
    BufferReset(RecvDetach([x EXCEPT !.state = "Stopping", !.stop = OnceRequestDelivery(@, 1),
                                     !.missing = [start |-> TotalReceivedLen(x),
                                                  end |-> Unknown]]))

(* poll_request with stop_sending                                          *)
RecvPollStop(x) ==
    CASE x.state \in {"Reset", "Stopping"} -> x
      [] x.state = "DataRead" -> [x EXCEPT !.observed = TRUE]
      [] x.state = "Receiving" /\ IsWritingComplete(x) ->
            [x EXCEPT !.state = "DataRead", !.observed = TRUE]
      [] OTHER -> RecvStop(x)

EnoughBuffered(x, low) == BufferLen(x) >= Min({low, Watermark(x)})

(* How many bytes a request may get: as the chunks of the buffer, the      *)
(* placeholders and the high watermark have it, but none only if there are *)
(* none.                                                                   *)
ReadAmounts(x, request) ==
    IF EnoughBuffered(x, request.low) /\ request.chunks /\ BufferLen(x) > 0
      THEN 1..BufferLen(x)
      ELSE {0}

(* The request is not served now and the reader wants to be woken.         *)
MustWait(x, request) ==
    \/ ~EnoughBuffered(x, request.low)
    \/ request.chunks /\ BufferLen(x) = 0

RecvEndOfStream(x) ==
    IF x.final # Unknown /\ x.consumed = x.final
      THEN [BufferReset(x) EXCEPT !.state = "DataRead", !.waiter = NoWaiter, !.observed = TRUE]
      ELSE x

RecvStoreWaker(x, request, wait) ==
    IF wait /\ request.context THEN [x EXCEPT !.waiter = request.low] ELSE x

(* Mutant: the bytes read are not given back to the peer.                  *)
MutantConsumeUnreleased(p, amount) == [p EXCEPT !.stream.consumed = @ + amount]

RecvConsume(p, amount) ==
    IF amount = 0 THEN p ELSE [ReleaseWindow(p, amount) EXCEPT !.stream.consumed = @ + amount]

(* poll_request without stop_sending                                       *)
RecvPollRead(p, request, amount) ==
    CASE p.stream.state \in {"Reset", "DataRead"} ->
            [p EXCEPT !.stream.observed = TRUE, !.stream.waiter = NoWaiter]
      [] p.stream.state = "Stopping" -> [p EXCEPT !.stream.waiter = NoWaiter]
      [] OTHER ->
            [RecvConsume(p, amount) EXCEPT
                !.stream = RecvStoreWaker(RecvEndOfStream(@), request,
                                          MustWait(p.stream, request))]

RecvIsRetained(x) == ~x.observed

RecvWantsAcks(x) ==
    RecvIsRetained(x) /\ (x.stop.state = "InFlight" \/ x.window.delivery.state = "InFlight")

RecvHasInterest(x) ==
    RecvIsRetained(x) /\ (HasInterest(x.stop) \/ HasInterest(x.window.delivery))

-----------------------------------------------------------------------------
(* The actions.  A stream that is no longer retained may still be called   *)
(* as long as its sending half is.                                         *)

Triple == [stream |-> rs, conn |-> conn, err |-> "None"]

(* An error of a frame closes the connection, which resets every stream.   *)
CloseOnError(p) ==
    IF p.err = "None" THEN p
    ELSE [RecvOnInternalReset([p EXCEPT !.err = "None"]) EXCEPT !.err = p.err]

Apply(p) == rs' = p.stream /\ conn' = p.conn /\ closed' = p.err /\ UNCHANGED handle

Frames == {f \in [start : 0..MaxBytes, end : 0..MaxBytes, fin : BOOLEAN] : f.start <= f.end}

(* A peer may break its final size, but a stream that stops does not look. *)
PeerKeepsFinalSize(frame) ==
    /\ rs.end # Unknown => frame.end <= rs.end
    /\ frame.fin => /\ rs.end \in {Unknown, frame.end}
                    /\ \A o \in rs.arrived : o < frame.end

Remember(p, frame) ==
    IF p.stream.state \in {"Receiving", "Stopping"}
      THEN [p EXCEPT !.stream.arrived = @ \cup frame.start..(frame.end - 1),
                     !.stream.end = IF frame.fin THEN frame.end ELSE @]
      ELSE [p EXCEPT !.stream.arrived = {}, !.stream.end = Unknown]

OnData ==
    /\ closed = "None"
    /\ \E frame \in Frames :
          /\ rs.state = "Stopping" => PeerKeepsFinalSize(frame)
          /\ \E p \in {RecvOnData(Triple, frame)} : Apply(Remember(CloseOnError(p), frame))

OnReset ==
    /\ closed = "None"
    /\ \E size \in 0..MaxBytes :
          \E p \in {RecvOnReset(Triple, size)} : Apply(CloseOnError(p))

OnInternalReset ==
    /\ closed = "None"
    /\ Apply([RecvOnInternalReset(Triple) EXCEPT !.err = "Closed"])

(* stop_sending                                                            *)
PollStop ==
    /\ handle \in {"Open", "Reset"}
    /\ rs' = RecvPollStop(rs)
    /\ handle' = IF rs'.state = "DataRead" THEN "Finished" ELSE "Reset"
    /\ UNCHANGED <<conn, closed>>

(* Dropping a handle that is not known to be closed stops the stream.      *)
DropHandle ==
    /\ handle # "Dropped"
    /\ handle' = "Dropped"
    /\ rs' = IF handle = "Open" THEN RecvPollStop(rs) ELSE rs
    /\ UNCHANGED <<conn, closed>>

ReadRequests == [chunks : BOOLEAN, low : 0..MaxLow, context : BOOLEAN]

PollRead ==
    /\ handle \in {"Open", "Reset"}
    /\ \E request \in ReadRequests :
          \E amount \in ReadAmounts(rs, request) :
              \E p \in {RecvPollRead(Triple, request, amount)} :
                  /\ rs' = p.stream /\ conn' = p.conn /\ UNCHANGED closed
                  /\ handle' = CASE p.stream.state = "DataRead" -> "Finished"
                                 [] p.stream.state = "Receiving" -> "Open"
                                 [] OTHER -> handle

FreePackets == Packets \ {rs.window.delivery.packet, rs.stop.packet, conn.window.delivery.packet}

(* Which unused number a packet gets does not matter.                      *)
NextPacket == IF FreePackets = {} THEN {} ELSE {Min(FreePackets)}

(* A packet takes the frames of the connection and of the stream, or, when *)
(* it runs out of room or the stream is not on the list, only the former.  *)
OnTransmit ==
    /\ closed = "None"
    /\ \E pn \in NextPacket, constraint \in Constraints, fits \in BOOLEAN :
          /\ conn' = [conn EXCEPT !.window = IncrementalOnTransmit(@, pn, constraint)]
          /\ rs' = IF fits THEN RecvOnTransmit(rs, pn, constraint) ELSE rs
          /\ UNCHANGED <<closed, handle>>

(* Acknowledged and lost packets reach a stream only while it is on the    *)
(* frame delivery list, where its sending half may have put it as well.    *)
OnPacketAck ==
    /\ closed = "None"
    /\ \E pns \in SUBSET Packets, sending \in BOOLEAN :
          /\ conn' = [conn EXCEPT !.window = IncrementalOnPacketAck(@, pns)]
          /\ rs' = IF RecvWantsAcks(rs) \/ sending THEN RecvOnPacketAck(rs, pns) ELSE rs
          /\ UNCHANGED <<closed, handle>>

OnPacketLoss ==
    /\ closed = "None"
    /\ \E pns \in SUBSET Packets, sending \in BOOLEAN :
          /\ conn' = [conn EXCEPT !.window = IncrementalOnPacketLoss(@, pns)]
          /\ rs' = IF RecvWantsAcks(rs) \/ sending THEN RecvOnPacketLoss(rs, pns) ELSE rs
          /\ UNCHANGED <<closed, handle>>

(* The other streams of the connection take a part of its window and give  *)
(* it back.                                                                *)
OtherStreamsAcquire ==
    /\ closed = "None"
    /\ \E amount \in 1..RemainingWindow(conn) :
          /\ conn.acquired + amount <= MaxBytes
          /\ conn' = [conn EXCEPT !.acquired = @ + amount]
          /\ UNCHANGED <<rs, closed, handle>>

OtherStreamsRelease ==
    /\ closed = "None"
    /\ \E amount \in 1..((conn.acquired - conn.consumed) - (rs.acquired - rs.released)) :
          /\ conn' = ConnReleaseWindow(conn, amount)
          /\ UNCHANGED <<rs, closed, handle>>

Next ==
    \/ OnData
    \/ OnReset
    \/ OnInternalReset
    \/ PollStop
    \/ DropHandle
    \/ PollRead
    \/ OnTransmit
    \/ OnPacketAck
    \/ OnPacketLoss
    \/ OtherStreamsAcquire
    \/ OtherStreamsRelease

Spec == Init /\ [][Next]_vars

-----------------------------------------------------------------------------
WindowSync == [latest : Nat, acked : Nat, threshold : Nat, delivery : DeliveryState(Nat, Packets)]

Offsets == 0..(MaxBytes - 1)

RecvRecord ==
    [state : {"Receiving", "DataRead", "Stopping", "Reset"},
     received : SUBSET Offsets, consumed : Nat, maxRecv : Nat, final : Nat \cup {Unknown},
     window : WindowSync, desired : Nat, acquired : Nat, released : Nat,
     stop : DeliveryState(Nat, Packets), missing : [start : Nat, end : Nat \cup {Unknown}],
     waiter : Nat \cup {NoWaiter}, observed : BOOLEAN, detached : BOOLEAN,
     arrived : SUBSET Offsets, end : Nat \cup {Unknown}]

ConnRecord == [window : WindowSync, desired : Nat, acquired : Nat, consumed : Nat]

Errors == {"None", "Closed", "FlowControlError", "FinalSizeError"}

TypeOK ==
    /\ rs \in RecvRecord
    /\ conn \in ConnRecord
    /\ closed \in Errors
    /\ handle \in {"Open", "Reset", "Finished", "Dropped"}

(* The subtractions of release_outstanding_window and remaining_window     *)
(* never underflow and no credit is given back that was not taken ("Can    *)
(* not consume more window than previously acquired"), at either level.    *)
CreditIsSound ==
    /\ rs.released <= rs.acquired
    /\ rs.acquired - rs.released <= conn.acquired - conn.consumed
    /\ conn.acquired <= conn.window.latest

(* While data may still be read, exactly the bytes read were released and  *)
(* the credit of the connection covers every byte that was received.       *)
CreditCoversData ==
    rs.state = "Receiving" =>
        /\ rs.released = rs.consumed
        /\ \A o \in rs.received : o < rs.acquired

(* The peer never makes the stream buffer more than its window.            *)
BufferIsBounded ==
    \A o \in rs.received : o < rs.consumed + Window

(* The inductive strengthening of the credit properties: each limit is     *)
(* what was released plus a full window, no stream takes more than its     *)
(* limit, and what was taken covers the bytes received and the final size. *)
CreditInv(x, c) ==
    /\ x.desired = Window
    /\ x.released <= x.acquired
    /\ x.acquired - x.released <= c.acquired - c.consumed
    /\ x.window.latest = x.released + x.desired
    /\ x.acquired <= x.window.latest
    /\ c.window.latest = c.consumed + c.desired
    /\ c.acquired <= c.window.latest
    /\ \A o \in x.received : o < x.consumed + Window
    /\ x.state = "Reset" => x.released = x.acquired
    /\ x.state = "Receiving" =>
          /\ x.released = x.consumed
          /\ x.final # Unknown => x.final <= x.acquired
          /\ \A o \in x.received : o < x.acquired

IInv == TypeOK /\ CreditInv(rs, conn)


(* "By the time we enter the final state all synchronization should have   *)
(* been cancelled": the debug assertions of poll_request.                  *)
EndCancelsSyncs ==
    /\ rs.state = "Receiving" /\ rs.final # Unknown =>
            rs.window.delivery.state = "Cancelled"
    /\ rs.state = "Receiving" /\ IsWritingComplete(rs) => rs.stop.state = "Cancelled"

(* A stream that was reset has given back all the credit it took, "in      *)
(* order not to starve other streams".                                     *)
ResetReturnsCredit == rs.state = "Reset" => rs.released = rs.acquired

(* A stream that was stopped is only dropped when all of its data, up to   *)
(* the FIN, has arrived: nothing the peer still sends can reopen it.       *)
StoppedIsComplete ==
    rs.state = "Stopping" /\ rs.observed =>
        rs.end # Unknown /\ 0..(rs.end - 1) \subseteq rs.arrived

(* The final size never changes once it is known, and no accepted byte     *)
(* lies at or beyond it.                                                   *)
FinalSizeIsFinal ==
    [][rs.state = "Receiving" /\ rs.final # Unknown /\ rs'.state = "Receiving" =>
            /\ rs'.final = rs.final
            /\ \A o \in rs'.received : o < rs.final]_vars

-----------------------------------------------------------------------------
(* Statements of the documentation that the code does not keep.            *)

(* A stream that ends with less data read than it took credit for has "to  *)
(* release the complete window in order not to starve other streams".      *)
EndedStreamReturnsCredit ==
    closed = "None" /\ ~RecvIsRetained(rs) => rs.released = rs.acquired

(* "The application has requested the peer to STOP_SENDING and the stream  *)
(* is currently waiting for an ACK for the STOP_SENDING frame": with the   *)
(* ACK, and all of the data, the stream is no longer `Stopping`.           *)
StoppingEnds ==
    rs.stop.state = "Delivered" /\ rs.end # Unknown /\ 0..(rs.end - 1) \subseteq rs.arrived =>
        rs.state # "Stopping"

(* detach finalizes the stream "if the stream has been reset and the       *)
(* application isn't subscribed to updates": no handle, no stream.         *)
DroppedResetIsReleased ==
    closed = "None" /\ handle = "Dropped" /\ rs.state = "Reset" => ~RecvIsRetained(rs)
=============================================================================
