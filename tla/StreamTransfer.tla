----------------------------- MODULE StreamTransfer -----------------------------
(***************************************************************************)
(* A stream from one endpoint to the other: the sending half of            *)
(* SendStream, the receiving half of ReceiveStream and a network that      *)
(* loses, delays and reorders the packets of both directions.              *)
(*                                                                         *)
(* A packet is a record of the frames it carries that matter to the peer.  *)
(* `got` holds the numbers of the packets that arrived and whose           *)
(* acknowledgement is under way.  A packet declared lost may still be on   *)
(* its way; its number is 0 then, since the sender forgot it.  The         *)
(* STREAM_DATA_BLOCKED timer, which SendStream covers, never expires here. *)
(***************************************************************************)
EXTENDS SendStream, SequencesExt

CONSTANTS
    RPackets,   \* packet numbers of the receiving endpoint
    Resets,     \* whether the applications reset and stop the stream
    MaxLate     \* bound on the late packets in each direction

ASSUME TransferAssumption ==
    Packets # {} /\ RPackets \subseteq Nat \ {0} /\ Resets \in BOOLEAN /\ MaxLate \in Nat

VARIABLES
    rs,         \* the receiving half of the stream
    rconn,      \* the IncomingConnectionFlowController of its connection
    closed,     \* the error that closed the receiving endpoint, or "None"
    handle,     \* the status kept by the reader's handle
    wire,       \* packets on their way to the receiving endpoint
    got,        \* numbers of those that arrived
    back,       \* packets on their way to the sending endpoint
    gotBack     \* numbers of those that arrived

R == INSTANCE ReceiveStream WITH
        conn <- rconn, Packets <- RPackets,
        Window <- InitialMaxStreamData, ConnWindow <- InitialMaxData, MaxLow <- 0

sender == <<st, conn>>
receiver == <<rs, rconn, closed, handle>>
network == <<wire, got, back, gotBack>>
transferVars == <<sender, receiver, network>>

TransferInit ==
    /\ Init
    /\ R!Init
    /\ wire = {} /\ got = {} /\ back = {} /\ gotBack = {}

-----------------------------------------------------------------------------
(* The applications.                                                       *)

Request(chunk, finish, reset) ==
    [chunk |-> chunk, finish |-> finish, flush |-> FALSE, reset |-> reset,
     detached |-> FALSE, context |-> TRUE]

Write ==
    /\ st.sender = "Sending" /\ st.total < MaxBytes /\ CanPush(st)
    /\ st' = SendPollRequest(st, Request(1, FALSE, FALSE))
    /\ UNCHANGED <<conn, receiver, network>>

FinishWriting ==
    /\ st.sender = "Sending"
    /\ st' = SendPollRequest(st, Request(0, TRUE, FALSE))
    /\ UNCHANGED <<conn, receiver, network>>

ResetWriting ==
    /\ Resets /\ st.state = "Sending"
    /\ st' = SendPollRequest(st, Request(0, FALSE, TRUE))
    /\ UNCHANGED <<conn, receiver, network>>

Read ==
    \E amount \in R!ReadAmounts(rs, [chunks |-> TRUE, low |-> 0, context |-> TRUE]) :
        /\ handle = "Open"
        /\ amount > 0 \/ rs.state # "Receiving"
        /\ \E p \in {R!RecvPollRead(R!Triple, [chunks |-> TRUE, low |-> 0, context |-> TRUE],
                                    amount)} :
              /\ rs' = p.stream /\ rconn' = p.conn
              /\ handle' = IF p.stream.state = "DataRead" THEN "Finished" ELSE handle
        /\ UNCHANGED <<sender, closed, network>>

StopReading ==
    /\ Resets
    /\ R!DropHandle
    /\ UNCHANGED <<sender, network>>

-----------------------------------------------------------------------------
(* Packets to the receiving endpoint.                                      *)

Mentioned(x) ==
    {t[1] : t \in x.inflight} \cup {x.finPacket, x.reset.packet, x.blocked.delivery.packet}

(* Stands for the packets whose fate the stream is never told.  Numbers    *)
(* are reused, so a reference to such a packet must not keep its number.   *)
Retired == Max(Packets)

Retire(x, pn) ==
    [x EXCEPT !.blocked.delivery.packet = IF @ = pn THEN Retired ELSE @]

FreeNumbers == Packets \ ({Retired} \cup Mentioned(st) \cup {w.pn : w \in wire} \cup got)

(* The frames that the transmission left in packet pn.  The FIN bit is set *)
(* on every frame that reaches the end of a stream that finishes.          *)
Frames(x, pn) ==
    LET data == {t[2] : t \in {t \in x.inflight : t[1] = pn}}
    IN  [pn |-> pn, data |-> data, total |-> x.total,
         fin |-> x.sender = "Finishing" /\ (x.finPacket = pn \/ x.total - 1 \in data),
         reset |-> IF x.reset.packet = pn THEN x.reset.value ELSE -1]

SendPacket ==
    /\ SendHasInterest(st)
    /\ FreeNumbers # {}
    /\ \E room \in 2..MaxRoom :
          \E t \in {SendOnTransmit([stream |-> st, conn |-> conn, room |-> room, err |-> FALSE],
                                   Min(FreeNumbers), "None", FALSE)} :
              /\ st' = t.stream /\ conn' = t.conn
              /\ wire' = IF Min(FreeNumbers) \in Mentioned(t.stream)
                           THEN wire \cup {Frames(t.stream, Min(FreeNumbers))} ELSE wire
    /\ UNCHANGED <<receiver, got, back, gotBack>>

(* The frames of a packet in the order they were written: one per run of   *)
(* adjacent bytes, and an empty one for a FIN without data.                *)
StreamFrames(w) ==
    LET starts == SetToSortSeq({o \in w.data : o - 1 \notin w.data}, LAMBDA a, b : a < b)
        EndOf(o) == Min({e \in (o + 1)..w.total : e \notin w.data})
        frames == [i \in DOMAIN starts |->
                      [start |-> starts[i], end |-> EndOf(starts[i]),
                       fin |-> w.fin /\ EndOf(starts[i]) = w.total]]
    IN  IF w.fin /\ w.total - 1 \notin w.data
          THEN Append(frames, [start |-> w.total, end |-> w.total, fin |-> TRUE])
          ELSE frames

(* A stream that is not retained is gone, and its frames are ignored.      *)
HandleFrame(p, frame) ==
    IF p.err = "None" /\ R!RecvIsRetained(p.stream) THEN R!RecvOnData(p, frame) ELSE p

HandleFrames(p, frames) ==
    LET after[i \in 0..Len(frames)] ==
            IF i = 0 THEN p ELSE HandleFrame(after[i - 1], frames[i])
    IN  after[Len(frames)]

HandleReset(p, size) ==
    IF size # -1 /\ R!RecvIsRetained(p.stream) THEN R!RecvOnReset(p, size) ELSE p

HandlePacket(w) ==
    /\ closed = "None"
    /\ \E p \in {HandleFrames(HandleReset(R!Triple, w.reset), StreamFrames(w))} :
          R!Apply(R!CloseOnError(p))
    /\ wire' = wire \ {w}
    /\ got' = (got \cup {w.pn}) \ {0}
    /\ UNCHANGED <<sender, back, gotBack>>

ReceivePacket == \E w \in wire : w.pn # 0 /\ HandlePacket(w)

ReceiveLatePacket == \E w \in wire : w.pn = 0 /\ HandlePacket(w)

HandleAck(pn) ==
    /\ st' = IF SendWantsAcks(st) THEN SendOnPacketAck(st, {pn}) ELSE Retire(st, pn)
    /\ got' = got \ {pn}
    /\ UNCHANGED <<conn, receiver, wire, back, gotBack>>

ReceiveAck == \E pn \in got : HandleAck(pn)

(* A packet declared lost is gone or late.                                 *)
Late(packets, pn) ==
    {[w EXCEPT !.pn = 0] : w \in {w \in packets : w.pn = pn}} \cup {w \in packets : w.pn # pn}

Gone(packets, pn) == {w \in packets : w.pn # pn}

Losses(packets, pn) ==
    {Gone(packets, pn)} \cup
    {late \in {Late(packets, pn)} : Cardinality({w \in late : w.pn = 0}) <= MaxLate}

DeclareLost ==
    \E pn \in {w.pn : w \in wire} \cup got :
        /\ pn # 0
        /\ st' = IF SendWantsAcks(st) THEN SendOnPacketLoss(st, {pn}) ELSE Retire(st, pn)
        /\ wire' \in Losses(wire, pn)
        /\ got' = got \ {pn}
        /\ UNCHANGED <<conn, receiver, back, gotBack>>

-----------------------------------------------------------------------------
(* Packets to the sending endpoint.                                        *)

FreeBackNumbers ==
    RPackets \ ({rs.window.delivery.packet, rs.stop.packet, rconn.window.delivery.packet}
                   \cup {b.pn : b \in back} \cup gotBack)

CarriedValue(sync, pn) == IF sync.delivery.packet = pn THEN sync.delivery.value ELSE 0

SendUpdate ==
    /\ closed = "None"
    /\ R!RecvHasInterest(rs) \/ HasInterest(rconn.window.delivery)
    /\ FreeBackNumbers # {}
    /\ rconn' = [rconn EXCEPT !.window = IncrementalOnTransmit(@, Min(FreeBackNumbers), "None")]
    /\ rs' = IF R!RecvHasInterest(rs)
               THEN R!RecvOnTransmit(rs, Min(FreeBackNumbers), "None") ELSE rs
    /\ back' = back \cup
          {[pn |-> Min(FreeBackNumbers),
            maxData |-> CarriedValue(rconn'.window, Min(FreeBackNumbers)),
            maxStreamData |-> CarriedValue(rs'.window, Min(FreeBackNumbers)),
            stop |-> rs'.stop.packet = Min(FreeBackNumbers)]}
    /\ UNCHANGED <<sender, closed, handle, wire, got, gotBack>>

HandleMaxData(p, maximum) ==
    SendOnConnectionWindowAvailable([p EXCEPT !.conn = ConnOnMaxData(@, maximum)])

HandleStopSending(x, stop) == IF stop THEN SendOnStopSending(x) ELSE x

HandleUpdate(b) ==
    /\ \E p \in {HandleMaxData([stream |-> st, conn |-> conn], b.maxData)} :
          /\ st' = SendOnMaxStreamData(HandleStopSending(p.stream, b.stop), b.maxStreamData)
          /\ conn' = p.conn
    /\ back' = back \ {b}
    /\ gotBack' = (gotBack \cup {b.pn}) \ {0}
    /\ UNCHANGED <<receiver, wire, got>>

ReceiveUpdate == \E b \in back : b.pn # 0 /\ HandleUpdate(b)

ReceiveLateUpdate == \E b \in back : b.pn = 0 /\ HandleUpdate(b)

ReceiveUpdateAck ==
    \E pn \in gotBack :
        /\ closed = "None"
        /\ rs' = IF R!RecvWantsAcks(rs) THEN R!RecvOnPacketAck(rs, {pn}) ELSE rs
        /\ rconn' = [rconn EXCEPT !.window = IncrementalOnPacketAck(@, {pn})]
        /\ gotBack' = gotBack \ {pn}
        /\ UNCHANGED <<sender, closed, handle, wire, got, back>>

DeclareUpdateLost ==
    \E pn \in {b.pn : b \in back} \cup gotBack :
        /\ closed = "None" /\ pn # 0
        /\ rs' = IF R!RecvWantsAcks(rs) THEN R!RecvOnPacketLoss(rs, {pn}) ELSE rs
        /\ rconn' = [rconn EXCEPT !.window = IncrementalOnPacketLoss(@, {pn})]
        /\ back' \in Losses(back, pn)
        /\ gotBack' = gotBack \ {pn}
        /\ UNCHANGED <<sender, closed, handle, wire, got>>

TransferNext ==
    \/ Write \/ FinishWriting \/ ResetWriting
    \/ Read \/ StopReading
    \/ SendPacket \/ ReceivePacket \/ ReceiveLatePacket \/ ReceiveAck \/ DeclareLost
    \/ SendUpdate \/ ReceiveUpdate \/ ReceiveLateUpdate \/ ReceiveUpdateAck \/ DeclareUpdateLost

TransferSpec == TransferInit /\ [][TransferNext]_transferVars

(* The reader keeps reading, the endpoints send what they have, and every  *)
(* packet is acknowledged or declared lost in the end.  The network is     *)
(* fair to each byte and to the FIN: one that is sent again and again      *)
(* arrives, and is acknowledged in time.  To be fair to packets in general *)
(* would not do: those with a FIN alone could be the ones to get through.  *)
(* Strong and weak fairness are written with the guard of the action in    *)
(* place of ENABLED, which holds in the same states.                       *)
CanRead == handle = "Open" /\ (R!BufferLen(rs) > 0 \/ rs.state # "Receiving")
CanSendPacket == SendHasInterest(st) /\ FreeNumbers # {}
CanSendUpdate ==
    /\ closed = "None" /\ FreeBackNumbers # {}
    /\ R!RecvHasInterest(rs) \/ HasInterest(rconn.window.delivery)

Tracked == {w.pn : w \in wire} \cup got

Items == Offsets \cup {MaxBytes}

IsFin(item) == item = MaxBytes

OnWire(item) == {w \in wire : w.pn # 0 /\ (item \in w.data \/ (IsFin(item) /\ w.fin))}

Arrived(item) == {pn \in got : <<pn, item>> \in st.inflight \/ (IsFin(item) /\ st.finPacket = pn)}

ItemIsAcked(item) == \E pn \in Arrived(item) : HandleAck(pn)

Fairness ==
    /\ []<>~CanRead \/ []<><<Read>>_transferVars
    /\ []<>~CanSendPacket \/ []<><<SendPacket>>_transferVars
    /\ []<>~CanSendUpdate \/ []<><<SendUpdate>>_transferVars
    /\ \A pn \in Packets : []<>(pn \notin Tracked)
    /\ \A item \in Items :
          <>[](OnWire(item) = {}) \/ []<><<ItemIsAcked(item)>>_transferVars
    /\ <>[](\A b \in back : b.pn = 0) \/ []<><<ReceiveUpdate>>_transferVars
    /\ <>[](gotBack = {}) \/ []<><<ReceiveUpdateAck>>_transferVars

FairTransferSpec == TransferSpec /\ Fairness

-----------------------------------------------------------------------------
TransferTypeOK ==
    /\ TypeOK
    /\ R!TypeOK
    /\ got \subseteq Packets /\ gotBack \subseteq RPackets
    /\ \A w \in wire : w.pn \in Packets \cup {0} /\ w.data \subseteq Offsets
    /\ \A b \in back : b.pn \in RPackets \cup {0}

(* Two endpoints that run this code agree on the limits whatever the       *)
(* network does: no frame of the sender is an error to the receiver.       *)
NoConnectionError == closed = "None"

(* A sender that has finished may forget the data: the receiver has all    *)
(* of it, and knows that it is all.                                        *)
FinishedIsDelivered ==
    st.sender = "Finished" =>
        \/ rs.state = "DataRead"
        \/ rs.final = rs.acquired /\ R!IsWritingComplete(rs)
        \/ handle = "Dropped"

(* When the stream is over for the receiver, both endpoints have accounted *)
(* for the same amount of connection credit: "to keep the connection       *)
(* window on both sides in sync" (init_reset of the sender).               *)
CreditInSync ==
    rs.state \in {"DataRead", "Reset"} /\ closed = "None" =>
        rconn.acquired = conn.total - conn.available

(* What the writer finished arrives at the reader, and the sender learns   *)
(* that it did.                                                            *)
TransferCompletes ==
    st.sender = "Finishing" ~> (rs.state = "DataRead" /\ st.sender = "Finished")

-----------------------------------------------------------------------------
(* Statements of the documentation that the code does not keep.            *)

(* "The receiver MUST use the final size of the stream to account for all  *)
(* bytes sent on the stream in its connection level flow controller",      *)
(* which on_data cites: also when the reader stopped the stream.           *)
StoppedIsAccounted ==
    ~R!RecvIsRetained(rs) => rconn.acquired = conn.total - conn.available
=============================================================================
