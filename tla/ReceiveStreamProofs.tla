--------------------------- MODULE ReceiveStreamProofs ---------------------------
(***************************************************************************)
(* The flow control properties of ReceiveStream, for every size of the     *)
(* two windows and every bound.                                            *)
(***************************************************************************)
EXTENDS ReceiveStream, FiniteSetTheorems, WellFoundedInduction, TLAPS

(***************************************************************************)
(* The synchronizers.                                                      *)
(***************************************************************************)

(* The constructors of DeliveryState.                                      *)
LEMMA DeliveryTypes ==
    ASSUME NEW v \in Nat, NEW pn \in Packets
    PROVE  /\ NotRequested \in DeliveryState(Nat, Packets)
           /\ Requested(v) \in DeliveryState(Nat, Packets)
           /\ Lost(v) \in DeliveryState(Nat, Packets)
           /\ InFlight(v, pn) \in DeliveryState(Nat, Packets)
           /\ Delivered(v) \in DeliveryState(Nat, Packets)
           /\ Cancelled \in DeliveryState(Nat, Packets)
  BY PacketsAssumption DEF DeliveryState, DeliveryStateNames, NotRequested, Requested, Lost,
     InFlight, Delivered, Cancelled

(* Every delivery state has a value.                                       *)
LEMMA DeliveryValue ==
    ASSUME NEW d \in DeliveryState(Nat, Packets) PROVE d.value \in Nat
  BY DEF DeliveryState

(* update_latest_value sets the latest value and nothing else of the type. *)
LEMMA UpdateType ==
    ASSUME NEW s \in WindowSync, NEW v \in Nat
    PROVE  /\ IncrementalUpdateLatestValue(s, v) \in WindowSync
           /\ IncrementalUpdateLatestValue(s, v).latest = v
<1> DEFINE raised == [s EXCEPT !.latest = v]
<1>1. raised \in WindowSync /\ raised.latest = v
  BY DEF WindowSync
<1>2. Requested(v) \in DeliveryState(Nat, Packets)
  BY DEF DeliveryState, DeliveryStateNames, Requested
<1> HIDE DEF raised
<1>3. /\ IncrementalRequestIfNecessary(raised) \in WindowSync
      /\ IncrementalRequestIfNecessary(raised).latest = v
  BY <1>1, <1>2 DEF IncrementalRequestIfNecessary, WindowSync
<1>4. QED
  BY <1>3 DEF IncrementalUpdateLatestValue, raised

(* stop_sync keeps the latest value.                                       *)
LEMMA StopSyncType ==
    ASSUME NEW s \in WindowSync
    PROVE  IncrementalStopSync(s) \in WindowSync /\ IncrementalStopSync(s).latest = s.latest
<1>1. Cancelled \in DeliveryState(Nat, Packets)
  BY DEF DeliveryState, DeliveryStateNames, Cancelled
<1>2. QED
  BY <1>1 DEF IncrementalStopSync, WindowSync, Cancel

(* on_packet_ack of a window keeps the latest value.                       *)
LEMMA WindowAckType ==
    ASSUME NEW s \in WindowSync, NEW pns
    PROVE  /\ IncrementalOnPacketAck(s, pns) \in WindowSync
           /\ IncrementalOnPacketAck(s, pns).latest = s.latest
<1>1. NotRequested \in DeliveryState(Nat, Packets) /\ s.delivery.value \in Nat
  BY DEF DeliveryState, DeliveryStateNames, NotRequested, WindowSync
<1>2. QED
  BY Zenon, <1>1 DEF IncrementalOnPacketAck, WindowSync

(* on_packet_loss of a window keeps the latest value.                      *)
LEMMA WindowLossType ==
    ASSUME NEW s \in WindowSync, NEW pns
    PROVE  /\ IncrementalOnPacketLoss(s, pns) \in WindowSync
           /\ IncrementalOnPacketLoss(s, pns).latest = s.latest
<1>1. Lost(s.latest) \in DeliveryState(Nat, Packets)
  BY DEF DeliveryState, DeliveryStateNames, Lost, WindowSync
<1>2. QED
  BY <1>1 DEF IncrementalOnPacketLoss, WindowSync

(* on_transmit of a window keeps the latest value.                         *)
LEMMA WindowTransmitType ==
    ASSUME NEW s \in WindowSync, NEW pn \in Packets, NEW constraint
    PROVE  /\ IncrementalOnTransmit(s, pn, constraint) \in WindowSync
           /\ IncrementalOnTransmit(s, pn, constraint).latest = s.latest
<1>1. InFlight(s.latest, pn) \in DeliveryState(Nat, Packets)
  BY DeliveryTypes DEF WindowSync
<1>2. QED
  BY <1>1 DEF IncrementalOnTransmit, WindowSync

(* on_transmit of STOP_SENDING.                                            *)
LEMMA OnceTypes ==
    ASSUME NEW d \in DeliveryState(Nat, Packets), NEW pn \in Packets, NEW constraint
    PROVE  OnceOnTransmit(d, pn, constraint) \in DeliveryState(Nat, Packets)
  BY DeliveryTypes, DeliveryValue DEF OnceOnTransmit

(* on_packet_ack and on_packet_loss of STOP_SENDING.                       *)
LEMMA OnceAckTypes ==
    ASSUME NEW d \in DeliveryState(Nat, Packets), NEW pns
    PROVE  /\ OnceOnPacketAck(d, pns) \in DeliveryState(Nat, Packets)
           /\ OnceOnPacketLoss(d, pns) \in DeliveryState(Nat, Packets)
<1>1. d.value \in Nat
  BY DeliveryValue
<1>2. /\ Delivered(d.value) \in DeliveryState(Nat, Packets)
      /\ Lost(d.value) \in DeliveryState(Nat, Packets)
  BY <1>1 DEF DeliveryState, DeliveryStateNames, Delivered, Lost
<1>3. QED
  BY <1>2 DEF OnceOnPacketAck, OnceOnPacketLoss

(***************************************************************************)
(* Smallest elements.                                                      *)
(***************************************************************************)

(* The minimum that BufferLen takes exists.                                *)
LEMMA MinOfNaturals ==
    ASSUME NEW S, S \subseteq Nat, S # {}
    PROVE  Min(S) \in S /\ \A n \in S : Min(S) <= n
<1>1. PICK m \in S : \A n \in S : ~(<<n, m>> \in OpToRel(<, Nat))
  BY NatLessThanWellFounded, WFMin
<1>2. ASSUME NEW n \in S PROVE m <= n
  <2>1. m \in Nat /\ n \in Nat
    OBVIOUS
  <2>2. ~(n < m)
    BY Zenon, <1>1, <2>1 DEF OpToRel
  <2>3. QED
    BY <2>1, <2>2
<1>3. QED
  BY Zenon, <1>2 DEF Min

(***************************************************************************)
(* The reassembly buffer.                                                  *)
(***************************************************************************)

(* The length of the received prefix is no larger than any bound on the    *)
(* offsets received.                                                       *)
LEMMA PrefixWithinBound ==
    ASSUME NEW x, x.received \in SUBSET Offsets,
           NEW bound \in Nat, \A o \in x.received : o < bound
    PROVE  TotalReceivedLen(x) \in Nat /\ TotalReceivedLen(x) <= bound
<1> DEFINE n == Cardinality(x.received)
           holes == (0..n) \ x.received
<1>1. IsFiniteSet(x.received) /\ n \in Nat
  <2>1. IsFiniteSet(Offsets)
    BY SizesAssumption, FS_Interval DEF Offsets
  <2>2. QED
    BY <2>1, FS_Subset, FS_CardinalityType
<1>2. holes # {}
  <2>1. SUFFICES ASSUME (0..n) \subseteq x.received PROVE FALSE
    OBVIOUS
  <2>2. Cardinality(0..n) = n + 1
    BY <1>1, FS_Interval
  <2>3. Cardinality(0..n) <= n
    BY <1>1, <2>1, FS_Subset
  <2>4. QED
    BY <1>1, <2>2, <2>3
<1> DEFINE m == Min(holes)
<1>3. m \in holes /\ \A h \in holes : m <= h
  <2>1. holes \subseteq Nat
    BY <1>1
  <2>2. QED
    BY <1>2, <2>1, MinOfNaturals
<1>4. TotalReceivedLen(x) = m
  BY DEF TotalReceivedLen
<1> HIDE DEF m
<1>5. m \in Nat /\ m <= bound
  <2>1. CASE m = 0
    BY <2>1
  <2>2. CASE m # 0
    <3>1. m - 1 \in 0..n /\ m \in Nat
      BY <1>1, <1>3, <2>2
    <3>2. m - 1 \in x.received
      BY <1>3, <3>1
    <3>3. QED
      BY <3>1, <3>2
  <2>3. QED
    BY <2>1, <2>2
<1>6. QED
  BY <1>4, <1>5

(***************************************************************************)
(* Credit.  `Good` is the inductive invariant of a triple.                 *)
(***************************************************************************)

Triples == [stream : RecvRecord, conn : ConnRecord, err : Errors]

Good(p) == p \in Triples /\ CreditInv(p.stream, p.conn)

(* What CreditInv looks at in a stream.                                    *)
SameCredit(x, y) ==
    /\ y.state = x.state /\ y.desired = x.desired
    /\ y.acquired = x.acquired /\ y.released = x.released
    /\ y.window.latest = x.window.latest
    /\ y.received = x.received /\ y.consumed = x.consumed /\ y.final = x.final

(* The credit invariant only depends on the fields of SameCredit.          *)
LEMMA SameCreditInv ==
    ASSUME NEW x, NEW y, NEW c, CreditInv(x, c), SameCredit(x, y)
    PROVE  CreditInv(y, c)
  BY DEF CreditInv, SameCredit

(* detach does not touch the credit.                                       *)
LEMMA DetachGood ==
    ASSUME NEW x \in RecvRecord
    PROVE  RecvDetach(x) \in RecvRecord /\ SameCredit(x, RecvDetach(x))
  BY ZenonT(60) DEF RecvDetach, RecvRecord, SameCredit, NoWaiter

(* wake does not touch the credit.                                         *)
LEMMA WakeGood ==
    ASSUME NEW x \in RecvRecord
    PROVE  RecvWake(x) \in RecvRecord /\ SameCredit(x, RecvWake(x))
  BY DetachGood DEF RecvWake, RecvRecord, SameCredit, NoWaiter

(* Waking a reader whose watermark is reached does not touch the credit.   *)
LEMMA WakeReaderGood ==
    ASSUME NEW x \in RecvRecord
    PROVE  RecvWakeReader(x) \in RecvRecord /\ SameCredit(x, RecvWakeReader(x))
  BY WakeGood DEF RecvWakeReader, SameCredit

(* A buffer that is cleared on leaving `Receiving` leaves nothing to cover.*)
LEMMA ClearedCreditInv ==
    ASSUME NEW x \in RecvRecord, NEW y \in RecvRecord, NEW c, CreditInv(x, c),
           y.state \in {"DataRead", "Stopping"}, y.received = {},
           y.desired = x.desired, y.acquired = x.acquired, y.released = x.released,
           y.window.latest = x.window.latest
    PROVE  CreditInv(y, c)
  BY DEF CreditInv

(* acquire_window_up_to: an error, or credit up to the offset at both      *)
(* levels.                                                                 *)
LEMMA AcquireGood ==
    ASSUME NEW p, Good(p), NEW offset \in Nat, p.stream.state # "Reset"
    PROVE  LET q == AcquireWindowUpTo(p, offset)
           IN  /\ Good(q)
               /\ q.stream.state = p.stream.state
               /\ q.err = "None" => offset <= q.stream.acquired
               /\ q.stream.final = p.stream.final
<1> DEFINE q == AcquireWindowUpTo(p, offset)
<1> USE DEF Good, Triples
<1>1. CASE offset > p.stream.window.latest
  <2>1. q = [p EXCEPT !.err = "FlowControlError"]
    BY <1>1 DEF AcquireWindowUpTo, RecvRecord, WindowSync
  <2>2. QED
    BY <2>1 DEF Errors
<1>2. CASE offset <= p.stream.window.latest /\ offset <= p.stream.acquired
  BY <1>2 DEF AcquireWindowUpTo, RecvRecord, WindowSync
<1>3. CASE /\ offset <= p.stream.window.latest /\ offset > p.stream.acquired
           /\ RemainingWindow(p.conn) < offset - p.stream.acquired
  <2>1. q = [p EXCEPT !.err = "FlowControlError"]
    BY <1>3 DEF AcquireWindowUpTo, RecvRecord, WindowSync
  <2>2. QED
    BY <2>1 DEF Errors
<1>4. CASE /\ offset <= p.stream.window.latest /\ offset > p.stream.acquired
           /\ ~(RemainingWindow(p.conn) < offset - p.stream.acquired)
  <2>1. q = [p EXCEPT !.conn.acquired = @ + (offset - p.stream.acquired),
                      !.stream.acquired = offset]
    BY <1>4 DEF AcquireWindowUpTo, RecvRecord, WindowSync
  <2>2. /\ q.stream = [p.stream EXCEPT !.acquired = offset]
        /\ q.conn = [p.conn EXCEPT !.acquired = @ + (offset - p.stream.acquired)]
        /\ q.err = p.err
        /\ q \in [stream : {q.stream}, conn : {q.conn}, err : Errors]
    BY ZenonT(60), <2>1
  <2>3. q.stream \in RecvRecord /\ q.conn \in ConnRecord
    BY <1>4, <2>2 DEF RecvRecord, ConnRecord
  <2>4. CreditInv(q.stream, q.conn)
    <3>1. /\ q.stream.acquired = offset
          /\ q.conn.acquired = p.conn.acquired + (offset - p.stream.acquired)
          /\ q.conn.window = p.conn.window /\ q.conn.desired = p.conn.desired
          /\ q.conn.consumed = p.conn.consumed
      BY <2>2 DEF RecvRecord, ConnRecord
    <3>2. /\ q.stream.state = p.stream.state /\ q.stream.desired = p.stream.desired
          /\ q.stream.released = p.stream.released /\ q.stream.window = p.stream.window
          /\ q.stream.received = p.stream.received /\ q.stream.final = p.stream.final
          /\ q.stream.consumed = p.stream.consumed
      BY <2>2 DEF RecvRecord
    <3>3. /\ p.stream.acquired \in Nat /\ p.stream.released \in Nat
          /\ p.conn.acquired \in Nat /\ p.conn.consumed \in Nat
          /\ p.conn.window.latest \in Nat /\ p.stream.final \in Nat \cup {Unknown}
          /\ p.stream.received \subseteq Nat
      BY SizesAssumption DEF RecvRecord, ConnRecord, WindowSync, Offsets
    <3>4. QED
      BY SMTT(60), <1>4, <3>1, <3>2, <3>3 DEF CreditInv, RemainingWindow, Unknown
  <2>5. QED
    BY <2>2, <2>3, <2>4 DEF RecvRecord
<1>5. QED
  BY SMTT(60), <1>1, <1>2, <1>3, <1>4 DEF RecvRecord, WindowSync

(* What release_window does to the stream.                                 *)
LEMMA StreamReleaseFields ==
    ASSUME NEW x \in RecvRecord, NEW amount \in Nat
    PROVE  LET y == StreamReleaseWindow(x, amount)
           IN  /\ y \in RecvRecord
               /\ y.released = x.released + amount
               /\ y.window.latest = x.released + amount + x.desired
               /\ y.state = x.state /\ y.desired = x.desired /\ y.acquired = x.acquired
               /\ y.received = x.received /\ y.consumed = x.consumed /\ y.final = x.final
<1>1. /\ x.window \in WindowSync
      /\ x.released + amount \in Nat
      /\ x.released + amount + x.desired \in Nat
  BY DEF RecvRecord
<1>2. PICK w \in WindowSync :
          /\ w.latest = x.released + amount + x.desired
          /\ w = IncrementalUpdateLatestValue(x.window, x.released + amount + x.desired)
  BY Zenon, <1>1, UpdateType
<1>3. StreamReleaseWindow(x, amount) = [x EXCEPT !.released = x.released + amount, !.window = w]
  BY <1>2 DEF StreamReleaseWindow
<1>4. [x EXCEPT !.released = x.released + amount, !.window = w] \in RecvRecord
  BY ZenonT(60), <1>1 DEF RecvRecord
<1>5. QED
  BY <1>2, <1>3, <1>4 DEF RecvRecord

(* What release_window does to the connection.                             *)
LEMMA ConnReleaseFields ==
    ASSUME NEW c \in ConnRecord, NEW amount \in Nat
    PROVE  LET d == ConnReleaseWindow(c, amount)
           IN  /\ d \in ConnRecord
               /\ d.consumed = c.consumed + amount
               /\ d.window.latest = c.consumed + amount + c.desired
               /\ d.acquired = c.acquired /\ d.desired = c.desired
<1>1. /\ c.window \in WindowSync
      /\ c.consumed + amount \in Nat
      /\ c.consumed + amount + c.desired \in Nat
  BY DEF ConnRecord
<1>2. PICK w \in WindowSync :
          /\ w.latest = c.consumed + amount + c.desired
          /\ w = IncrementalUpdateLatestValue(c.window, c.consumed + amount + c.desired)
  BY Zenon, <1>1, UpdateType
<1>3. ConnReleaseWindow(c, amount) = [c EXCEPT !.consumed = c.consumed + amount, !.window = w]
  BY <1>2 DEF ConnReleaseWindow
<1>4. [c EXCEPT !.consumed = c.consumed + amount, !.window = w] \in ConnRecord
  BY Zenon, <1>1 DEF ConnRecord
<1>5. QED
  BY <1>2, <1>3, <1>4 DEF ConnRecord

(* release_window at both levels.                                          *)
LEMMA ReleaseFields ==
    ASSUME NEW p \in Triples, NEW amount \in Nat
    PROVE  /\ ReleaseWindow(p, amount) \in Triples
           /\ ReleaseWindow(p, amount).err = p.err
           /\ ReleaseWindow(p, amount).stream = StreamReleaseWindow(p.stream, amount)
           /\ ReleaseWindow(p, amount).conn = ConnReleaseWindow(p.conn, amount)
<1>1. p.stream \in RecvRecord /\ p.conn \in ConnRecord
  BY DEF Triples
<1>2. /\ StreamReleaseWindow(p.stream, amount) \in RecvRecord
      /\ ConnReleaseWindow(p.conn, amount) \in ConnRecord
  BY <1>1, StreamReleaseFields, ConnReleaseFields
<1>3. QED
  BY Zenon, <1>2 DEF ReleaseWindow, Triples

(* Giving back what is outstanding in the state that the reset leaves.     *)
LEMMA EnterResetGood ==
    ASSUME NEW p, Good(p)
    PROVE  Good(RecvEnterReset(p)) /\ RecvEnterReset(p).err = p.err
<1> DEFINE x == RecvClear(p.stream)
           amount == x.acquired - x.released
           y == StreamReleaseWindow(x, amount)
           d == ConnReleaseWindow(p.conn, amount)
<1>1. p \in Triples /\ p.stream \in RecvRecord /\ p.conn \in ConnRecord
  BY DEF Good, Triples
<1>2. /\ x \in RecvRecord
      /\ x.received = {} /\ x.consumed = 0
      /\ x.acquired = p.stream.acquired /\ x.released = p.stream.released
      /\ x.desired = p.stream.desired
  <2>1. IncrementalStopSync(p.stream.window) \in WindowSync
    BY <1>1, StopSyncType DEF RecvRecord
  <2>2. QED
    BY ZenonT(60), <1>1, <2>1 DEF RecvClear, BufferReset, RecvRecord, Unknown
<1>3. amount \in Nat
  BY SMTT(60), <1>1, <1>2 DEF Good, CreditInv, RecvRecord
<1> HIDE DEF x, amount
<1>4. /\ y \in RecvRecord /\ y.received = {} /\ y.acquired = x.acquired
      /\ y.released = x.released + amount /\ y.desired = x.desired
      /\ y.window.latest = x.released + amount + x.desired
  BY <1>2, <1>3, StreamReleaseFields
<1>5. /\ d \in ConnRecord /\ d.acquired = p.conn.acquired /\ d.desired = p.conn.desired
      /\ d.consumed = p.conn.consumed + amount
      /\ d.window.latest = p.conn.consumed + amount + p.conn.desired
  BY <1>1, <1>3, ConnReleaseFields
<1> HIDE DEF y, d
<1> DEFINE z == [y EXCEPT !.state = "Reset"]
<1>6. /\ z \in RecvRecord /\ z.state = "Reset" /\ z.received = {}
      /\ z.acquired = y.acquired /\ z.released = y.released /\ z.desired = y.desired
      /\ z.window.latest = y.window.latest
  BY SMTT(60), <1>4 DEF RecvRecord
<1> HIDE DEF z
<1>7. CreditInv(z, d)
  <2>1. /\ p.stream.acquired \in Nat /\ p.stream.released \in Nat
        /\ p.stream.desired \in Nat /\ p.conn.consumed \in Nat
        /\ p.conn.acquired \in Nat /\ p.conn.desired \in Nat
        /\ p.conn.window.latest \in Nat
    BY <1>1 DEF RecvRecord, ConnRecord, WindowSync
  <2>2. amount = p.stream.acquired - p.stream.released
    BY <1>2 DEF amount
  <2>3. CreditInv(p.stream, p.conn)
    BY DEF Good
  <2>4. QED
    BY SMTT(60), <1>2, <1>4, <1>5, <1>6, <2>1, <2>2, <2>3 DEF CreditInv
<1>8. CASE p.err # "None"
  BY <1>8 DEF RecvEnterReset
<1>9. CASE p.err = "None"
  <2> DEFINE q == [p EXCEPT !.stream = x]
  <2>1. q \in Triples /\ q.stream = x /\ q.conn = p.conn /\ q.err = p.err
    BY <1>1, <1>2 DEF Triples
  <2>2. RecvEnterReset(p) = [ReleaseWindow(q, amount) EXCEPT !.stream.state = "Reset"]
    BY <1>9, <2>1 DEF RecvEnterReset, ReleaseOutstandingWindow, x, amount
  <2> HIDE DEF q
  <2>3. /\ ReleaseWindow(q, amount) \in Triples
        /\ ReleaseWindow(q, amount).stream = y /\ ReleaseWindow(q, amount).conn = d
        /\ ReleaseWindow(q, amount).err = p.err
    BY <1>3, <2>1, ReleaseFields DEF y, d
  <2>4. /\ RecvEnterReset(p).stream = z /\ RecvEnterReset(p).conn = d
        /\ RecvEnterReset(p).err = p.err /\ RecvEnterReset(p) \in Triples
    BY <1>6, <2>2, <2>3 DEF Triples, z
  <2>5. QED
    BY <1>7, <2>4 DEF Good
<1>10. QED
  BY <1>8, <1>9

(* init_reset gives back all credit and keeps the invariant.               *)
LEMMA InitResetGood ==
    ASSUME NEW p, Good(p), NEW size \in Nat \cup {Unknown}
    PROVE  Good(RecvInitReset(p, size))
<1>1. CASE p.stream.state \in {"Reset", "DataRead"}
  BY <1>1 DEF RecvInitReset
<1>2. CASE p.stream.state = "Receiving" /\ p.stream.final # Unknown
  <2>1. Good([p EXCEPT !.err = "FinalSizeError"])
    BY DEF Good, Triples, Errors
  <2>2. QED
    BY <1>2, <2>1, EnterResetGood DEF RecvInitReset
<1>3. CASE /\ p.stream.state \notin {"Reset", "DataRead"}
           /\ ~(p.stream.state = "Receiving" /\ p.stream.final # Unknown)
  <2>1. RecvInitReset(p, size) =
            RecvEnterReset(IF size # Unknown THEN AcquireWindowUpTo(p, size) ELSE p)
    BY <1>3 DEF RecvInitReset
  <2>2. size # Unknown => Good(AcquireWindowUpTo(p, size))
    BY <1>3, AcquireGood
  <2>3. QED
    BY <2>1, <2>2, EnterResetGood
<1>4. QED
  BY <1>1, <1>2, <1>3

(* Replacing the stream by one with the same credit.                       *)
LEMMA SameCreditGood ==
    ASSUME NEW p, Good(p), NEW x \in RecvRecord, SameCredit(p.stream, x)
    PROVE  Good([p EXCEPT !.stream = x])
<1>1. CreditInv(x, p.conn)
  BY SameCreditInv DEF Good
<1>2. QED
  BY <1>1 DEF Good, Triples

(* on_internal_reset.                                                      *)
LEMMA InternalResetGood ==
    ASSUME NEW p, Good(p)
    PROVE  Good(RecvOnInternalReset(p))
<1> DEFINE q == RecvInitReset(p, Unknown)
<1>1. Good(q)
  BY ZenonT(60), InitResetGood
<1>2. RecvWake(q.stream) \in RecvRecord /\ SameCredit(q.stream, RecvWake(q.stream))
  BY <1>1, WakeGood DEF Good, Triples
<1> HIDE DEF q
<1>3. Good([q EXCEPT !.stream = RecvWake(q.stream)])
  BY <1>1, <1>2, SameCreditGood
<1>4. QED
  BY <1>3 DEF RecvOnInternalReset, q

(* An error leaves the stream as it is.                                    *)
LEMMA ErrorGood ==
    ASSUME NEW p, Good(p), NEW err \in Errors
    PROVE  Good([p EXCEPT !.err = err]) /\ [p EXCEPT !.err = err].err = err
  BY DEF Good, Triples

(* A connection error resets the stream.                                   *)
LEMMA CloseGood ==
    ASSUME NEW p, Good(p)
    PROVE  Good(CloseOnError(p))
<1>1. p.err \in Errors /\ "None" \in Errors
  BY DEF Good, Triples, Errors
<1>2. Good([p EXCEPT !.err = "None"])
  BY <1>1, ErrorGood
<1>3. Good(RecvOnInternalReset([p EXCEPT !.err = "None"]))
  BY <1>2, InternalResetGood
<1>4. Good([RecvOnInternalReset([p EXCEPT !.err = "None"]) EXCEPT !.err = p.err])
  BY <1>1, <1>3, ErrorGood
<1>5. QED
  BY <1>4 DEF CloseOnError

(* on_reset, the final size it acquires included.                          *)
LEMMA OnResetGood ==
    ASSUME NEW p, Good(p), NEW size \in Nat
    PROVE  Good(RecvOnReset(p, size))
<1> DEFINE q == RecvInitReset(p, size)
           x == RecvCancelStop(q.stream)
<1>1. Good(q) /\ q.stream \in RecvRecord
  BY InitResetGood DEF Good, Triples
<1> HIDE DEF q
<1>2. x \in RecvRecord /\ SameCredit(q.stream, x)
  <2>1. Cancelled \in DeliveryState(Nat, Packets)
    BY DEF DeliveryState, DeliveryStateNames, Cancelled
  <2>2. QED
    BY <1>1, <2>1 DEF RecvCancelStop, Cancel, RecvRecord, SameCredit
<1> HIDE DEF x
<1>3. RecvWake(x) \in RecvRecord /\ SameCredit(q.stream, RecvWake(x))
  BY <1>2, WakeGood DEF SameCredit
<1>4. Good([q EXCEPT !.stream = RecvWake(x)])
  BY <1>1, <1>3, SameCreditGood
<1>5. QED
  BY <1>1, <1>4 DEF RecvOnReset, RecvEndReset, q, x

(***************************************************************************)
(* on_data.                                                                *)
(***************************************************************************)

(* The fields of a STREAM frame.                                           *)
LEMMA FrameFields ==
    ASSUME NEW frame \in Frames
    PROVE  /\ frame.start \in Nat /\ frame.end \in Nat /\ frame.fin \in BOOLEAN
           /\ frame.start..(frame.end - 1) \subseteq Offsets
           /\ \A o \in frame.start..(frame.end - 1) : o \in Nat /\ o < frame.end
  BY SizesAssumption DEF Frames, Offsets

(* Writing a frame whose end is covered by acquired credit.                *)
LEMMA BufferWriteGood ==
    ASSUME NEW x \in RecvRecord, NEW c \in ConnRecord, CreditInv(x, c), NEW frame \in Frames,
           x.state = "Receiving", frame.end <= x.acquired
    PROVE  /\ BufferWrite(x, frame) \in RecvRecord
           /\ CreditInv(BufferWrite(x, frame), c)
<1> DEFINE y == BufferWrite(x, frame)
<1>1. y \in RecvRecord
  BY ZenonT(60), FrameFields DEF BufferWrite, RecvRecord
<1>2. /\ y.state = x.state /\ y.desired = x.desired /\ y.acquired = x.acquired
      /\ y.released = x.released /\ y.window = x.window /\ y.consumed = x.consumed
      /\ y.received = x.received \cup frame.start..(frame.end - 1)
      /\ y.final = IF frame.fin THEN frame.end ELSE x.final
  BY DEF BufferWrite, RecvRecord
<1> HIDE DEF y
<1>3. /\ x.acquired \in Nat /\ x.released \in Nat /\ x.desired \in Nat /\ x.consumed \in Nat
      /\ x.window.latest \in Nat
  BY DEF RecvRecord, WindowSync
<1>4. \A o \in frame.start..(frame.end - 1) : o < x.acquired /\ o < x.consumed + Window
  BY SMTT(60), <1>3, FrameFields DEF CreditInv
<1>5. CreditInv(y, c)
  BY <1>2, <1>3, <1>4 DEF CreditInv
<1>6. QED
  BY <1>1, <1>5 DEF y

(* Cancelling both synchronizers does not touch the credit.                *)
LEMMA StopSyncsGood ==
    ASSUME NEW x \in RecvRecord, NEW frame
    PROVE  RecvStopSyncs(x, frame) \in RecvRecord /\ SameCredit(x, RecvStopSyncs(x, frame))
<1>1. /\ IncrementalStopSync(x.window) \in WindowSync
      /\ IncrementalStopSync(x.window).latest = x.window.latest
  BY StopSyncType DEF RecvRecord
<1>2. Cancelled \in DeliveryState(Nat, Packets)
  BY DEF DeliveryState, DeliveryStateNames, Cancelled
<1>3. QED
  BY ZenonT(60), <1>1, <1>2 DEF RecvStopSyncs, Cancel, RecvRecord, SameCredit

(* Ending the stream after a FIN clears the buffer and keeps the credit.   *)
LEMMA AfterFinGood ==
    ASSUME NEW x \in RecvRecord, NEW c, CreditInv(x, c), NEW frame
    PROVE  RecvAfterFin(x, frame) \in RecvRecord /\ CreditInv(RecvAfterFin(x, frame), c)
<1> DEFINE y == [BufferReset(x) EXCEPT !.state = "DataRead"]
<1>1. /\ y \in RecvRecord /\ y.state = "DataRead" /\ y.received = {}
      /\ y.desired = x.desired /\ y.acquired = x.acquired /\ y.released = x.released
      /\ y.window = x.window
  BY Zenon DEF BufferReset, RecvRecord, Unknown
<1> HIDE DEF y
<1>2. CreditInv(y, c)
  BY <1>1, ClearedCreditInv
<1>3. QED
  BY <1>1, <1>2 DEF RecvAfterFin, y

(* on_data while Receiving, after the credit was acquired.                 *)
LEMMA WriteGood ==
    ASSUME NEW p, Good(p), NEW frame \in Frames, p.stream.state = "Receiving",
           p.err = "None" /\ p.stream.final = Unknown => frame.end <= p.stream.acquired
    PROVE  Good(RecvWrite(p, frame))
<1>1. CASE p.err # "None"
  BY <1>1 DEF RecvWrite
<1>2. CASE p.err = "None" /\ ~FinIsValid(p.stream, frame)
  BY ZenonT(60), <1>2, ErrorGood DEF RecvWrite, Errors
<1>3. CASE p.err = "None" /\ FinIsValid(p.stream, frame)
  <2> DEFINE x1 == BufferWrite(p.stream, frame)
             x2 == RecvStopSyncs(x1, frame)
             x3 == RecvAfterFin(x2, frame)
             x4 == RecvWakeReader(x3)
  <2>1. p.stream \in RecvRecord /\ p.conn \in ConnRecord /\ CreditInv(p.stream, p.conn)
    BY DEF Good, Triples
  <2>2. frame.end <= p.stream.acquired
    <3>1. CASE p.stream.final = Unknown
      BY <1>3, <3>1
    <3>2. CASE p.stream.final # Unknown
      <4>1. /\ p.stream.final \in Nat /\ p.stream.acquired \in Nat
            /\ p.stream.final <= p.stream.acquired
        BY <2>1, <3>2 DEF RecvRecord, CreditInv
      <4>2. frame.end <= p.stream.final
        BY <1>3, <3>2, <4>1, FrameFields DEF FinIsValid
      <4>3. QED
        BY SMTT(60), <4>1, <4>2, FrameFields
    <3>3. QED
      BY <3>1, <3>2
  <2>3. x1 \in RecvRecord /\ CreditInv(x1, p.conn)
    BY <2>1, <2>2, BufferWriteGood
  <2> HIDE DEF x1
  <2>4. x2 \in RecvRecord /\ CreditInv(x2, p.conn)
    BY <2>3, StopSyncsGood, SameCreditInv
  <2> HIDE DEF x2
  <2>5. x3 \in RecvRecord /\ CreditInv(x3, p.conn)
    BY <2>4, AfterFinGood
  <2> HIDE DEF x3
  <2>6. x4 \in RecvRecord /\ CreditInv(x4, p.conn)
    BY <2>5, WakeReaderGood, SameCreditInv
  <2> HIDE DEF x4
  <2>7. RecvWrite(p, frame) = [p EXCEPT !.stream = x4]
    BY <1>3 DEF RecvWrite, x1, x2, x3, x4
  <2>8. QED
    BY <2>6, <2>7 DEF Good, Triples
<1>4. QED
  BY <1>1, <1>2, <1>3

(* on_data while Stopping only tracks what is missing.                     *)
LEMMA MissingDataGood ==
    ASSUME NEW x \in RecvRecord, NEW missing \in [start : Nat, end : Nat \cup {Unknown}]
    PROVE  /\ RecvOnMissingData(x, missing) \in RecvRecord
           /\ SameCredit(x, RecvOnMissingData(x, missing))
<1>1. Cancelled \in DeliveryState(Nat, Packets)
  BY DEF DeliveryState, DeliveryStateNames, Cancelled
<1>2. QED
  BY ZenonT(60), <1>1 DEF RecvOnMissingData, Cancel, RecvRecord, SameCredit

(* on_data in every state.                                                 *)
LEMMA OnDataGood ==
    ASSUME NEW p, Good(p), p.err = "None", NEW frame \in Frames
    PROVE  Good(RecvOnData(p, frame))
<1>1. CASE p.stream.state = "Receiving"
  <2> DEFINE q == IF p.stream.final = Unknown THEN AcquireWindowUpTo(p, frame.end) ELSE p
  <2>1. /\ Good(q) /\ q.stream.state = "Receiving"
        /\ q.err = "None" /\ q.stream.final = Unknown => frame.end <= q.stream.acquired
    BY <1>1, AcquireGood, FrameFields
  <2>2. RecvOnData(p, frame) = RecvWrite(q, frame)
    BY <1>1 DEF RecvOnData
  <2> HIDE DEF q
  <2>3. QED
    BY <2>1, <2>2, WriteGood
<1>2. CASE p.stream.state = "Stopping"
  <2> DEFINE missing == [start |-> MissingStart(p.stream.missing, frame),
                         end |-> MissingEnd(p.stream.missing, frame)]
  <2>1. p.stream.missing \in [start : Nat, end : Nat \cup {Unknown}] /\ p.stream \in RecvRecord
    BY DEF Good, Triples, RecvRecord
  <2>2. missing \in [start : Nat, end : Nat \cup {Unknown}]
    BY <2>1, FrameFields DEF MissingStart, MissingEnd
  <2>3. RecvOnData(p, frame) = [p EXCEPT !.stream = RecvOnMissingData(p.stream, missing)]
    BY <1>2 DEF RecvOnData
  <2> HIDE DEF missing
  <2>4. QED
    BY <2>1, <2>2, <2>3, MissingDataGood, SameCreditGood
<1>3. CASE p.stream.state \notin {"Receiving", "Stopping"}
  BY <1>3 DEF RecvOnData
<1>4. QED
  BY <1>1, <1>2, <1>3

(***************************************************************************)
(* The application.                                                        *)
(***************************************************************************)

(* What a request may read is covered by credit that is outstanding.       *)
LEMMA ReadIsCovered ==
    ASSUME NEW x \in RecvRecord, NEW c, CreditInv(x, c), x.state = "Receiving",
           NEW request, NEW amount \in ReadAmounts(x, request)
    PROVE  amount \in Nat /\ x.released + amount <= x.acquired
<1>1. /\ x.received \in SUBSET Offsets /\ x.acquired \in Nat /\ x.consumed \in Nat
      /\ x.released = x.consumed /\ x.released <= x.acquired
      /\ \A o \in x.received : o < x.acquired
  BY DEF RecvRecord, CreditInv
<1>2. TotalReceivedLen(x) \in Nat /\ TotalReceivedLen(x) <= x.acquired
  BY <1>1, PrefixWithinBound
<1>3. amount = 0 \/ amount \in 1..(TotalReceivedLen(x) - x.consumed)
  BY DEF ReadAmounts, BufferLen
<1>4. QED
  BY SMTT(60), <1>1, <1>2, <1>3

(* Reading bytes releases exactly their credit at both levels.             *)
LEMMA ConsumeGood ==
    ASSUME NEW p, Good(p), p.stream.state = "Receiving",
           NEW amount \in Nat, p.stream.released + amount <= p.stream.acquired
    PROVE  Good(RecvConsume(p, amount))
<1>1. CASE amount = 0
  BY <1>1 DEF RecvConsume
<1>2. CASE amount # 0
  <2> DEFINE y == StreamReleaseWindow(p.stream, amount)
             d == ConnReleaseWindow(p.conn, amount)
             z == [y EXCEPT !.consumed = y.consumed + amount]
  <2>1. p \in Triples /\ p.stream \in RecvRecord /\ p.conn \in ConnRecord
    BY SMTT(60) DEF Good, Triples
  <2>2. /\ y \in RecvRecord
        /\ y.released = p.stream.released + amount
        /\ y.window.latest = p.stream.released + amount + p.stream.desired
        /\ y.state = p.stream.state /\ y.desired = p.stream.desired
        /\ y.acquired = p.stream.acquired /\ y.received = p.stream.received
        /\ y.consumed = p.stream.consumed /\ y.final = p.stream.final
    BY SMTT(60), <2>1, StreamReleaseFields
  <2>3. /\ d \in ConnRecord /\ d.consumed = p.conn.consumed + amount
        /\ d.window.latest = p.conn.consumed + amount + p.conn.desired
        /\ d.acquired = p.conn.acquired /\ d.desired = p.conn.desired
    BY <2>1, ConnReleaseFields
  <2>4. /\ ReleaseWindow(p, amount) \in Triples
        /\ ReleaseWindow(p, amount).err = p.err
        /\ ReleaseWindow(p, amount).stream = y
        /\ ReleaseWindow(p, amount).conn = d
    BY <2>1, ReleaseFields
  <2> HIDE DEF y, d
  <2>5. /\ z \in RecvRecord /\ z.consumed = y.consumed + amount
        /\ z.released = y.released /\ z.window = y.window /\ z.state = y.state
        /\ z.desired = y.desired /\ z.acquired = y.acquired /\ z.received = y.received
        /\ z.final = y.final
    BY <2>2 DEF RecvRecord
  <2>6. /\ RecvConsume(p, amount).stream = z /\ RecvConsume(p, amount).conn = d
        /\ RecvConsume(p, amount) \in Triples
    BY SMTT(60), <1>2, <2>4, <2>5 DEF RecvConsume, Triples
  <2> HIDE DEF z
  <2>7. CreditInv(z, d)
    <3>1. /\ p.stream.acquired \in Nat /\ p.stream.released \in Nat
          /\ p.stream.desired \in Nat /\ p.stream.consumed \in Nat
          /\ p.conn.consumed \in Nat /\ p.conn.acquired \in Nat /\ p.conn.desired \in Nat
          /\ p.stream.received \subseteq Nat
      BY SMTT(60), <2>1, SizesAssumption DEF RecvRecord, ConnRecord, Offsets
    <3>2. CreditInv(p.stream, p.conn)
      BY DEF Good
    <3>3. QED
      BY SMTT(60), <2>2, <2>3, <2>5, <3>1, <3>2, SizesAssumption DEF CreditInv
  <2>8. QED
    BY <2>6, <2>7 DEF Good
<1>3. QED
  BY <1>1, <1>2

(* Reading the end of the stream.                                          *)
LEMMA EndOfStreamGood ==
    ASSUME NEW x \in RecvRecord, NEW c, CreditInv(x, c)
    PROVE  RecvEndOfStream(x) \in RecvRecord /\ CreditInv(RecvEndOfStream(x), c)
<1> DEFINE y == [BufferReset(x) EXCEPT !.state = "DataRead", !.waiter = NoWaiter, !.observed = TRUE]
<1>1. /\ y \in RecvRecord /\ y.state = "DataRead" /\ y.received = {}
      /\ y.desired = x.desired /\ y.acquired = x.acquired /\ y.released = x.released
      /\ y.window = x.window
  BY ZenonT(60) DEF BufferReset, RecvRecord, Unknown, NoWaiter
<1> HIDE DEF y
<1>2. CreditInv(y, c)
  BY <1>1, ClearedCreditInv
<1>3. QED
  BY <1>1, <1>2 DEF RecvEndOfStream, y

(* Registering a reader does not touch the credit.                         *)
LEMMA StoreWakerGood ==
    ASSUME NEW x \in RecvRecord, NEW request \in ReadRequests, NEW wait
    PROVE  /\ RecvStoreWaker(x, request, wait) \in RecvRecord
           /\ SameCredit(x, RecvStoreWaker(x, request, wait))
<1>1. request.low \in Nat
  BY SizesAssumption DEF ReadRequests
<1>2. QED
  BY <1>1 DEF RecvStoreWaker, RecvRecord, SameCredit

(* poll_request without stop_sending.                                      *)
LEMMA PollReadGood ==
    ASSUME NEW p, Good(p), NEW request \in ReadRequests,
           NEW amount \in ReadAmounts(p.stream, request)
    PROVE  Good(RecvPollRead(p, request, amount))
<1>1. p \in Triples /\ p.stream \in RecvRecord
  BY DEF Good, Triples
<1>2. CASE p.stream.state \in {"Reset", "DataRead"}
  <2> DEFINE x == [p.stream EXCEPT !.observed = TRUE, !.waiter = NoWaiter]
  <2>1. x \in RecvRecord /\ SameCredit(p.stream, x)
    BY Zenon, <1>1 DEF RecvRecord, SameCredit, NoWaiter
  <2>2. RecvPollRead(p, request, amount) = [p EXCEPT !.stream = x]
    BY ZenonT(60), <1>1, <1>2 DEF RecvPollRead, Triples
  <2>3. QED
    BY <2>1, <2>2, SameCreditGood
<1>3. CASE p.stream.state = "Stopping"
  <2> DEFINE x == [p.stream EXCEPT !.waiter = NoWaiter]
  <2>1. x \in RecvRecord /\ SameCredit(p.stream, x)
    BY <1>1 DEF RecvRecord, SameCredit, NoWaiter
  <2>2. RecvPollRead(p, request, amount) = [p EXCEPT !.stream = x]
    BY <1>1, <1>3 DEF RecvPollRead, Triples
  <2>3. QED
    BY <2>1, <2>2, SameCreditGood
<1>4. CASE p.stream.state = "Receiving"
  <2> DEFINE q == RecvConsume(p, amount)
             x == RecvEndOfStream(q.stream)
             y == RecvStoreWaker(x, request, MustWait(p.stream, request))
  <2>1. amount \in Nat /\ p.stream.released + amount <= p.stream.acquired
    BY SMTT(60), <1>1, <1>4, ReadIsCovered DEF Good
  <2>2. Good(q) /\ q.stream \in RecvRecord
    BY SMTT(60), <1>4, <2>1, ConsumeGood DEF Good, Triples
  <2> HIDE DEF q
  <2>3. x \in RecvRecord /\ CreditInv(x, q.conn)
    BY SMTT(60), <2>2, EndOfStreamGood DEF Good
  <2> HIDE DEF x
  <2>4. y \in RecvRecord /\ CreditInv(y, q.conn)
    BY <2>3, StoreWakerGood, SameCreditInv
  <2> HIDE DEF y
  <2>5. RecvPollRead(p, request, amount) = [q EXCEPT !.stream = y]
    BY SMTT(60), <1>4 DEF RecvPollRead, q, x, y
  <2>6. QED
    BY <2>2, <2>4, <2>5 DEF Good, Triples
<1>5. QED
  BY <1>1, <1>2, <1>3, <1>4 DEF RecvRecord

(* poll_request with stop_sending, in every state of the stream.           *)
LEMMA PollStopGood ==
    ASSUME NEW x \in RecvRecord, NEW c, CreditInv(x, c)
    PROVE  RecvPollStop(x) \in RecvRecord /\ CreditInv(RecvPollStop(x), c)
<1>1. CASE x.state \in {"Reset", "Stopping"}
  BY <1>1 DEF RecvPollStop
<1>2. CASE x.state = "DataRead"
  <2>1. /\ [x EXCEPT !.observed = TRUE] \in RecvRecord
        /\ SameCredit(x, [x EXCEPT !.observed = TRUE])
    BY Zenon DEF RecvRecord, SameCredit
  <2>2. QED
    BY <1>2, <2>1, SameCreditInv DEF RecvPollStop
<1>3. CASE x.state = "Receiving" /\ IsWritingComplete(x)
  <2> DEFINE y == [x EXCEPT !.state = "DataRead", !.observed = TRUE]
  <2>1. /\ y \in RecvRecord /\ y.state = "DataRead"
        /\ y.desired = x.desired /\ y.acquired = x.acquired /\ y.released = x.released
        /\ y.window = x.window /\ y.received = x.received /\ y.consumed = x.consumed
    BY ZenonT(60) DEF RecvRecord
  <2> HIDE DEF y
  <2>2. CreditInv(y, c)
    BY <2>1 DEF CreditInv
  <2>3. QED
    BY <1>3, <2>1, <2>2 DEF RecvPollStop, y
<1>4. CASE x.state = "Receiving" /\ ~IsWritingComplete(x)
  <2> DEFINE n == TotalReceivedLen(x)
             s == OnceRequestDelivery(x.stop, 1)
             y == [x EXCEPT !.state = "Stopping", !.stop = s,
                            !.missing = [start |-> n, end |-> Unknown]]
  <2>1. n \in Nat
    BY SMTT(60), <1>4, PrefixWithinBound DEF RecvRecord, CreditInv
  <2>2. s \in DeliveryState(Nat, Packets)
    <3>1. x.stop \in DeliveryState(Nat, Packets)
      BY DEF RecvRecord
    <3>2. Requested(1) \in DeliveryState(Nat, Packets)
      BY DEF DeliveryState, DeliveryStateNames, Requested
    <3>3. QED
      BY <3>1, <3>2 DEF OnceRequestDelivery
  <2> HIDE DEF n, s
  <2>3. /\ y \in RecvRecord /\ y.state = "Stopping"
        /\ y.desired = x.desired /\ y.acquired = x.acquired /\ y.released = x.released
        /\ y.window = x.window
    BY ZenonT(60), <2>1, <2>2 DEF RecvRecord
  <2>4. RecvPollStop(x) = BufferReset(RecvDetach(y))
    BY <1>4 DEF RecvPollStop, RecvStop, n, s
  <2> HIDE DEF y
  <2> DEFINE z == RecvDetach(y)
  <2>5. z \in RecvRecord /\ SameCredit(y, z)
    BY <2>3, DetachGood
  <2> HIDE DEF z
  <2>6. /\ BufferReset(z) \in RecvRecord /\ BufferReset(z).state = z.state
        /\ BufferReset(z).received = {}
        /\ BufferReset(z).desired = z.desired /\ BufferReset(z).acquired = z.acquired
        /\ BufferReset(z).released = z.released /\ BufferReset(z).window = z.window
    BY ZenonT(60), <2>5 DEF BufferReset, RecvRecord, Unknown
  <2>7. CreditInv(BufferReset(z), c)
    BY <2>3, <2>5, <2>6, ClearedCreditInv DEF SameCredit
  <2>8. QED
    BY SMTT(60), <2>4, <2>6, <2>7 DEF z
<1>5. QED
  BY <1>1, <1>2, <1>3, <1>4 DEF RecvRecord

(***************************************************************************)
(* The inductive invariant.                                                *)
(***************************************************************************)

(* A new window synchronizer starts at its initial value.                  *)
LEMMA NewWindow ==
    ASSUME NEW v \in Nat
    PROVE  /\ IncrementalNew(v, v, v \div 10) \in WindowSync
           /\ IncrementalNew(v, v, v \div 10).latest = v
<1>1. NotRequested \in DeliveryState(Nat, Packets) /\ v \div 10 \in Nat
  BY SMTT(60) DEF DeliveryState, DeliveryStateNames, NotRequested
<1>2. IncrementalNew(v, v, v \div 10) =
          [latest |-> v, acked |-> v, threshold |-> v \div 10, delivery |-> NotRequested]
  BY DEF IncrementalNew, IncrementalRequestIfNecessary, IncrementalShouldSendUpdate
<1>3. QED
  BY SMTT(60), <1>1, <1>2 DEF WindowSync

(* A new stream on a new connection satisfies the inductive invariant.     *)
LEMMA InitIInv == Init => IInv
<1> SUFFICES ASSUME Init PROVE IInv
  OBVIOUS
<1>1. /\ IncrementalNew(Window, Window, Window \div 10) \in WindowSync
      /\ IncrementalNew(Window, Window, Window \div 10).latest = Window
      /\ IncrementalNew(ConnWindow, ConnWindow, ConnWindow \div 10) \in WindowSync
      /\ IncrementalNew(ConnWindow, ConnWindow, ConnWindow \div 10).latest = ConnWindow
  BY NewWindow, SizesAssumption
<1>2. NotRequested \in DeliveryState(Nat, Packets)
  BY SMTT(60) DEF DeliveryState, DeliveryStateNames, NotRequested
<1>3. rs \in RecvRecord
  BY SMTT(60), <1>1, <1>2, SizesAssumption DEF Init, RecvNew, RecvRecord, Unknown, NoWaiter
<1>4. conn \in ConnRecord
  BY SMTT(60), <1>1, SizesAssumption DEF Init, IncomingConnNew, ConnRecord
<1>5. CreditInv(rs, conn)
  BY SMTT(60), <1>1, SizesAssumption DEF Init, RecvNew, IncomingConnNew, CreditInv
<1>6. QED
  BY <1>3, <1>4, <1>5 DEF Init, IInv, TypeOK, Errors

(* The history fields do not touch the credit.                             *)
LEMMA RememberGood ==
    ASSUME NEW p, Good(p), NEW frame \in Frames
    PROVE  Good(Remember(p, frame))
<1>1. p \in Triples /\ p.stream \in RecvRecord
  BY DEF Good, Triples
<1> DEFINE x == [p.stream EXCEPT !.arrived = p.stream.arrived \cup frame.start..(frame.end - 1),
                                 !.end = IF frame.fin THEN frame.end ELSE p.stream.end]
           y == [p.stream EXCEPT !.arrived = {}, !.end = Unknown]
<1>2. x \in RecvRecord /\ SameCredit(p.stream, x)
  BY ZenonT(60), <1>1, FrameFields DEF RecvRecord, SameCredit
<1>3. y \in RecvRecord /\ SameCredit(p.stream, y)
  BY Zenon, <1>1 DEF RecvRecord, SameCredit, Unknown
<1>4. \/ Remember(p, frame) = [p EXCEPT !.stream = x]
      \/ Remember(p, frame) = [p EXCEPT !.stream = y]
  BY ZenonT(60), <1>1 DEF Remember, Triples
<1> HIDE DEF x, y
<1>5. QED
  BY <1>2, <1>3, <1>4, SameCreditGood

(* The state as the triple that the methods work on.                       *)
LEMMA GoodTriple == IInv => Good(Triple) /\ Triple.err = "None"
  BY DEF IInv, TypeOK, Good, Triples, Triple, Errors

(* Storing a good triple reestablishes the inductive invariant.            *)
LEMMA ApplyGood ==
    ASSUME IInv, NEW p, Good(p), Apply(p)
    PROVE  IInv'
  BY DEF Good, Triples, Apply, IInv, TypeOK

(* A step that leaves the connection's limits alone but for its            *)
(* synchronizer, and the stream's credit.                                  *)
LEMMA SyncStepIInv ==
    ASSUME IInv, rs' \in RecvRecord, SameCredit(rs, rs'), UNCHANGED <<closed, handle>>,
           NEW w \in WindowSync, w.latest = conn.window.latest, conn' = [conn EXCEPT !.window = w]
    PROVE  IInv'
<1>1. /\ conn' \in ConnRecord /\ conn'.window.latest = conn.window.latest
      /\ conn'.desired = conn.desired /\ conn'.acquired = conn.acquired
      /\ conn'.consumed = conn.consumed
  BY DEF IInv, TypeOK, ConnRecord
<1>2. CreditInv(rs', conn')
  BY <1>1 DEF IInv, CreditInv, SameCredit
<1>3. QED
  BY <1>1, <1>2 DEF IInv, TypeOK

(* Every action preserves the inductive invariant.                         *)
LEMMA NextIInv == IInv /\ [Next]_vars => IInv'
<1> SUFFICES ASSUME IInv, [Next]_vars PROVE IInv'
  OBVIOUS
<1>0. /\ rs \in RecvRecord /\ conn \in ConnRecord /\ CreditInv(rs, conn)
      /\ Good(Triple) /\ Triple.err = "None" /\ Triple.stream = rs
  BY GoodTriple DEF IInv, TypeOK, Triple
<1>1. CASE OnData
  <2>1. PICK frame \in Frames : Apply(Remember(CloseOnError(RecvOnData(Triple, frame)), frame))
    BY <1>1 DEF OnData
  <2>2. QED
    BY <1>0, <2>1, OnDataGood, CloseGood, RememberGood, ApplyGood
<1>2. CASE OnReset
  <2>1. PICK size \in 0..MaxBytes : Apply(CloseOnError(RecvOnReset(Triple, size)))
    BY <1>2 DEF OnReset
  <2>2. size \in Nat
    BY SizesAssumption
  <2>3. QED
    BY <1>0, <2>1, <2>2, OnResetGood, CloseGood, ApplyGood
<1>3. CASE OnInternalReset
  <2>1. Good([RecvOnInternalReset(Triple) EXCEPT !.err = "Closed"])
    BY ZenonT(60), <1>0, InternalResetGood, ErrorGood DEF Errors
  <2>2. QED
    BY <1>3, <2>1, ApplyGood DEF OnInternalReset
<1>4. CASE PollStop
  <2>1. rs' \in RecvRecord /\ CreditInv(rs', conn)
    BY <1>0, <1>4, PollStopGood DEF PollStop
  <2>2. QED
    BY <1>4, <2>1 DEF PollStop, IInv, TypeOK
<1>5. CASE DropHandle
  <2>1. rs' \in RecvRecord /\ CreditInv(rs', conn)
    BY <1>0, <1>5, PollStopGood DEF DropHandle
  <2>2. QED
    BY <1>5, <2>1 DEF DropHandle, IInv, TypeOK
<1>6. CASE PollRead
  <2>1. PICK request \in ReadRequests : \E amount \in ReadAmounts(rs, request) :
            \E p \in {RecvPollRead(Triple, request, amount)} :
                /\ rs' = p.stream /\ conn' = p.conn /\ UNCHANGED closed
                /\ handle' = CASE p.stream.state = "DataRead" -> "Finished"
                               [] p.stream.state = "Receiving" -> "Open"
                               [] OTHER -> handle
    BY <1>6 DEF PollRead
  <2>2. PICK amount \in ReadAmounts(rs, request) :
            \E p \in {RecvPollRead(Triple, request, amount)} :
                /\ rs' = p.stream /\ conn' = p.conn /\ UNCHANGED closed
                /\ handle' = CASE p.stream.state = "DataRead" -> "Finished"
                               [] p.stream.state = "Receiving" -> "Open"
                               [] OTHER -> handle
    BY <2>1
  <2> DEFINE p == RecvPollRead(Triple, request, amount)
  <2>3. Good(p)
    BY <1>0, PollReadGood
  <2> HIDE DEF p
  <2>4. /\ rs' = p.stream /\ conn' = p.conn /\ UNCHANGED closed
        /\ handle' = CASE p.stream.state = "DataRead" -> "Finished"
                       [] p.stream.state = "Receiving" -> "Open"
                       [] OTHER -> handle
    BY <2>2 DEF p
  <2>5. handle' \in {"Open", "Reset", "Finished", "Dropped"}
    BY <2>4 DEF IInv, TypeOK
  <2>6. QED
    BY <2>3, <2>4, <2>5 DEF Good, Triples, IInv, TypeOK
<1>7. CASE OnTransmit
  <2>1. PICK pn \in NextPacket, constraint \in Constraints, fits \in BOOLEAN :
            /\ conn' = [conn EXCEPT !.window = IncrementalOnTransmit(conn.window, pn, constraint)]
            /\ rs' = IF fits THEN RecvOnTransmit(rs, pn, constraint) ELSE rs
            /\ UNCHANGED <<closed, handle>>
    BY <1>7 DEF OnTransmit
  <2>2. pn \in Packets
    <3>1. FreePackets # {} /\ pn = Min(FreePackets) /\ FreePackets \subseteq Packets
      BY DEF NextPacket, FreePackets
    <3>2. QED
      BY ZenonT(60), <3>1, MinOfNaturals, PacketsAssumption
  <2> DEFINE w == IncrementalOnTransmit(conn.window, pn, constraint)
  <2>3. w \in WindowSync /\ w.latest = conn.window.latest
    BY <1>0, <2>2, WindowTransmitType DEF ConnRecord
  <2>4. /\ RecvOnTransmit(rs, pn, constraint) \in RecvRecord
        /\ SameCredit(rs, RecvOnTransmit(rs, pn, constraint))
    <3>1. /\ IncrementalOnTransmit(rs.window, pn, constraint) \in WindowSync
          /\ IncrementalOnTransmit(rs.window, pn, constraint).latest = rs.window.latest
      BY SMTT(60), <1>0, <2>2, WindowTransmitType DEF RecvRecord
    <3>2. OnceOnTransmit(rs.stop, pn, constraint) \in DeliveryState(Nat, Packets)
      BY <1>0, <2>2, OnceTypes DEF RecvRecord
    <3>3. QED
      BY ZenonT(60), <1>0, <3>1, <3>2 DEF RecvOnTransmit, RecvRecord, SameCredit
  <2> HIDE DEF w
  <2>5. rs' \in RecvRecord /\ SameCredit(rs, rs')
    BY <1>0, <2>1, <2>4 DEF SameCredit
  <2>6. conn' = [conn EXCEPT !.window = w]
    BY <2>1 DEF w
  <2>7. QED
    BY <2>1, <2>3, <2>5, <2>6, SyncStepIInv
<1>8. CASE OnPacketAck
  <2>1. PICK pns \in SUBSET Packets, sending \in BOOLEAN :
            /\ conn' = [conn EXCEPT !.window = IncrementalOnPacketAck(conn.window, pns)]
            /\ rs' = IF RecvWantsAcks(rs) \/ sending THEN RecvOnPacketAck(rs, pns) ELSE rs
            /\ UNCHANGED <<closed, handle>>
    BY <1>8 DEF OnPacketAck
  <2> DEFINE w == IncrementalOnPacketAck(conn.window, pns)
  <2>2. w \in WindowSync /\ w.latest = conn.window.latest
    BY <1>0, WindowAckType DEF ConnRecord
  <2>3. /\ RecvOnPacketAck(rs, pns) \in RecvRecord
        /\ SameCredit(rs, RecvOnPacketAck(rs, pns))
    <3>1. /\ IncrementalOnPacketAck(rs.window, pns) \in WindowSync
          /\ IncrementalOnPacketAck(rs.window, pns).latest = rs.window.latest
      BY <1>0, WindowAckType DEF RecvRecord
    <3>2. OnceOnPacketAck(rs.stop, pns) \in DeliveryState(Nat, Packets)
      BY <1>0, OnceAckTypes DEF RecvRecord
    <3>3. QED
      BY ZenonT(60), <1>0, <3>1, <3>2 DEF RecvOnPacketAck, RecvRecord, SameCredit
  <2> HIDE DEF w
  <2>4. rs' \in RecvRecord /\ SameCredit(rs, rs')
    BY <1>0, <2>1, <2>3 DEF SameCredit
  <2>5. conn' = [conn EXCEPT !.window = w]
    BY SMTT(60), <2>1 DEF w
  <2>6. QED
    BY <2>1, <2>2, <2>4, <2>5, SyncStepIInv
<1>9. CASE OnPacketLoss
  <2>1. PICK pns \in SUBSET Packets, sending \in BOOLEAN :
            /\ conn' = [conn EXCEPT !.window = IncrementalOnPacketLoss(conn.window, pns)]
            /\ rs' = IF RecvWantsAcks(rs) \/ sending THEN RecvOnPacketLoss(rs, pns) ELSE rs
            /\ UNCHANGED <<closed, handle>>
    BY <1>9 DEF OnPacketLoss
  <2> DEFINE w == IncrementalOnPacketLoss(conn.window, pns)
  <2>2. w \in WindowSync /\ w.latest = conn.window.latest
    BY <1>0, WindowLossType DEF ConnRecord
  <2>3. /\ RecvOnPacketLoss(rs, pns) \in RecvRecord
        /\ SameCredit(rs, RecvOnPacketLoss(rs, pns))
    <3>1. /\ IncrementalOnPacketLoss(rs.window, pns) \in WindowSync
          /\ IncrementalOnPacketLoss(rs.window, pns).latest = rs.window.latest
      BY <1>0, WindowLossType DEF RecvRecord
    <3>2. OnceOnPacketLoss(rs.stop, pns) \in DeliveryState(Nat, Packets)
      BY <1>0, OnceAckTypes DEF RecvRecord
    <3>3. QED
      BY ZenonT(60), <1>0, <3>1, <3>2 DEF RecvOnPacketLoss, RecvRecord, SameCredit
  <2> HIDE DEF w
  <2>4. rs' \in RecvRecord /\ SameCredit(rs, rs')
    BY <1>0, <2>1, <2>3 DEF SameCredit
  <2>5. conn' = [conn EXCEPT !.window = w]
    BY <2>1 DEF w
  <2>6. QED
    BY <2>1, <2>2, <2>4, <2>5, SyncStepIInv
<1>10. CASE OtherStreamsAcquire
  <2>1. PICK amount \in 1..RemainingWindow(conn) :
            conn' = [conn EXCEPT !.acquired = conn.acquired + amount]
    BY <1>10 DEF OtherStreamsAcquire
  <2>2. UNCHANGED <<rs, closed, handle>>
    BY <1>10 DEF OtherStreamsAcquire
  <2>3. /\ conn.acquired \in Nat /\ conn.consumed \in Nat /\ conn.window.latest \in Nat
        /\ amount \in Nat /\ amount <= conn.window.latest - conn.acquired
        /\ rs.acquired \in Nat /\ rs.released \in Nat
    BY SMTT(60), <1>0 DEF ConnRecord, RecvRecord, WindowSync, RemainingWindow
  <2>4. /\ conn' \in ConnRecord /\ conn'.acquired = conn.acquired + amount
        /\ conn'.consumed = conn.consumed /\ conn'.window = conn.window
        /\ conn'.desired = conn.desired
    BY SMTT(60), <1>0, <2>1, <2>3 DEF ConnRecord
  <2>5. CreditInv(rs, conn')
    BY SMTT(60), <1>0, <2>3, <2>4 DEF CreditInv
  <2>6. QED
    BY <2>2, <2>4, <2>5 DEF IInv, TypeOK
<1>11. CASE OtherStreamsRelease
  <2>1. PICK amount \in 1..((conn.acquired - conn.consumed) - (rs.acquired - rs.released)) :
            conn' = ConnReleaseWindow(conn, amount)
    BY <1>11 DEF OtherStreamsRelease
  <2>2. UNCHANGED <<rs, closed, handle>>
    BY <1>11 DEF OtherStreamsRelease
  <2>3. /\ conn.acquired \in Nat /\ conn.consumed \in Nat /\ conn.desired \in Nat
        /\ rs.acquired \in Nat /\ rs.released \in Nat
    BY <1>0 DEF ConnRecord, RecvRecord
  <2>4. /\ amount \in Nat
        /\ amount <= (conn.acquired - conn.consumed) - (rs.acquired - rs.released)
    BY SMTT(60), <2>3
  <2>5. /\ conn' \in ConnRecord /\ conn'.acquired = conn.acquired
        /\ conn'.consumed = conn.consumed + amount /\ conn'.desired = conn.desired
        /\ conn'.window.latest = conn.consumed + amount + conn.desired
    BY SMTT(60), <1>0, <2>1, <2>4, ConnReleaseFields
  <2>6. CreditInv(rs, conn')
    BY SMTT(60), <1>0, <2>3, <2>4, <2>5 DEF CreditInv
  <2>7. QED
    BY <2>2, <2>5, <2>6 DEF IInv, TypeOK
<1>12. CASE UNCHANGED vars
  BY <1>12 DEF vars, IInv, TypeOK, CreditInv
<1>13. QED
  BY <1>1, <1>2, <1>3, <1>4, <1>5, <1>6, <1>7, <1>8, <1>9, <1>10, <1>11, <1>12 DEF Next

(* The inductive invariant holds in every reachable state.                 *)
THEOREM Invariance == Spec => []IInv
  BY InitIInv, NextIInv, PTL DEF Spec

(* The types of the state, for every size of the windows.                  *)
THEOREM TypeCorrect == Spec => []TypeOK
<1>1. IInv => TypeOK
  BY DEF IInv
<1>2. QED
  BY <1>1, Invariance, PTL

(* No subtraction of the two flow controllers underflows, and no stream    *)
(* gives back credit that it did not take from the connection.             *)
THEOREM CreditSoundness == Spec => []CreditIsSound
<1>1. IInv => CreditIsSound
  BY DEF IInv, CreditInv, CreditIsSound
<1>2. QED
  BY <1>1, Invariance, PTL

(* The credit taken from the connection covers the buffered data, and what *)
(* was released is what was read.                                          *)
THEOREM CreditCoverage == Spec => []CreditCoversData
<1>1. IInv => CreditCoversData
  BY DEF IInv, CreditInv, CreditCoversData
<1>2. QED
  BY <1>1, Invariance, PTL

(* Whatever the peer sends, the buffer holds at most a window of data.     *)
THEOREM BoundedBuffer == Spec => []BufferIsBounded
<1>1. IInv => BufferIsBounded
  BY DEF IInv, CreditInv, BufferIsBounded
<1>2. QED
  BY <1>1, Invariance, PTL

(* A reset returns all outstanding credit to the connection.               *)
THEOREM ResetCredit == Spec => []ResetReturnsCredit
<1>1. IInv => ResetReturnsCredit
  BY DEF IInv, CreditInv, ResetReturnsCredit
<1>2. QED
  BY <1>1, Invariance, PTL
=============================================================================
