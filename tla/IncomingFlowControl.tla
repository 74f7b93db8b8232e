-------------------------- MODULE IncomingFlowControl --------------------------
(***************************************************************************)
(* Flow control of incoming stream data: the window of the connection,     *)
(* `IncomingConnectionFlowController`, and the                             *)
(* `ReceiveStreamFlowController` of each stream.                           *)
(*                                                                         *)
(* The fields of a stream record used here are `window` (the               *)
(* MAX_STREAM_DATA synchronizer), `desired`, `acquired` and `released`.    *)
(* Operators that touch both levels work on the triple of the stream, the  *)
(* connection and the transport error, "None" while there is none.         *)
(***************************************************************************)
EXTENDS DeliverySync

(***************************************************************************)
(* IncomingConnectionFlowController                                        *)
(***************************************************************************)

IncomingConnNew(initial, desired) ==
    [window |-> IncrementalNew(desired, initial, desired \div 10),
     desired |-> desired, acquired |-> 0, consumed |-> 0]

RemainingWindow(conn) == conn.window.latest - conn.acquired

(* release_window of the connection                                        *)
ConnReleaseWindow(conn, amount) ==
    [conn EXCEPT
        !.consumed = @ + amount,
        !.window = IncrementalUpdateLatestValue(@, conn.consumed + amount + conn.desired)]

(***************************************************************************)
(* ReceiveStreamFlowController                                             *)
(***************************************************************************)

(* Mutant: the limit of the stream is not enforced.                        *)
MutantNoStreamLimit(p, offset) ==
    IF offset <= p.stream.acquired THEN p
    ELSE IF RemainingWindow(p.conn) < offset - p.stream.acquired
           THEN [p EXCEPT !.err = "FlowControlError"]
           ELSE [p EXCEPT !.conn.acquired = @ + (offset - p.stream.acquired),
                          !.stream.acquired = offset]

(* Mutant: the limit of the connection is not enforced.                    *)
MutantNoConnectionLimit(p, offset) ==
    IF offset > p.stream.window.latest THEN [p EXCEPT !.err = "FlowControlError"]
    ELSE IF offset <= p.stream.acquired THEN p
    ELSE [p EXCEPT !.conn.acquired = @ + (offset - p.stream.acquired),
                   !.stream.acquired = offset]

(* Mutant: bytes that arrive again are accounted for again.                *)
MutantAcquireAgain(p, offset) ==
    IF offset > p.stream.window.latest \/ RemainingWindow(p.conn) < offset
      THEN [p EXCEPT !.err = "FlowControlError"]
      ELSE [p EXCEPT !.conn.acquired = @ + offset, !.stream.acquired = offset]

AcquireWindowUpTo(p, offset) ==
    CASE offset > p.stream.window.latest -> [p EXCEPT !.err = "FlowControlError"]
      [] offset <= p.stream.window.latest /\ offset <= p.stream.acquired -> p
      [] OTHER ->
            IF RemainingWindow(p.conn) < offset - p.stream.acquired
              THEN [p EXCEPT !.err = "FlowControlError"]
              ELSE [p EXCEPT !.conn.acquired = @ + (offset - p.stream.acquired),
                             !.stream.acquired = offset]

(* release_window of the stream                                            *)
StreamReleaseWindow(x, amount) ==
    [x EXCEPT
        !.released = @ + amount,
        !.window = IncrementalUpdateLatestValue(@, x.released + amount + x.desired)]

ReleaseWindow(p, amount) ==
    [p EXCEPT !.stream = StreamReleaseWindow(@, amount), !.conn = ConnReleaseWindow(@, amount)]

(* Mutant: unread data keeps its credit.                                   *)
MutantKeepOutstanding(p) == p

ReleaseOutstandingWindow(p) == ReleaseWindow(p, p.stream.acquired - p.stream.released)

(* watermark: a reader is woken when half the window is filled.            *)
Watermark(st) == st.desired \div 2
=============================================================================
