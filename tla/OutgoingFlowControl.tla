-------------------------- MODULE OutgoingFlowControl --------------------------
(***************************************************************************)
(* Flow control of outgoing stream data: the credit of the connection,     *)
(* `OutgoingConnectionFlowController`, and the `StreamFlowController` of   *)
(* each stream that draws on it.                                           *)
(*                                                                         *)
(* The fields of a stream record used here are `maxStreamData`, `acquired` *)
(* and `highest` (the connection credit the stream holds and the offset it *)
(* asked credit for), `fc` (the state) and `blocked` (the                  *)
(* STREAM_DATA_BLOCKED synchronizer).                                      *)
(***************************************************************************)
EXTENDS DeliverySync

(***************************************************************************)
(* OutgoingConnectionFlowController                                        *)
(***************************************************************************)

ConnNew(window) == [total |-> window, available |-> window, blocked |-> PeriodicNew]

Smaller(a, b) == IF a <= b THEN a ELSE b

Larger(a, b) == IF a >= b THEN a ELSE b

(* Mutant: the desired window is taken even if less is left.               *)
MutantAcquireBeyondWindow(conn, desired) == [conn EXCEPT !.available = @ - desired]

ConnAcquireWindow(conn, desired) ==
    LET result == Smaller(conn.available, desired)
    IN  [conn EXCEPT
            !.available = @ - result,
            !.blocked = IF result < desired
                          THEN PeriodicRequestDelivery(@, conn.total) ELSE @]

ConnOnMaxData(conn, maximum) ==
    IF conn.total >= maximum
      THEN conn
      ELSE [total |-> maximum,
            available |-> conn.available + (maximum - conn.total),
            blocked |-> PeriodicStopSync(conn.blocked)]

(***************************************************************************)
(* StreamFlowController.  The operators that take connection credit work   *)
(* on the pair of the stream and the connection it takes the credit from.  *)
(***************************************************************************)

IsBlocked(st) == st.fc \in {"BlockedOnStreamWindow", "BlockedOnConnectionWindow"}

SetMaxStreamData(st, maximum) ==
    IF maximum <= st.maxStreamData
      THEN st
      ELSE LET raised == [st EXCEPT !.maxStreamData = maximum]
           IN  IF st.fc = "BlockedOnStreamWindow"
                 THEN [raised EXCEPT !.fc = "Ready", !.blocked = PeriodicStopSync(@)]
                 ELSE raised

(* Mutant: the stream credits itself with all it asked for.                *)
MutantCreditsMissing(p) ==
    LET missing == Larger(p.stream.highest - p.stream.acquired, 0)
    IN  IF p.stream.fc = "Finished" \/ missing = 0
          THEN p
          ELSE [stream |-> [p.stream EXCEPT !.acquired = @ + missing, !.fc = "Ready"],
                conn |-> ConnAcquireWindow(p.conn, missing)]

(* Mutant: new credit does not unblock the stream.                         *)
MutantStaysBlocked(p) ==
    LET missing == Larger(p.stream.highest - p.stream.acquired, 0)
    IN  IF p.stream.fc = "Finished" \/ missing = 0
          THEN p
          ELSE [stream |-> [p.stream EXCEPT !.acquired = @ + Smaller(p.conn.available, missing)],
                conn |-> ConnAcquireWindow(p.conn, missing)]

TryAcquireConnectionWindow(p) ==
    LET st == p.stream
        missing == Larger(st.highest - st.acquired, 0)
        granted == Smaller(p.conn.available, missing)
    IN  IF st.fc = "Finished" \/ missing = 0
          THEN p
          ELSE [stream |-> [st EXCEPT
                    !.acquired = @ + granted,
                    !.fc = IF granted > 0 /\ @ = "BlockedOnConnectionWindow"
                             THEN "Ready" ELSE @],
                conn |-> ConnAcquireWindow(p.conn, missing)]

(* Mutant: the limit of the stream is forgotten.                           *)
MutantConnectionWindowOnly(st) == st.acquired

AvailableWindow(st) == Smaller(st.maxStreamData, st.acquired)

(* The part of acquire_flow_control_window ahead of                        *)
(* try_acquire_connection_window, and the part behind it.                  *)
AskForWindow(st, end) ==
    LET limited == end > st.maxStreamData
    IN  [st EXCEPT
            !.fc = IF limited THEN "BlockedOnStreamWindow" ELSE "Ready",
            !.blocked = IF limited THEN PeriodicRequestDelivery(@, st.maxStreamData) ELSE @,
            !.highest = Larger(end, @)]

BlockIfShort(p, end) ==
    IF end > p.stream.acquired
      THEN [p EXCEPT !.stream.fc = "BlockedOnConnectionWindow"]
      ELSE p

AcquireFlowControlWindow(p, end) ==
    IF p.stream.fc = "Finished"
      THEN p
      ELSE BlockIfShort(TryAcquireConnectionWindow(
                [stream |-> AskForWindow(p.stream, end), conn |-> p.conn]), end)

ClearBlocked(st) ==
    [st EXCEPT !.fc = IF @ = "Finished" THEN @ ELSE "Ready",
               !.blocked = PeriodicStopSync(@)]

FinishFlowController(st) ==
    [st EXCEPT !.fc = "Finished", !.blocked = PeriodicStopSync(@)]

(* StreamFlowController::on_transmit and the same code of the connection:  *)
(* an announcement that was delivered once is put off while other packets  *)
(* elicit acknowledgements.                                                *)
BlockedOnTransmit(sync, pn, constraint, ackEliciting) ==
    IF ackEliciting /\ sync.delivered
      THEN PeriodicSkipDelivery(sync)
      ELSE PeriodicOnTransmit(sync, pn, constraint)
=============================================================================
