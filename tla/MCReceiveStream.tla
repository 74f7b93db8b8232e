----------------------------- MODULE MCReceiveStream -----------------------------
(* Bounds of ReceiveStream for model checking.                             *)
EXTENDS ReceiveStream

MCPackets == {1}
=============================================================================
