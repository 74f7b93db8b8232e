----------------------------- MODULE MCStreamTransfer -----------------------------
(* Bounds of StreamTransfer for model checking.                            *)
EXTENDS StreamTransfer
=============================================================================
