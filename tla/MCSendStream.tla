------------------------------ MODULE MCSendStream ------------------------------
EXTENDS SendStream
=============================================================================
