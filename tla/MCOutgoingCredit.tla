---------------------------- MODULE MCOutgoingCredit ----------------------------
EXTENDS OutgoingCredit

CONSTANTS s1, s2

StreamSymmetry == Permutations({s1, s2})
=============================================================================
