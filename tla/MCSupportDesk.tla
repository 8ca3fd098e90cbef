---------------------------- MODULE MCSupportDesk ----------------------------
EXTENDS SupportDesk, TLC

Symmetry == Permutations(Links) \cup Permutations(Requests)
=============================================================================
