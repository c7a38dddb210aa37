----------------------------- MODULE MCVRSWriter -----------------------------
(* Instances of VRSWriter for TLC. *)
EXTENDS VRSWriter

CONSTANTS t1, s1, s2

MCOneThread == {t1}
MCTwoStreams == {s1, s2}
=============================================================================
