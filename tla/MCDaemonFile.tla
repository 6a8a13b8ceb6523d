---------------------------- MODULE MCDaemonFile ----------------------------
(* Constants of DaemonFile for TLC.                                        *)
EXTENDS DaemonFile
CONSTANTS p1, p2, p3, p4
FourPids == {p1, p2, p3, p4}
=============================================================================
