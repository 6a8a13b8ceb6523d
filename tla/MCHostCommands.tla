-------------------------- MODULE MCHostCommands --------------------------
(* Constants of HostCommands for TLC.                                      *)
EXTENDS HostCommands, TLC

CONSTANTS enable, disable, p1, p2, i1, i2, k1, n1, n2, s1, s2

TwoModes == {enable, disable}
TwoProcs == {p1, p2}
TwoImages == {i1, i2}
TwoNames == {n1, n2}
NewNode == {s2}
OneKey == {k1}
OneName == {n1}
Fields == {"name", "validator", "pccs", "node"}
AllValues == TwoModes \cup OneKey \cup TwoNames \cup {s1, s2}
Defaults == [f \in Fields |-> IF f = "node" THEN s1 ELSE Blank]

\* The operator starts with a host on which dc config has been completed.
InstalledSpec == Init /\ exists = TRUE /\ [][Next]_vars

Symmetry ==
  Permutations(Proc) \cup Permutations(TwoModes)
=============================================================================
