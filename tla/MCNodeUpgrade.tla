--------------------------- MODULE MCNodeUpgrade ---------------------------
(* Constants of NodeUpgrade for TLC.                                       *)
EXTENDS NodeUpgradeInv, TLC

CONSTANTS origin, mirror, c1, c2

Hub == {origin}
HubAndMirror == {origin, mirror}
OneCli == {c1}
TwoClis == {c1, c2}

AllVersions == Versions
NoneMisbuilt == {}
MirrorMisbuilt == {i \in Images : i.registry = mirror /\ i.version = MaxVersion}

NodeAndCallFaults == {"node", "call"}
DaemonFaults == {"daemon"}
HelperFaults == {"helper"}
ProcessFaults == {"daemon", "host"}

CliSymmetry == Permutations(Cli)
=============================================================================
