--------------------------- MODULE NodeUpgradeInv ---------------------------
(***************************************************************************)
(* The inductive invariants behind the safety properties of NodeUpgrade.   *)
(* TLC checks them as invariants of runs, NodeUpgradeProofs proves them.   *)
(***************************************************************************)
EXTENDS NodeUpgrade

\* From the decision to upgrade to the removal of the old container, and
\* from there to the new node's key.
Before  == {"fetch", "stop_helper", "start_helper", "await_secret", "stop_old",
            "remove_old"}
Placing == {"pccs", "list", "create", "run"}
After   == {"await_new", "release_helper", "save", "verify"}

\* Every process that is about to use an image has one in memory.
MemoryOK ==
  /\ dpc # "down" => nodeImage \in Images
  /\ dpc \in Before \cup After => tag \in Images
  /\ dpc \in {"down", "idle", "check", "version", "chain"} => ~Upgrading
  /\ \A c \in Cli : cpc[c] \notin {"none", "stop"} => cmem[c] \in Images

\* Only a container runs, and only a running one serves.
ContainerOK == (serving => running) /\ (running => image \in Images)

\* Until the daemon removes it, the container whose version it has read and
\* that it decided to replace stays.
StageOK ==
  /\ dpc = "chain" => image \in Images
  /\ dpc \in Before => image \in Images /\ image.version < tag.version

\* Holds whatever fails.
BaseInv == TypeOK /\ MemoryOK /\ ContainerOK /\ StageOK

HelperOK == (helper.secret \/ helper.delivered) => helper.up

\* Whoever may start or save an image from memory has one that can unseal.
CopiesSealed ==
  /\ Sealed(savedImage)
  /\ \A c \in Cli : cpc[c] \notin {"none", "stop"} => Sealed(cmem[c])
  /\ dpc \in {"release_helper", "save"} => Sealed(nodeImage)

\* The node that serves, and the one about to be replaced, can unseal.
OldSealed ==
  /\ serving => Sealed(image)
  /\ dpc \in Before \cup {"chain"} => Sealed(image)

\* The flag of the helper is reset before the old node goes away, and from
\* then on only the delivery to the new image raises it.
FlagFresh ==
  /\ dpc = "start_helper" => ~helper.up
  /\ dpc \in {"await_secret", "stop_old", "remove_old"} => ~helper.delivered
  /\ (dpc \in Placing /\ Upgrading) \/ dpc \in {"await_new", "release_helper"} =>
       /\ nodeImage = tag
       /\ image \notin {NoImage, nodeImage} => Sealed(image)
       /\ helper.delivered => Sealed(nodeImage)

\* Holds until docker fails to stop a container.
KeySealed == CopiesSealed /\ OldSealed /\ FlagFresh
SealedInv == BaseInv /\ HelperOK /\ (Sgx2 /\ StopWorks => KeySealed)

\* The key is with the helper whenever it is needed, or will be: the old
\* node is about to go, or the new one has not been created yet.
KeyInHand ==
  /\ (image # NoImage /\ ~Sealed(image)) => helper.up /\ helper.secret
  /\ (image = NoImage /\ dpc # "down" /\ ~Sealed(nodeImage)) => helper.up /\ helper.secret
  /\ dpc \in {"stop_old", "remove_old"} => helper.up /\ helper.secret

\* Holds until the helper or the host goes down, too.
KeyInv == SealedInv /\ (Sgx2 /\ KeyStays => KeyInHand)
=============================================================================
