---------------------------- MODULE StorageHost ----------------------------
(***************************************************************************)
(* The host that dcmanager manages: the dcstorage container, the dcupgrade *)
(* helper container and the docker volume in which dcstorage seals the     *)
(* node key.  Docker operations are the ones util/util.go performs; what   *)
(* the two containers do on their own is external to this repository and   *)
(* is modelled from the HTTP endpoints the manager polls.                  *)
(*                                                                         *)
(* A secret sealed by one enclave can be read by no other, so a new build  *)
(* of dcstorage obtains the node key from the helper, which collected it   *)
(* from the old build while that one was still serving.                    *)
(***************************************************************************)
EXTENDS Naturals, FiniteSets

CONSTANTS
  MaxVersion,   \* versions are 0..MaxVersion, ordered as goversion orders them
  Registries,   \* the registries an image can come from (Origin, Mirror)
  NoImage,      \* there is no dcstorage container / no upgrade under way
  Misbuilt,     \* images whose enclave is not the one the chain announces
  Sgx2,         \* util.IsSgx2Support()
  FaultKinds,   \* the kinds of failure a behaviour may contain
  MaxFaults     \* bound on the number of failures in a behaviour

Versions == 0 .. MaxVersion
Images == [version : Versions, registry : Registries]
Enclaves == [version : Versions, genuine : BOOLEAN]
AllFaultKinds ==
  {"call", "stop", "command", "node", "helper", "daemon", "host"}

ASSUME HostAssumption ==
  /\ MaxVersion \in Nat
  /\ Registries # {}
  /\ NoImage \notin Images
  /\ Misbuilt \subseteq Images
  /\ Sgx2 \in BOOLEAN
  /\ FaultKinds \subseteq AllFaultKinds
  /\ MaxFaults \in Nat

\* The enclave a container of image i runs, and the one the chain announces
\* for a version (ProgramInfo.EnclaveId).
EnclaveOf(i) == [version |-> i.version, genuine |-> i \notin Misbuilt]
Announced(v) == [version |-> v, genuine |-> TRUE]

VARIABLES
  image,    \* image of the container named dcstorage, or NoImage
  running,  \* docker's State.Running of that container
  serving,  \* it answers /version, which it does only once it has the key
  helper,   \* the dcupgrade container and its /secretflag and /upgradeflag
  sealed,   \* enclaves for which the data volume holds a sealed node key
  faults,   \* number of failures so far
  failed    \* the kinds of failure there have been

nodeVars == <<image, running, serving>>
hostVars == <<image, running, serving, helper, sealed, faults, failed>>

NoHelper    == [up |-> FALSE, secret |-> FALSE, delivered |-> FALSE]
FreshHelper == [up |-> TRUE,  secret |-> FALSE, delivered |-> FALSE]
Helpers == [up : BOOLEAN, secret : BOOLEAN, delivered : BOOLEAN]

NodeTypeOK ==
  /\ image \in Images \cup {NoImage}
  /\ running \in BOOLEAN
  /\ serving \in BOOLEAN

HostTypeOK ==
  /\ NodeTypeOK
  /\ helper \in Helpers
  /\ sealed \in SUBSET Enclaves
  /\ faults \in 0 .. MaxFaults
  /\ failed \subseteq FaultKinds

\* An installed node: one container, whose enclave has sealed the key.
HostInit ==
  /\ image \in Images
  /\ running = TRUE
  /\ serving = FALSE
  /\ helper = NoHelper
  /\ sealed = {EnclaveOf(image)}
  /\ faults = 0
  /\ failed = {}

Fault(kind) ==
  /\ kind \in FaultKinds
  /\ faults < MaxFaults
  /\ faults' = faults + 1
  /\ failed' = failed \cup {kind}

NoFault == UNCHANGED <<faults, failed>>

-----------------------------------------------------------------------------
(* Docker operations on the dcstorage container.                           *)

CanUnseal(i) == ~Sgx2 \/ EnclaveOf(i) \in sealed

\* ContainerCreate: the name is free.
CreateNode(i) ==
  /\ image = NoImage
  /\ image' = i
  /\ running' = FALSE
  /\ serving' = FALSE

\* ContainerInspect and, when it does not run, ContainerStart.
RunNode ==
  /\ image # NoImage
  /\ running' = TRUE
  /\ UNCHANGED <<image, serving>>

\* StopContainer: a container that does not run is left alone.
StopNode ==
  /\ running' = FALSE
  /\ serving' = FALSE
  /\ UNCHANGED image

\* ContainerRemove with Force, which also kills.
RemoveNode ==
  /\ image' = NoImage
  /\ running' = FALSE
  /\ serving' = FALSE

(* Docker operations on the helper container.                              *)

\* Mutant: the helper's container is recreated whenever it is wanted.
StartHelperAnew == helper' = FreshHelper

\* StartContainer finds a running dcupgrade and leaves it, flags and all.
StartHelper == helper' = IF helper.up THEN helper ELSE FreshHelper
StopHelper  == helper' = NoHelper

-----------------------------------------------------------------------------
(* What the containers do (external).                                      *)

\* dcstorage starts to serve once it can read the key.
NodeServes ==
  /\ running /\ ~serving
  /\ CanUnseal(image)
  /\ serving' = TRUE
  /\ UNCHANGED <<image, running, helper, sealed, faults, failed>>

\* The helper obtains the key from the serving node: /secretflag is "true".
HelperCollect ==
  /\ Sgx2
  /\ helper.up /\ ~helper.secret
  /\ serving
  /\ helper' = [helper EXCEPT !.secret = TRUE]
  /\ UNCHANGED <<image, running, serving, sealed, faults, failed>>

\* A node that cannot read the key obtains it from the helper and seals it:
\* /upgradeflag is "true" from now on, until the helper restarts.
HelperDeliver ==
  /\ Sgx2
  /\ helper.up /\ helper.secret
  /\ running /\ ~CanUnseal(image)
  /\ sealed' = sealed \cup {EnclaveOf(image)}
  /\ helper' = [helper EXCEPT !.delivered = TRUE]
  /\ UNCHANGED <<image, running, serving, faults, failed>>

\* dcstorage dies; the restart policy "always" starts it again.
NodeFault ==
  /\ Fault("node")
  /\ serving
  /\ serving' = FALSE
  /\ UNCHANGED <<image, running, helper, sealed>>

\* The helper dies, and docker restarts it or does not manage to.
HelperFault ==
  /\ Fault("helper")
  /\ helper.up
  /\ helper' \in {NoHelper, FreshHelper}
  /\ UNCHANGED <<image, running, serving, sealed>>

\* The host restarts: docker starts every container whose restart policy is
\* "always" again, also one that had been stopped by hand.
HostRestart ==
  /\ Fault("host")
  /\ running' = (image # NoImage)
  /\ serving' = FALSE
  /\ helper' \in IF helper.up THEN {FreshHelper} ELSE {NoHelper, FreshHelper}
  /\ UNCHANGED <<image, sealed>>

Containers ==
  NodeServes \/ HelperCollect \/ HelperDeliver \/ NodeFault \/ HelperFault
=============================================================================
