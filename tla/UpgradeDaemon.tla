--------------------------- MODULE UpgradeDaemon ---------------------------
(***************************************************************************)
(* The background service `dc upgrade daemon`: daemonCommandDeal and       *)
(* upgradeDeal of command/command.go, one action per step at which the     *)
(* operator's commands, the containers or a failure can come in between.   *)
(*                                                                         *)
(* Two stretches are long: until the chain has synchronised and answered,  *)
(* for which there is no bound, and until the new image is on the host,    *)
(* which may take an hour for each mirror.  The daemon keeps up no node    *)
(* while it is in either.                                                  *)
(***************************************************************************)
EXTENDS StorageHost

CONSTANTS
  Approved,       \* versions whose enclave the chain's sudo account accepts
  ManualVersion,  \* config NewVersion.Version, or NoVersion
  NoVersion,
  PollLimit,      \* the bound of the three polling loops (60, 600, 60)
  ErrLimit        \* the bound on versionGetErrCount (150)

ASSUME DaemonAssumption ==
  /\ Approved \subseteq Versions
  /\ NoVersion \notin Versions
  /\ ManualVersion \in Versions \cup {NoVersion}
  /\ PollLimit \in Nat
  /\ ErrLimit \in Nat

VARIABLES
  dpc,         \* where the daemon is
  nodeImage,   \* config.RunningConfig.NodeImage in the daemon's memory, if it runs
  tag,         \* tagUrl of the upgrade under way, or NoImage
  polls,       \* count of the polling loop under way
  errCount,    \* versionGetErrCount
  cmdState,    \* the file .cmdstate
  savedImage,  \* NodeImage in the configuration file
  published    \* the version configured on the chain

daemonVars == <<dpc, nodeImage, tag, polls, errCount>>
fileVars   == <<cmdState, savedImage, published>>

DaemonPcs ==
  {"down", "idle", "check", "version", "chain", "fetch",
   "stop_helper", "start_helper", "await_secret", "stop_old", "remove_old",
   "pccs", "list", "create", "run",
   "await_new", "release_helper", "save", "verify"}

DaemonTypeOK ==
  /\ dpc \in DaemonPcs
  /\ nodeImage \in Images \cup {NoImage}
  /\ tag \in Images \cup {NoImage}
  /\ polls \in 0 .. PollLimit
  /\ errCount \in 0 .. ErrLimit + 1
  /\ cmdState \in {"none", "start", "stop"}
  /\ savedImage \in Images
  /\ published \in Versions

DaemonInit ==
  /\ dpc = "down"
  /\ nodeImage = NoImage
  /\ tag = NoImage
  /\ polls = 0
  /\ errCount = 0
  /\ cmdState = "none"
  /\ savedImage = image
  /\ published \in Versions

-----------------------------------------------------------------------------
Upgrading == tag # NoImage

Goto(from, to) == dpc = from /\ dpc' = to /\ UNCHANGED <<tag, polls>>

\* upgradeDeal returns: its locals are gone, RunningConfig is not.
Return(from) ==
  /\ dpc = from
  /\ dpc' = "idle"
  /\ tag' = NoImage
  /\ polls' = 0

\* Mutant: the bound is compared with <=.
PollAgainOnceMore ==
  /\ polls <= PollLimit
  /\ polls' = polls + 1
  /\ UNCHANGED <<dpc, tag>>

\* A turn of a polling loop without an answer: one more, or give up.
PollAgain ==
  /\ polls < PollLimit
  /\ polls' = polls + 1
  /\ UNCHANGED <<dpc, tag>>

PollsExhausted == polls = PollLimit

\* checkDcnodeCmdState and setDcnodeCmdState: the file .cmdstate.
CmdStart == cmdState = "start"
SetCmdState(state) == cmdState' = state

\* IfEnclaveIdValid: the chain has an enclave id signed for this version.
Accepted(v) == v \in Approved

(* The process.                                                            *)

\* systemd, or the finished predecessor, starts the daemon: main reads the
\* configuration.
DaemonBoot ==
  /\ dpc = "down"
  /\ dpc' = "idle"
  /\ nodeImage' = savedImage
  /\ UNCHANGED <<tag, polls, errCount, fileVars, hostVars>>

Killed ==
  /\ dpc' = "down"
  /\ tag' = NoImage
  /\ polls' = 0
  /\ errCount' = 0
  /\ nodeImage' = NoImage

DaemonKilled ==
  /\ dpc # "down"
  /\ Fault("daemon")
  /\ Killed
  /\ UNCHANGED <<fileVars, nodeVars, helper, sealed>>

\* Mutant: the ticker fires whatever .cmdstate says.
TickAlways ==
  /\ Goto("idle", "check")
  /\ UNCHANGED <<nodeImage, errCount, fileVars, hostVars>>

\* The ticker fires and .cmdstate says that dcstorage is to run.
Tick ==
  /\ Goto("idle", "check")
  /\ CmdStart
  /\ UNCHANGED <<nodeImage, errCount, fileVars, hostVars>>

(* Is dcstorage up, and if not, start it.                                  *)

\* Mutant: the container need only exist.
StatusUpIfPresent == image # NoImage /\ NoFault

\* checkDcnodeStatus; an error of it counts as "not running".
StatusUp   == running /\ NoFault
StatusDown == (~running /\ NoFault) \/ (running /\ Fault("call"))

CheckStatus ==
  /\ \/ Goto("check", "version") /\ StatusUp
     \/ Goto("check", "pccs") /\ StatusDown
  /\ UNCHANGED <<nodeImage, errCount, fileVars, nodeVars, helper, sealed>>

\* runPccsInDocker: pccs answers, or does not come up.
EnsurePccs ==
  /\ \/ Goto("pccs", "list") /\ NoFault
     \/ Return("pccs") /\ Fault("call")
  /\ UNCHANGED <<nodeImage, errCount, fileVars, nodeVars, helper, sealed>>

\* StartContainer lists the containers and looks for one of this image.
ListNode ==
  /\ \/ Goto("list", "run") /\ image = nodeImage /\ NoFault
     \/ Goto("list", "create") /\ image # nodeImage /\ NoFault
     \/ Return("list") /\ Fault("call")
  /\ UNCHANGED <<nodeImage, errCount, fileVars, nodeVars, helper, sealed>>

\* A container of another image has the name: removeOldFlag is false, so
\* the conflict is an error.
CreateFails ==
  /\ Return("create")
  /\ image # NoImage
  /\ UNCHANGED <<nodeImage, errCount, fileVars, hostVars>>

Create ==
  /\ \/ Goto("create", "run") /\ CreateNode(nodeImage) /\ NoFault
     \/ Return("create") /\ Fault("call") /\ UNCHANGED nodeVars
  /\ UNCHANGED <<nodeImage, errCount, fileVars, helper, sealed>>

\* Mutant: the wait for the new node to obtain the key is left out.
StartedWithoutWait == IF ~Upgrading THEN "version" ELSE "save"

\* The container runs: upgradeDeal goes on with what it started it for.
Started == IF ~Upgrading THEN "version"
           ELSE IF Sgx2 THEN "await_new" ELSE "save"

Run ==
  /\ \/ Goto("run", Started) /\ image = nodeImage /\ RunNode /\ NoFault
     \/ Return("run") /\ Fault("call") /\ UNCHANGED nodeVars
  /\ UNCHANGED <<nodeImage, errCount, fileVars, helper, sealed>>

(* Decide.                                                                 *)

VersionError == (~serving /\ NoFault) \/ (serving /\ Fault("call"))

VersionUnknown ==
  /\ Return("version")
  /\ errCount <= ErrLimit
  /\ errCount' = errCount + 1
  /\ VersionError
  /\ UNCHANGED <<nodeImage, fileVars, nodeVars, helper, sealed>>

\* Without an answer on /version for long, the helper is started to assist;
\* the error of startDcupgradeInDocker is lost here too.
AssistNode ==
  /\ Return("version")
  /\ errCount > ErrLimit
  /\ errCount' = 0
  /\ \/ VersionError /\ StartHelper
     \/ ~serving /\ Fault("call") /\ UNCHANGED helper
  /\ UNCHANGED <<nodeImage, fileVars, nodeVars, sealed>>

VersionKnown ==
  /\ Goto("version", "chain")
  /\ serving
  /\ errCount' = 0
  /\ UNCHANGED <<nodeImage, fileVars, hostVars>>

\* What the chain says, once it has synchronised; until then the call does
\* not return.
ConfigedVersion == published

\* The version to run: the chain's, or a newer one configured by hand that
\* the chain accepts.
Wanted == IF /\ Accepted(ManualVersion)
             /\ ConfigedVersion < ManualVersion
          THEN ManualVersion ELSE ConfigedVersion

\* Mutant: versions are not compared, any other enclave is an upgrade.
UpgradeWantedUnordered ==
  /\ EnclaveOf(image) # Announced(Wanted)
  /\ Accepted(Wanted)

UpgradeWanted ==
  /\ EnclaveOf(image) # Announced(Wanted)
  /\ Accepted(Wanted)
  /\ image.version < Wanted

\* Up to date, not approved or not newer; or the chain does not answer.
NothingToDo ==
  /\ Return("chain")
  /\ \/ ~UpgradeWanted /\ NoFault
     \/ Fault("call")
  /\ UNCHANGED <<nodeImage, errCount, fileVars, nodeVars, helper, sealed>>

\* The images that loading from the DC network or pulling may give.
Obtainable == {i \in Images : i.version = Wanted}

\* The version that runs is the one read at "version": the container may
\* have stopped since, but not given way to another one.
ChooseUpgrade ==
  /\ dpc = "chain" /\ dpc' = "fetch"
  /\ UpgradeWanted
  /\ tag' \in Obtainable
  /\ UNCHANGED <<nodeImage, polls, errCount, fileVars, hostVars>>

Fetched ==
  /\ Goto("fetch", "stop_helper")
  /\ UNCHANGED <<nodeImage, errCount, fileVars, hostVars>>

\* No mirror has the image and both registries fail.
FetchFails ==
  /\ Return("fetch")
  /\ Fault("call")
  /\ UNCHANGED <<nodeImage, errCount, fileVars, nodeVars, helper, sealed>>

(* Hand the key to the helper.                                             *)

\* Mutant: the helper of an earlier attempt is not closed.
CloseHelperForgotten ==
  /\ Goto("stop_helper", IF Sgx2 THEN "start_helper" ELSE "stop_old")
  /\ UNCHANGED <<nodeImage, errCount, fileVars, hostVars>>

\* stopUpgradeInDocker drops the error of StopContainer.
CloseHelper ==
  /\ Goto("stop_helper", IF Sgx2 THEN "start_helper" ELSE "stop_old")
  /\ \/ StopHelper /\ NoFault
     \/ Fault("stop") /\ UNCHANGED helper
  /\ UNCHANGED <<nodeImage, errCount, fileVars, nodeVars, sealed>>

\* startDcupgradeInDocker drops the error of StartContainer.
LaunchHelper ==
  /\ Goto("start_helper", "await_secret")
  /\ \/ StartHelper /\ NoFault
     \/ Fault("call") /\ UNCHANGED helper
  /\ UNCHANGED <<nodeImage, errCount, fileVars, nodeVars, sealed>>

SecretCollected ==
  /\ dpc = "await_secret" /\ dpc' = "stop_old"
  /\ helper.secret
  /\ polls' = 0
  /\ UNCHANGED <<nodeImage, tag, errCount, fileVars, hostVars>>

\* Both an error and "false" are counted.
SecretAwaited ==
  /\ dpc = "await_secret"
  /\ ~helper.secret
  /\ PollAgain
  /\ UNCHANGED <<nodeImage, errCount, fileVars, hostVars>>

\* Mutant: the error of waitDcUpdateGetPeerSecret is ignored.
SecretTimeoutIgnored ==
  /\ ~helper.secret /\ PollsExhausted
  /\ dpc = "await_secret" /\ dpc' = "stop_old"
  /\ polls' = 0
  /\ UNCHANGED <<nodeImage, tag, errCount, fileVars, hostVars>>

\* Mutant: another helper is given another minute.
SecretTimeoutRetried ==
  /\ ~helper.secret /\ PollsExhausted
  /\ dpc = "await_secret" /\ dpc' = "start_helper"
  /\ polls' = 0
  /\ UNCHANGED <<nodeImage, tag, errCount, fileVars, hostVars>>

SecretTimeout ==
  /\ ~helper.secret /\ PollsExhausted
  /\ Return("await_secret")
  /\ UNCHANGED <<nodeImage, errCount, fileVars, hostVars>>

(* Replace the container.                                                  *)

\* A failure is logged and the removal, which kills, is tried regardless.
StopOld ==
  /\ Goto("stop_old", "remove_old")
  /\ \/ StopNode /\ NoFault
     \/ Fault("stop") /\ UNCHANGED nodeVars
  /\ UNCHANGED <<nodeImage, errCount, fileVars, helper, sealed>>

\* Mutant: RunningConfig.NodeImage is not updated.
RemoveOldKeepsImage ==
  /\ Goto("remove_old", "pccs")
  /\ RemoveNode
  /\ NoFault
  /\ UNCHANGED <<nodeImage, errCount, fileVars, helper, sealed>>

\* Every image that is NodeImage or is named dcstorage matches.
RemoveOld ==
  /\ \/ /\ Goto("remove_old", "pccs")
        /\ RemoveNode
        /\ nodeImage' = tag
        /\ NoFault
     \/ Return("remove_old") /\ Fault("call") /\ UNCHANGED <<nodeImage, nodeVars>>
  /\ UNCHANGED <<errCount, fileVars, helper, sealed>>

(* Await the new node, save, verify.                                       *)

\* Mutant: any answer of the helper is taken for "true".
NewNodeReadyOnAnswer ==
  /\ dpc = "await_new" /\ dpc' = "release_helper"
  /\ helper.up
  /\ polls' = 0
  /\ UNCHANGED <<nodeImage, tag, errCount, fileVars, hostVars>>

NewNodeReady ==
  /\ dpc = "await_new" /\ dpc' = "release_helper"
  /\ helper.delivered
  /\ polls' = 0
  /\ UNCHANGED <<nodeImage, tag, errCount, fileVars, hostVars>>

\* Mutant: "false" is not counted either.
NewNodeAwaitedUncounted ==
  /\ dpc = "await_new"
  /\ helper.up /\ ~helper.delivered
  /\ UNCHANGED <<daemonVars, fileVars, hostVars>>

\* The flag is "false".  An error is not counted: without a helper to
\* answer, the loop goes round for ever.
NewNodeAwaited ==
  /\ dpc = "await_new"
  /\ helper.up /\ ~helper.delivered
  /\ PollAgain
  /\ UNCHANGED <<nodeImage, errCount, fileVars, hostVars>>

NewNodeTimeout ==
  /\ helper.up /\ ~helper.delivered /\ PollsExhausted
  /\ Return("await_new")
  /\ UNCHANGED <<nodeImage, errCount, fileVars, hostVars>>

ReleaseHelper ==
  /\ Goto("release_helper", "save")
  /\ \/ StopHelper /\ NoFault
     \/ Fault("stop") /\ UNCHANGED helper
  /\ UNCHANGED <<nodeImage, errCount, fileVars, nodeVars, sealed>>

\* config.SaveConfig; a failing write ends the process (DaemonKilled).
Save ==
  /\ Goto("save", "verify")
  /\ savedImage' = nodeImage
  /\ UNCHANGED <<nodeImage, errCount, cmdState, published, hostVars>>

VerifyAwaited ==
  /\ dpc = "verify"
  /\ ~serving
  /\ PollAgain
  /\ UNCHANGED <<nodeImage, errCount, fileVars, hostVars>>

\* No version, or another one than the chain announced.
VerifyFails ==
  /\ Return("verify")
  /\ serving \/ PollsExhausted
  /\ ~(serving /\ image.version = tag.version)
  /\ UNCHANGED <<nodeImage, errCount, fileVars, hostVars>>

\* The version is right and the enclave is not: the new node is stopped.
EnclaveMismatch ==
  /\ Return("verify")
  /\ Sgx2 /\ serving
  /\ image.version = tag.version
  /\ EnclaveOf(image) # Announced(tag.version)
  /\ \/ StopNode /\ NoFault
     \/ Fault("stop") /\ UNCHANGED nodeVars
  /\ UNCHANGED <<nodeImage, errCount, fileVars, helper, sealed>>

\* Success: a new daemon is spawned and this one exits.
HandOver ==
  /\ dpc = "verify"
  /\ serving
  /\ image.version = tag.version
  /\ Sgx2 => EnclaveOf(image) = Announced(tag.version)
  /\ Killed
  /\ UNCHANGED <<fileVars, hostVars>>

-----------------------------------------------------------------------------
Keep     == DaemonBoot \/ Tick \/ CheckStatus \/ EnsurePccs \/ ListNode
            \/ CreateFails \/ Create \/ Run
Decide   == VersionUnknown \/ AssistNode \/ VersionKnown
            \/ NothingToDo \/ ChooseUpgrade \/ Fetched \/ FetchFails
HandKey  == CloseHelper \/ LaunchHelper
            \/ SecretCollected \/ SecretAwaited \/ SecretTimeout
Replace  == StopOld \/ RemoveOld
Complete == NewNodeReady \/ NewNodeAwaited \/ NewNodeTimeout \/ ReleaseHelper
            \/ Save \/ VerifyAwaited \/ VerifyFails \/ EnclaveMismatch \/ HandOver

Daemon == Keep \/ Decide \/ HandKey \/ Replace \/ Complete
=============================================================================
