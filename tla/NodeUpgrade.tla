---------------------------- MODULE NodeUpgrade ----------------------------
(***************************************************************************)
(* One node: its host, the upgrade daemon, the operator's `dc` commands    *)
(* (each a process of its own) and the version published on the chain.     *)
(* Nothing orders the daemon and the commands: they share the docker host, *)
(* the configuration file and the file .cmdstate.                          *)
(***************************************************************************)
EXTENDS UpgradeDaemon

CONSTANT Cli   \* operator processes that may exist at the same time

VARIABLES
  cpc,    \* where each command is
  cmem    \* its RunningConfig.NodeImage, read when it started

cliVars == <<cpc, cmem>>
vars == <<hostVars, daemonVars, fileVars, cliVars>>

CliPcs == {"none", "pccs", "list", "create", "run", "mark", "stop", "edit"}

CliTypeOK ==
  /\ cpc \in [Cli -> CliPcs]
  /\ cmem \in [Cli -> Images \cup {NoImage}]

\* Type invariant of the node; polls and errCount stay within the bounds
\* the loops of waitDcUpdateGetPeerSecret, waitNewDcGetPeerSecret and
\* upgradeDeal state.
TypeOK == HostTypeOK /\ DaemonTypeOK /\ CliTypeOK

Init ==
  /\ HostInit
  /\ DaemonInit
  /\ cpc = [c \in Cli |-> "none"]
  /\ cmem = [c \in Cli |-> NoImage]

-----------------------------------------------------------------------------
(* The commands.                                                           *)

CliMoves(c, from, to) == cpc[c] = from /\ cpc' = [cpc EXCEPT ![c] = to]

CliGoto(c, from, to) == CliMoves(c, from, to) /\ UNCHANGED cmem

CliExit(c, from) ==
  /\ CliMoves(c, from, "none")
  /\ cmem' = [cmem EXCEPT ![c] = NoImage]

\* `dc start storage`, `dc stop storage`, or a command that saves the
\* configuration (dc config, dc pccs_api_key): main reads it first.
CliBegin(c, to) ==
  /\ CliMoves(c, "none", to)
  /\ cmem' = [cmem EXCEPT ![c] = savedImage]
  /\ UNCHANGED <<hostVars, daemonVars, fileVars>>

\* A call fails, or the operator interrupts the command.
CliFails(c) ==
  /\ cpc[c] # "none"
  /\ CliExit(c, cpc[c])
  /\ Fault("command")
  /\ UNCHANGED <<daemonVars, fileVars, nodeVars, helper, sealed>>

CliPccs(c) ==
  /\ CliGoto(c, "pccs", "list")
  /\ UNCHANGED <<daemonVars, fileVars, hostVars>>

CliList(c) ==
  /\ \/ CliGoto(c, "list", "run") /\ image = cmem[c]
     \/ CliGoto(c, "list", "create") /\ image # cmem[c]
  /\ UNCHANGED <<daemonVars, fileVars, hostVars>>

\* "container dcstorage already exist,please manual remove it first"
CliCreateFails(c) ==
  /\ CliExit(c, "create")
  /\ image # NoImage
  /\ UNCHANGED <<daemonVars, fileVars, hostVars>>

CliCreate(c) ==
  /\ CliGoto(c, "create", "run")
  /\ CreateNode(cmem[c])
  /\ NoFault
  /\ UNCHANGED <<daemonVars, fileVars, helper, sealed>>

\* The container may have been removed since it was listed or created.
CliRun(c) ==
  /\ \/ CliGoto(c, "run", "mark") /\ image = cmem[c] /\ RunNode
     \/ CliExit(c, "run") /\ image # cmem[c] /\ UNCHANGED nodeVars
  /\ NoFault
  /\ UNCHANGED <<daemonVars, fileVars, helper, sealed>>

CliMarkStart(c) ==
  /\ CliExit(c, "mark")
  /\ SetCmdState("start")
  /\ UNCHANGED <<daemonVars, savedImage, published, hostVars>>

CliMarkStop(c) ==
  /\ CliGoto(c, "none", "stop")
  /\ SetCmdState("stop")
  /\ UNCHANGED <<daemonVars, savedImage, published, hostVars>>

CliStop(c) ==
  /\ CliExit(c, "stop")
  /\ \/ StopNode /\ NoFault
     \/ Fault("stop") /\ UNCHANGED nodeVars
  /\ UNCHANGED <<daemonVars, fileVars, helper, sealed>>

\* The whole configuration is written back, NodeImage as it was read.
CliSave(c) ==
  /\ CliExit(c, "edit")
  /\ savedImage' = cmem[c]
  /\ UNCHANGED <<daemonVars, cmdState, published, hostVars>>

CliStart(c) ==
  CliBegin(c, "pccs") \/ CliPccs(c) \/ CliList(c) \/ CliCreateFails(c)
  \/ CliCreate(c) \/ CliRun(c) \/ CliMarkStart(c)

CliStep(c) ==
  CliStart(c) \/ CliFails(c) \/ CliMarkStop(c) \/ CliStop(c) \/ CliBegin(c, "edit") \/ CliSave(c)

-----------------------------------------------------------------------------
(* The environment.                                                        *)

\* The chain's sudo account configures another version.
Publish ==
  /\ published' \in Versions \ {published}
  /\ UNCHANGED <<cmdState, savedImage, daemonVars, cliVars, hostVars>>

\* The host goes down with every process on it.
HostFault ==
  /\ HostRestart
  /\ Killed
  /\ cpc' = [c \in Cli |-> "none"]
  /\ cmem' = [c \in Cli |-> NoImage]
  /\ UNCHANGED fileVars

\* What the containers do leaves the manager's own state alone.
Outside(A) == A /\ UNCHANGED <<daemonVars, fileVars, cliVars>>

Next ==
  \/ Daemon /\ UNCHANGED cliVars
  \/ DaemonKilled /\ UNCHANGED cliVars
  \/ \E c \in Cli : CliStep(c)
  \/ Outside(Containers)
  \/ Publish
  \/ HostFault

Spec == Init /\ [][Next]_vars

-----------------------------------------------------------------------------
(* Properties.                                                             *)

Sealed(i) == EnclaveOf(i) \in sealed

\* So far docker has stopped every container it was asked to stop.
StopWorks == "stop" \notin failed

\* In addition, neither the helper nor the host has gone down.
KeyStays == failed \cap {"stop", "helper", "host"} = {}

\* The image the configuration names can always read the node key, so that
\* a start from the configuration never brings up a node that is locked
\* out: upgradeDeal saves NodeImage only once the new enclave has its key,
\* and no command, however stale its copy of the configuration, writes
\* anything that was not saved before.
ConfiguredImageCanUnseal == (Sgx2 /\ StopWorks) => Sealed(savedImage)

\* The key is never out of reach of the node: when the container's enclave
\* has not sealed it, the helper is up and holds it.  The old container is
\* removed only with the key in the helper, and the helper is stopped only
\* when the container no longer needs it, whatever crashes in between.
KeyReachable ==
  (Sgx2 /\ KeyStays /\ image # NoImage /\ ~Sealed(image)) =>
    helper.up /\ helper.secret

\* A container is removed only in favour of a newer version, although the
\* versions are compared long before and commands and crashes intervene.
RemovedOnlyForNewer ==
  [][ (image # NoImage /\ image' = NoImage) =>
        tag # NoImage /\ image.version < tag.version ]_vars

\* upgradeDeal never goes back: whatever fails and whatever the commands do
\* meanwhile, a turn of the daemon only gets nearer to its end, by a stage or by
\* one of the PollLimit turns of a polling loop.  The steps from pccs to run are
\* ahead of the decision when they start a node that is down, and behind it when
\* they replace one.
TurnStages ==
  [down |-> 0, idle |-> 0, verify |-> 1, save |-> 2, release_helper |-> 3,
   await_new |-> 4, run |-> 5, create |-> 6, list |-> 7, pccs |-> 8,
   remove_old |-> 9, stop_old |-> 10, await_secret |-> 11, start_helper |-> 12,
   stop_helper |-> 13, fetch |-> 14, chain |-> 15, version |-> 16, check |-> 21]
Starting == ~Upgrading /\ dpc \in {"pccs", "list", "create", "run"}
StagesLeft == TurnStages[dpc] + (IF Starting THEN 12 ELSE 0)
TurnRunsOut ==
  [][ dpc \notin {"idle", "down"} =>
        \/ StagesLeft' < StagesLeft
        \/ StagesLeft' = StagesLeft /\ polls' > polls
        \/ UNCHANGED <<dpc, tag, polls>> ]_vars

\* The upgrade implements the custody of the key: the data volume holds it
\* for the enclaves in sealed, the helper is the courier, and the file
\* names the configured enclave.
Custody == INSTANCE KeyCustody WITH
  Enclave <- Enclaves,
  holders <- sealed,
  courier <- helper.secret,
  configured <- EnclaveOf(savedImage)
KeyCustodySpec == Custody!Spec

-----------------------------------------------------------------------------
(* Fairness and liveness.                                                  *)

\* Processes run and containers do their work.  The helper has a minute to
\* collect the key and cannot be late in every attempt: that it collects it
\* while the daemon still waits is under strong fairness, across attempts.
Fairness ==
  /\ WF_vars(Daemon /\ UNCHANGED cliVars)
  /\ \A c \in Cli : WF_vars(cpc[c] # "none" /\ CliStep(c))
  /\ WF_vars(Outside(NodeServes))
  /\ WF_vars(Outside(HelperDeliver))
  /\ SF_vars(dpc = "await_secret" /\ Outside(HelperCollect))

FairSpec == Spec /\ Fairness

\* An attempt to upgrade comes to an end, successful or not: each of the
\* waits of upgradeDeal gives up.
AttemptEnds == (dpc = "fetch") ~> (dpc \in {"idle", "down"})

\* A call has failed half-way through a replacement, and a container of
\* another image than the daemon's has the name: "please manual remove it
\* first".
Blocked == "call" \in failed /\ dpc = "create" /\ image # NoImage

\* When the operator wants the node up and no command is under way, the
\* chain keeps announcing the latest version, and nothing fails any more,
\* the node ends up serving that version, unless the daemon is blocked.
Settled ==
  /\ cmdState = "start"
  /\ published = MaxVersion
  /\ \A c \in Cli : cpc[c] = "none"
  /\ ~Blocked
UpToDate == serving /\ image.version = MaxVersion
EventuallyUpgraded == <>[]Settled => <>[]UpToDate

\* command.go:1156, "Determine whether the current dcstorage is running, if
\* not, start dcstorage": while the operator wants the node up and gives no
\* command, the daemon brings it up again and again.
WantedUp == cmdState = "start" /\ \A c \in Cli : cpc[c] = "none"
NodeKeptUp == <>[]WantedUp => []<>running

\* The daemon does so across its own failing calls, wherever they leave the
\* replacement, unless it is blocked.
NodeRevived == <>[](WantedUp /\ ~Blocked) => []<>running

\* Once the operator has stopped the node and gives no other command, the
\* daemon lets go of it: a turn that was under way when .cmdstate was
\* written ends (and may start the node once more), and no other follows.
StoppedByHand == cmdState = "stop" /\ \A c \in Cli : cpc[c] = "none"
DaemonLetsGo == <>[]StoppedByHand => <>[](dpc \in {"idle", "down"})
=============================================================================
