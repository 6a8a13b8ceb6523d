---------------------------- MODULE HostCommands ----------------------------
(***************************************************************************)
(* The commands around the chain container: `dc config`, `dc pccs_api_key`,*)
(* `dc start chain`, `dc stop chain`, and the upgrade daemon, which holds  *)
(* its copy of the configuration for as long as it lives and saves it      *)
(* after each upgrade.  They meet in the configuration (ManagerConfig), in *)
(* the container dcchain (ContainerOps) and in the chain's data directory. *)
(***************************************************************************)
EXTENDS ManagerConfig, ContainerOps

CONSTANTS
  Modes,           \* values of the setting validatorFlag: enable, disable
  ChainImage,      \* config ChainImage, which no command changes
  Keys,            \* subscription keys for pccs
  NodeImages,      \* values of the setting nodeImage
  NoData,          \* the chain's data directory is missing or empty
  MaxInvocations,  \* bound on the commands given
  MaxFaults        \* bound on failing docker calls and kills

Commands == {"config", "key", "start", "stop", "daemon"}
ChainCommands == {"config", "start"}

ASSUME CommandsAssumption ==
  /\ ChainImage \in Image
  /\ Args = Modes
  /\ Field = {Name, "validator", "pccs", "node"}
  /\ Name \notin {"validator", "pccs", "node"}
  /\ Default["validator"] = Blank
  /\ Modes \cup Keys \cup NodeImages \subseteq Value
  /\ NoData \notin Modes
  /\ MaxInvocations \in Nat
  /\ MaxFaults \in Nat

VARIABLES
  cmd,        \* the command each process executes
  pos,        \* where it is
  chainData,  \* the mode of the chain that wrote the data directory
  begun,      \* commands given so far
  faults,     \* failures so far
  overlapped  \* history: a `dc config` ran together with another one or a start

commandVars == <<cmd, pos, chainData, begun, faults, overlapped>>
vars == <<configVars, opsVars, commandVars>>

Positions == {"none", "main", "removing", "clean", "ask", "saving",
              "starting", "stopping"}

TypeOK ==
  /\ ConfigTypeOK
  /\ OpsTypeOK
  /\ cmd \in [Proc -> Commands \cup {"none"}]
  /\ pos \in [Proc -> Positions]
  /\ chainData \in Modes \cup {NoData}
  /\ begun \in 0 .. MaxInvocations
  /\ faults \in 0 .. MaxFaults
  /\ overlapped \in BOOLEAN

Configurations ==
  {c \in Config : /\ c[Name] \in Names
                  /\ c["validator"] \in Modes
                  /\ c["pccs"] \in Keys
                  /\ c["node"] = Default["node"]}

\* A host on which dc config has been completed, or on which nothing has
\* been configured yet.
Init ==
  /\ ConfigInit
  /\ exists => content \in Configurations
  /\ OpsInit
  /\ \A p \in Proc : want[p].image = ChainImage
  /\ cmd = [p \in Proc |-> "none"]
  /\ pos = [p \in Proc |-> "none"]
  /\ chainData \in {content["validator"], NoData} \ {Blank}
  /\ box.there => exists /\ box.args = content["validator"]
  /\ chainData # NoData => exists
  /\ begun = 0
  /\ faults = 0
  /\ overlapped = FALSE

-----------------------------------------------------------------------------
At(p, command, position) == cmd[p] = command /\ pos[p] = position /\ cfg[p] = "ready"

Moves(p, to) ==
  /\ pos' = [pos EXCEPT ![p] = to]
  /\ UNCHANGED <<cmd, chainData, begun, faults, overlapped>>

Sets(p, f, v) == [mem[p] EXCEPT ![f] = v]

Active(commands) == {p \in Proc : cmd[p] \in commands}

(* main.                                                                   *)

Invoke(p, command) ==
  /\ cmd[p] = "none"
  /\ begun < MaxInvocations
  /\ begun' = begun + 1
  /\ Boot(p)
  /\ cmd' = [cmd EXCEPT ![p] = command]
  /\ pos' = [pos EXCEPT ![p] = "main"]
  /\ overlapped' = \/ overlapped
                   \/ command = "config" /\ Active(ChainCommands) # {}
                   \/ command \in ChainCommands /\ Active({"config"}) # {}
  /\ UNCHANGED <<opsVars, chainData, faults>>

ReadsAndWrites(p) == (Stat(p) \/ Load(p) \/ Writing(p)) /\ UNCHANGED <<opsVars, commandVars>>

Ends(p) ==
  /\ cmd' = [cmd EXCEPT ![p] = "none"]
  /\ pos' = [pos EXCEPT ![p] = "none"]
  /\ UNCHANGED <<chainData, begun, overlapped>>

Exit(p) == Leave(p) /\ Ends(p) /\ UNCHANGED faults

\* "please config chain first", or a command that only shows something.
NotConfigured(p) ==
  /\ cfg[p] = "ready" /\ pos[p] = "main"
  /\ mem[p]["validator"] = Blank
  /\ cmd[p] # "config"
  /\ Exit(p)
  /\ UNCHANGED opsVars

\* Mutant: the command runs on a host that is not configured.
ConfiguredUnchecked(p, command) == At(p, command, "main")

Configured(p, command) == At(p, command, "main") /\ mem[p]["validator"] # Blank

(* dc config.                                                              *)

\* "chainmode is already configed,continue will clean the chain data": n.
ConfigDeclined(p) ==
  /\ Configured(p, "config")
  /\ Exit(p)
  /\ UNCHANGED opsVars

ConfigRemovesChain(p) ==
  /\ Configured(p, "config")
  /\ Moves(p, "removing")
  /\ CallRemove(p)
  /\ UNCHANGED configVars

ConfigCleans(p) ==
  /\ At(p, "config", "removing")
  /\ call[p] = "ok"
  /\ CallDone(p)
  /\ Moves(p, "clean")
  /\ UNCHANGED configVars

\* Mutant: the error is logged, and the command goes on.
RemoveFailureIgnored(p) ==
  /\ At(p, "config", "removing")
  /\ call[p] = "error"
  /\ CallDone(p)
  /\ Moves(p, "clean")
  /\ UNCHANGED configVars

ConfigRemoveFails(p) ==
  /\ At(p, "config", "removing")
  /\ call[p] = "error"
  /\ CallDone(p)
  /\ Exit(p)

\* Mutant: the chain's data directory is left alone.
CleanForgotten(p) ==
  /\ At(p, "config", "clean")
  /\ Moves(p, "ask")
  /\ UNCHANGED <<configVars, opsVars>>

\* os.RemoveAll(chainDataDir)
Clean(p) ==
  /\ At(p, "config", "clean")
  /\ pos' = [pos EXCEPT ![p] = "ask"]
  /\ chainData' = NoData
  /\ UNCHANGED <<cmd, begun, faults, overlapped, configVars, opsVars>>

\* The mode, and the key if there is none, from the operator.
ConfigAsks(p) ==
  /\ \/ At(p, "config", "main") /\ mem[p]["validator"] = Blank
     \/ At(p, "config", "ask")
  /\ \E mode \in Modes, key \in Keys :
       Change(p, [mem[p] EXCEPT !["validator"] = mode,
                                !["pccs"] = IF @ = Blank THEN key ELSE @])
  /\ Moves(p, "saving")
  /\ UNCHANGED opsVars

(* The container.                                                          *)

\* startDcchainInDocker: the mode is part of the entrypoint.
StartChain(p) ==
  /\ At(p, "config", "saving") \/ Configured(p, "start")
  /\ CallStart(p, [image |-> ChainImage, args |-> mem[p]["validator"]])
  /\ Moves(p, "starting")
  /\ UNCHANGED configVars

StopChain(p) ==
  /\ Configured(p, "stop")
  /\ CallStop(p)
  /\ Moves(p, "stopping")
  /\ UNCHANGED configVars

\* The result is printed or dropped.
ChainCommandEnds(p) ==
  /\ pos[p] \in {"starting", "stopping"}
  /\ CallDone(p)
  /\ Exit(p)

Docker(p) == DockerStep(p) /\ UNCHANGED <<configVars, commandVars>>

(* dc pccs_api_key, and the daemon after an upgrade.                       *)

SetKey(p) ==
  /\ Configured(p, "key")
  /\ \E key \in Keys : Change(p, Sets(p, "pccs", key))
  /\ Moves(p, "saving")
  /\ UNCHANGED opsVars

KeySaved(p) == At(p, "key", "saving") /\ Exit(p) /\ UNCHANGED opsVars

DaemonSaves(p) ==
  /\ Configured(p, "daemon")
  /\ \E i \in NodeImages : Change(p, Sets(p, "node", i))
  /\ UNCHANGED <<opsVars, commandVars>>

(* The environment.                                                        *)

Fault == faults < MaxFaults /\ faults' = faults + 1

DockerFails(p) ==
  /\ Fault
  /\ CallFails(p)
  /\ UNCHANGED <<configVars, cmd, pos, chainData, begun, overlapped>>

\* os.RemoveAll returns an error: the data, or some of it, stays.
CleanFails(p) ==
  /\ At(p, "config", "clean")
  /\ Fault
  /\ Leave(p)
  /\ Ends(p)
  /\ UNCHANGED opsVars

\* SIGKILL, log.Fatalf, ctrl-C at a prompt, or a daemon that hands over.
Killed(p) ==
  /\ Fault
  /\ Leave(p)
  /\ CallLost(p)
  /\ Ends(p)

\* dcchain writes its data in the mode in which it runs.
ChainWrites ==
  /\ box.running
  /\ chainData = NoData
  /\ chainData' = box.args
  /\ UNCHANGED <<configVars, opsVars, cmd, pos, begun, faults, overlapped>>

ConfigCommand(p) ==
  ConfigDeclined(p) \/ ConfigRemovesChain(p) \/ ConfigCleans(p)
  \/ ConfigRemoveFails(p) \/ Clean(p) \/ ConfigAsks(p)
OtherCommands(p) ==
  StartChain(p) \/ StopChain(p) \/ ChainCommandEnds(p) \/ SetKey(p) \/ KeySaved(p)
  \/ DaemonSaves(p)

Next ==
  \/ \E p \in Proc :
       \/ \E command \in Commands : Invoke(p, command)
       \/ ReadsAndWrites(p) \/ NotConfigured(p)
       \/ ConfigCommand(p) \/ OtherCommands(p)
       \/ Docker(p) \/ DockerFails(p) \/ CleanFails(p) \/ Killed(p)
  \/ ChainWrites

Spec == Init /\ [][Next]_vars

-----------------------------------------------------------------------------
(* Properties.                                                             *)

\* No torn read, no save of an outdated copy, no two commands at odds.
Undisturbed == ~torn /\ ~stale /\ ~overlapped

\* The chain's container is of the mode that is configured: whichever step of
\* a dc config fails or is its last, when the file comes to hold another mode
\* the container of the old one is gone, and no command creates it again.
ModeAsConfigured ==
  (Undisturbed /\ box.there) => box.args = content["validator"]

\* "continue will clean the chain data": the chain never runs on data that
\* it has written in the other mode.
ChainDataMatches ==
  (Undisturbed /\ box.running) => chainData \in {NoData, box.args}
=============================================================================
