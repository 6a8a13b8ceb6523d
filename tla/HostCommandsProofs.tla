------------------------- MODULE HostCommandsProofs -------------------------
(***************************************************************************)
(* The commands keep the promises of the configuration and of the          *)
(* container functions, and the chain runs in the configured mode on data  *)
(* of that mode, for any number of processes, commands and failures.       *)
(***************************************************************************)
EXTENDS HostCommands, ManagerConfigProofs, ContainerOpsProofs

Mode(p)    == mem[p]["validator"]
FileMode   == content["validator"]
Loaded(p)  == cfg[p] \in {"ready", "truncate", "fill"}
SomeMode   == Modes \cup {Blank}

\* A dc config is about to write a new mode.
Setting(p) == cmd[p] = "config" /\ pos[p] = "saving" /\ cfg[p] \in {"truncate", "fill"}

\* A dc config knows that the container has been removed.
Removed(p) ==
  /\ cmd[p] = "config"
  /\ \/ pos[p] \in {"clean", "ask"} \/ Setting(p)
     \/ pos[p] = "removing" /\ call[p] = "ok"

ModesOK ==
  /\ FileMode \in SomeMode
  /\ \A p \in Proc : Mode(p) \in SomeMode
  /\ \A p \in Proc : ~Loaded(p) /\ cfg[p] # "read" => Mode(p) = Blank

\* Which commands are where, with which configuration and which call.
PlaceOK ==
  \A p \in Proc :
    /\ pos[p] \notin {"none", "main"} =>
         cfg[p] = "ready" \/ (pos[p] = "saving" /\ cfg[p] \in {"truncate", "fill"})
    /\ pos[p] \in {"removing", "clean", "ask"} => cmd[p] = "config"
    /\ pos[p] = "saving" => cmd[p] \in {"config", "key"}
    /\ (pos[p] = "saving" /\ cmd[p] = "config") => Mode(p) # Blank
    /\ pos[p] = "starting" => cmd[p] \in ChainCommands
    /\ call[p] # "idle" => pos[p] \in {"removing", "starting", "stopping"}
    /\ pos[p] = "removing" => call[p] \in RemoveCalls \cup {"ok", "error"}
    /\ call[p] \in StartCalls => pos[p] = "starting" /\ want[p].args = Mode(p)
    /\ "validator" \in dirty[p] => cmd[p] = "config" /\ pos[p] = "saving"

\* Unless commands overlap, a dc config has the mode to itself.
AloneOK ==
  ~overlapped =>
    \A p, q \in Proc : (p # q /\ cmd[p] = "config") => cmd[q] \notin ChainCommands

\* Copies that are not outdated have the mode of the file, but for a new one.
FreshOK ==
  Regular =>
    /\ ~exists => FileMode = Blank
    /\ \A p \in Proc \ outdated :
         /\ (Loaded(p) /\ "validator" \notin dirty[p]) => Mode(p) = FileMode
         /\ cfg[p] \in {"truncate_new", "fill_new"} => FileMode = Blank

\* So have all copies of the commands for the chain, outdated or not.
AgreeOK ==
  Undisturbed =>
    \A p \in Proc :
      (cmd[p] \in ChainCommands /\ Loaded(p) /\ ~Setting(p)) => Mode(p) = FileMode

\* The container and the data are of the mode of the file, and gone before
\* that changes.
ChainOK ==
  Undisturbed =>
    /\ box.there => box.args = FileMode
    /\ chainData \in {NoData, FileMode}
    /\ \A p \in Proc :
         /\ Removed(p) => ~box.there
         /\ (cmd[p] = "config" /\ (pos[p] = "ask" \/ Setting(p))) => chainData = NoData

CommandTypes ==
  /\ cmd \in [Proc -> Commands \cup {"none"}]
  /\ pos \in [Proc -> Positions]
  /\ chainData \in Modes \cup {NoData}
  /\ begun \in 0 .. MaxInvocations
  /\ faults \in 0 .. MaxFaults
  /\ overlapped \in BOOLEAN

HostInv ==
  /\ ConfigInv /\ OpsInv /\ CommandTypes
  /\ ModesOK /\ PlaceOK /\ AloneOK /\ FreshOK /\ AgreeOK /\ ChainOK

-----------------------------------------------------------------------------
LEMMA HostInvInit == Init => HostInv
<1> SUFFICES ASSUME Init PROVE HostInv
  OBVIOUS
<1>1. ConfigInv /\ OpsInv
  BY ConfigInvInit, OpsInvInit DEF Init
<1>2. FileMode \in SomeMode /\ (~exists => FileMode = Blank)
  BY CommandsAssumption DEF Init, ConfigInit, Configurations, FileMode, SomeMode
<1>3. CommandTypes
  <2>1. chainData \in Modes \cup {NoData}
    BY <1>2 DEF Init, FileMode, SomeMode
  <2>2. cmd \in [Proc -> Commands \cup {"none"}] /\ pos \in [Proc -> Positions]
    BY DEF Init, Positions
  <2>3. begun = 0 /\ faults = 0
    BY DEF Init
  <2>4. overlapped \in BOOLEAN
    BY DEF Init
  <2>5. MaxInvocations \in Nat /\ MaxFaults \in Nat
    BY CommandsAssumption
  <2>6. begun \in 0 .. MaxInvocations /\ faults \in 0 .. MaxFaults
    BY <2>3, <2>5
  <2> QED
    BY <2>1, <2>2, <2>4, <2>6 DEF CommandTypes
<1>4. ModesOK /\ PlaceOK
  BY <1>2, <1>1, CommandsAssumption DEF Init, ConfigInit, OpsInit, ModesOK, PlaceOK,
     Loaded, Mode, SomeMode, StartCalls
<1>5. AloneOK /\ FreshOK /\ AgreeOK /\ ChainOK
  BY <1>2 DEF Init, ConfigInit, AloneOK, FreshOK, AgreeOK, ChainOK, Loaded, Removed,
     Setting, FileMode, ChainCommands
<1> QED
  BY <1>1, <1>3, <1>4, <1>5 DEF HostInv

(* The ends of a command, and the steps of docker, by what they do.        *)

Quits(p) ==
  /\ Leave(p)
  /\ Ends(p)
  /\ call' = [call EXCEPT ![p] = "idle"]
  /\ UNCHANGED <<box, want>>

Quitting(p) ==
  \/ NotConfigured(p) \/ ConfigDeclined(p) \/ ConfigRemoveFails(p)
  \/ ChainCommandEnds(p) \/ KeySaved(p) \/ CleanFails(p) \/ Killed(p)

\* A command that is in no call leaves none behind.
LEMMA QuittingQuits == ASSUME HostInv, NEW p \in Proc, Quitting(p) PROVE Quits(p)
<1> USE DEF Quits
<1>1. call \in [Proc -> Calls]
  BY DEF HostInv, OpsInv, OpsTypeOK
<1>2. CASE UNCHANGED opsVars /\ Leave(p) /\ Ends(p) /\ pos[p] \in {"main", "clean", "saving"}
  BY <1>1, <1>2 DEF opsVars, HostInv, PlaceOK
<1>3. CASE NotConfigured(p) \/ ConfigDeclined(p) \/ KeySaved(p) \/ CleanFails(p)
  BY <1>2, <1>3 DEF NotConfigured, ConfigDeclined, KeySaved, CleanFails, Exit, Configured, At
<1>4. CASE ConfigRemoveFails(p) \/ ChainCommandEnds(p)
  BY <1>4 DEF ConfigRemoveFails, ChainCommandEnds, Exit, CallDone
<1>5. CASE Killed(p)
  BY <1>5 DEF Killed, CallLost
<1> QED
  BY <1>3, <1>4, <1>5 DEF Quitting

Works(p) ==
  /\ InCall(p)
  /\ \E c \in Calls \ {"idle"} : call' = [call EXCEPT ![p] = c]
  /\ want' = want
  /\ call'[p] \in StartCalls => call[p] \in StartCalls
  /\ call[p] \in RemoveCalls => call'[p] \in RemoveCalls \cup {"ok", "error"}
  /\ (call[p] \in RemoveCalls /\ call'[p] = "ok") => ~box'.there
  /\ box'.there => \/ box.there /\ box'.args = box.args
                   \/ call[p] \in StartCalls /\ box'.args = want[p].args

\* Only a start makes a container, and a removal that succeeds leaves none.
LEMMA DockerWorks ==
  ASSUME OpsTypeOK, NEW p \in Proc, DockerStep(p) \/ CallFails(p)
  PROVE  Works(p)
<1> USE DEF Works, OpsTypeOK, Boxes, InCall, Calls, StartCalls, StopCalls, RemoveCalls,
            Outcomes, Goes, Found, MakeBox, SetRunning, DropBox
<1>1. CASE List(p) \/ Inspect(p)
  BY <1>1 DEF List, Inspect
<1>2. CASE Create(p)
  BY <1>2 DEF Create
<1>3. CASE CreateAgain(p)
  BY <1>3 DEF CreateAgain
<1>4. CASE StopOldBox(p) \/ RunBox(p)
  BY <1>4 DEF StopOldBox, RunBox
<1>5. CASE RemoveOldBox(p)
  BY <1>5 DEF RemoveOldBox
<1>6. CASE StopSteps(p)
  BY <1>6 DEF StopSteps, Find, Halt
<1>7. CASE Look(p) \/ Examine(p)
  BY <1>7 DEF Look, Examine
<1>8. CASE StopListed(p) \/ RemoveListed(p)
  BY <1>8 DEF StopListed, RemoveListed
<1>9. CASE CallFails(p)
  BY <1>9 DEF CallFails
<1> QED
  BY <1>1, <1>2, <1>3, <1>4, <1>5, <1>6, <1>7, <1>8, <1>9
     DEF DockerStep, StartSteps, RemoveSteps

Dockers(p) == Works(p) /\ UNCHANGED <<configVars, cmd, pos, chainData, overlapped>>
Reconfigs(p) == ConfigRemovesChain(p) \/ ConfigCleans(p) \/ Clean(p)
Changes(p) == ConfigAsks(p) \/ SetKey(p) \/ DaemonSaves(p)
CallsDocker(p) == StartChain(p) \/ StopChain(p)

HostStep(p) ==
  \/ \E command \in Commands : Invoke(p, command)
  \/ ReadsAndWrites(p) \/ Quits(p) \/ Dockers(p) \/ Reconfigs(p) \/ Changes(p)
  \/ CallsDocker(p)

\* What each lemma below goes through.
LEMMA Steps ==
  ASSUME HostInv, [Next]_vars
  PROVE  UNCHANGED vars \/ ChainWrites \/ \E p \in Proc : HostStep(p)
<1> SUFFICES ASSUME NEW p \in Proc,
                    \/ \E command \in Commands : Invoke(p, command)
                    \/ ReadsAndWrites(p) \/ NotConfigured(p)
                    \/ ConfigCommand(p) \/ OtherCommands(p)
                    \/ Docker(p) \/ DockerFails(p) \/ CleanFails(p) \/ Killed(p)
             PROVE  HostStep(p)
  BY DEF Next
<1>1. OpsTypeOK
  BY DEF HostInv, OpsInv
<1>2. CASE Quitting(p)
  BY <1>2, QuittingQuits DEF HostStep
<1>3. CASE Docker(p) \/ DockerFails(p)
  BY <1>1, <1>3, DockerWorks DEF Docker, DockerFails, HostStep, Dockers, commandVars
<1> QED
  BY <1>2, <1>3 DEF Quitting, ConfigCommand, OtherCommands, HostStep, Reconfigs, Changes,
     CallsDocker

(* The commands use the configuration and the container as any process may. *)

LEMMA StepOfConfig == ASSUME HostInv, [Next]_vars PROVE [ConfigNext]_configVars
<1>1. CASE UNCHANGED vars \/ ChainWrites
  BY <1>1 DEF vars, ChainWrites
<1>2. ASSUME NEW p \in Proc, HostStep(p) PROVE [ConfigNext]_configVars
  <2>1. CASE \E command \in Commands : Invoke(p, command)
    BY <2>1 DEF Invoke, ConfigNext, Starting
  <2>2. CASE ReadsAndWrites(p)
    BY <2>2 DEF ReadsAndWrites, ConfigNext, Starting, Writing
  <2>3. CASE Quits(p)
    BY <2>3 DEF Quits, ConfigNext
  <2>4. CASE Dockers(p) \/ Reconfigs(p) \/ CallsDocker(p)
    BY <2>4 DEF Dockers, Reconfigs, ConfigRemovesChain, ConfigCleans, Clean, CallsDocker,
       StartChain, StopChain
  <2>5. CASE Changes(p)
    <3>1. mem[p] \in Config
      BY DEF HostInv, ConfigInv, ConfigTypeOK
    <3>2. CASE ConfigAsks(p)
      <4>1. PICK mode \in Modes, key \in Keys :
              Change(p, [mem[p] EXCEPT !["validator"] = mode,
                                       !["pccs"] = IF @ = Blank THEN key ELSE @])
        BY <3>2 DEF ConfigAsks
      <4>2. [mem[p] EXCEPT !["validator"] = mode,
                           !["pccs"] = IF @ = Blank THEN key ELSE @] \in Config
        BY <3>1, CommandsAssumption DEF Config, Values
      <4> QED
        BY <4>1, <4>2 DEF ConfigNext
    <3>3. ASSUME NEW f \in {"pccs", "node"}, NEW v \in Keys \cup NodeImages,
                 Change(p, Sets(p, f, v))
          PROVE  ConfigNext
      <4>1. Sets(p, f, v) \in Config
        BY <3>1, CommandsAssumption DEF Config, Values, Sets
      <4> QED
        BY <3>3, <4>1 DEF ConfigNext
    <3> QED
      BY <2>5, <3>2, <3>3 DEF Changes, SetKey, DaemonSaves
  <2> QED
    BY <1>2, <2>1, <2>2, <2>3, <2>4, <2>5 DEF HostStep
<1> QED
  BY <1>1, <1>2, Steps

LEMMA StepOfOps == ASSUME HostInv, [Next]_vars PROVE [OpsNext]_opsVars
<1> SUFFICES ASSUME NEW p \in Proc,
                    \/ \E command \in Commands : Invoke(p, command)
                    \/ ReadsAndWrites(p) \/ NotConfigured(p)
                    \/ ConfigCommand(p) \/ OtherCommands(p)
                    \/ Docker(p) \/ DockerFails(p) \/ CleanFails(p) \/ Killed(p)
             PROVE  [OpsNext]_opsVars
  BY DEF Next, vars, ChainWrites
<1>1. CASE \/ \E command \in Commands : Invoke(p, command)
           \/ ReadsAndWrites(p) \/ NotConfigured(p) \/ CleanFails(p)
  BY <1>1 DEF Invoke, ReadsAndWrites, NotConfigured, CleanFails
<1>2. CASE ConfigCommand(p)
  BY <1>2 DEF ConfigCommand, ConfigDeclined, ConfigRemovesChain, ConfigCleans,
     ConfigRemoveFails, Clean, ConfigAsks, OpsNext, Request
<1>3. CASE OtherCommands(p)
  <2>1. CASE StartChain(p)
    <3>1. mem[p]["validator"] \in Modes
      BY <2>1 DEF HostInv, ModesOK, PlaceOK, SomeMode, Mode, StartChain, At, Configured
    <3>2. [image |-> ChainImage, args |-> mem[p]["validator"]] \in Wants
      BY <3>1, CommandsAssumption DEF Wants
    <3> QED
      BY <2>1, <3>2 DEF StartChain, OpsNext, Request
  <2>2. CASE ~StartChain(p)
    BY <1>3, <2>2 DEF OtherCommands, StopChain, ChainCommandEnds, SetKey, KeySaved,
       DaemonSaves, OpsNext, Request
  <2> QED
    BY <2>1, <2>2
<1>4. CASE Docker(p) \/ DockerFails(p) \/ Killed(p)
  BY <1>4 DEF Docker, DockerFails, Killed, OpsNext
<1> QED
  BY <1>1, <1>2, <1>3, <1>4

LEMMA BothStep == ASSUME HostInv, [Next]_vars PROVE ConfigInv' /\ OpsInv'
<1>1. ConfigInv'
  BY StepOfConfig, ConfigTypes, FileStep, CopiesStep DEF HostInv, ConfigInv
<1>2. OpsInv'
  BY StepOfOps, OpsTypes, OpsIds, OpsDue DEF HostInv, OpsInv
<1> QED
  BY <1>1, <1>2

LEMMA CommandTypesStep == ASSUME HostInv, [Next]_vars PROVE CommandTypes'
<1> USE DEF HostInv, CommandTypes
<1>1. ASSUME NEW p \in Proc, NEW to \in Positions, Moves(p, to) PROVE CommandTypes'
  BY <1>1 DEF Moves
<1>2. ASSUME UNCHANGED commandVars PROVE CommandTypes'
  BY <1>2 DEF commandVars
<1>3. ASSUME Fault PROVE faults' \in 0 .. MaxFaults
  BY <1>3, CommandsAssumption DEF Fault
<1>4. ASSUME NEW p \in Proc, Ends(p), Fault \/ faults' = faults PROVE CommandTypes'
  BY <1>3, <1>4 DEF Ends, Positions
<1>5. CASE ChainWrites
  <2>1. box.running => box.args \in Modes
    BY CommandsAssumption DEF OpsInv, OpsTypeOK, Boxes
  <2> QED
    BY <1>5, <2>1 DEF ChainWrites
<1>6. ASSUME NEW p \in Proc, NEW command \in Commands, Invoke(p, command)
      PROVE  CommandTypes'
  <2>1. begun' \in 0 .. MaxInvocations
    BY <1>6, CommandsAssumption DEF Invoke
  <2>2. overlapped' \in BOOLEAN
    BY <1>6 DEF Invoke
  <2> QED
    BY <1>6, <2>1, <2>2 DEF Invoke, Positions
<1>7. ASSUME NEW p \in Proc, ReadsAndWrites(p) \/ DaemonSaves(p) \/ Docker(p)
      PROVE  CommandTypes'
  BY <1>2, <1>7 DEF ReadsAndWrites, DaemonSaves, Docker
<1>8. ASSUME NEW p \in Proc, Quitting(p) PROVE CommandTypes'
  BY <1>4, <1>8 DEF Quitting, NotConfigured, ConfigDeclined, ConfigRemoveFails,
     ChainCommandEnds, KeySaved, CleanFails, Killed, Exit
<1>9. ASSUME NEW p \in Proc,
             \/ ConfigRemovesChain(p) \/ ConfigCleans(p) \/ ConfigAsks(p)
             \/ CallsDocker(p) \/ SetKey(p)
      PROVE  CommandTypes'
  BY <1>1, <1>9 DEF ConfigRemovesChain, ConfigCleans, ConfigAsks, CallsDocker, StartChain,
     StopChain, SetKey, Positions
<1>10. ASSUME NEW p \in Proc, Clean(p) PROVE CommandTypes'
  BY <1>10 DEF Clean, Positions
<1>11. ASSUME NEW p \in Proc, DockerFails(p) PROVE CommandTypes'
  BY <1>3, <1>11 DEF DockerFails
<1> QED
  BY <1>2, <1>5, <1>6, <1>7, <1>8, <1>9, <1>10, <1>11
     DEF Next, vars, Quitting, ConfigCommand, OtherCommands, CallsDocker

(* One lemma for each part of the invariant.                               *)

\* Only dc config changes the mode.
LEMMA ModeChange ==
  ASSUME HostInv, NEW p \in Proc, Changes(p)
  PROVE  /\ ConfigAsks(p) => mem'[p]["validator"] \in Modes
         /\ ~ConfigAsks(p) => mem'[p]["validator"] = mem[p]["validator"]
         /\ ~ConfigAsks(p) => "validator" \notin dirty'[p]
<1>1. mem \in [Proc -> Config] /\ mem[p] \in [Field -> Values] /\ dirty \in [Proc -> SUBSET Field]
  BY DEF HostInv, ConfigInv, ConfigTypeOK, Config
<1>2. {"validator", "pccs", "node"} \subseteq Field
  BY CommandsAssumption
<1>3. CASE ConfigAsks(p)
  BY <1>1, <1>2, <1>3, ZenonT(60) DEF ConfigAsks, Change
<1>4. CASE ~ConfigAsks(p)
  <2>1. PICK f \in {"pccs", "node"}, v \in Keys \cup NodeImages : Change(p, Sets(p, f, v))
    BY <1>4 DEF Changes, SetKey, DaemonSaves
  <2>2. mem'[p] = Sets(p, f, v) /\ dirty'[p] = {g \in Field : Sets(p, f, v)[g] # mem[p][g]}
    BY <1>1, <2>1 DEF Change
  <2>3. Sets(p, f, v)["validator"] = mem[p]["validator"]
    BY <1>1, <1>2 DEF Sets
  <2> QED
    BY <1>4, <2>2, <2>3
<1> QED
  BY <1>3, <1>4

LEMMA ModesStep == ASSUME HostInv, [Next]_vars PROVE ModesOK'
<1> USE DEF HostInv, ConfigInv, ConfigTypeOK, ModesOK, Mode, Loaded, FileMode, SomeMode,
            CfgMoves, fileState, history, configVars
<1>1. CASE UNCHANGED vars \/ ChainWrites
  BY <1>1 DEF vars, ChainWrites
<1>2. ASSUME NEW p \in Proc, HostStep(p) PROVE ModesOK'
  <2>1. CASE \E command \in Commands : Invoke(p, command)
    BY <2>1 DEF Invoke, Boot
  <2>2. CASE ReadsAndWrites(p)
    <3>1. CASE Stat(p)
      BY <3>1 DEF Stat
    <3>2. CASE Load(p)
      <4>1. mem'[p]["validator"] \in SomeMode
        BY <3>2, CommandsAssumption DEF Load, AllBlank, Config
      <4> QED
        BY <3>2, <4>1 DEF Load
    <3>3. CASE Writing(p)
      BY <3>3 DEF Writing, Truncate, Fill
    <3> QED
      BY <2>2, <3>1, <3>2, <3>3 DEF ReadsAndWrites
  <2>3. CASE Quits(p)
    BY <2>3, CommandsAssumption DEF Quits, Leave
  <2>4. CASE Dockers(p) \/ Reconfigs(p) \/ CallsDocker(p)
    BY <2>4 DEF Dockers, Reconfigs, ConfigRemovesChain, ConfigCleans, Clean, CallsDocker,
       StartChain, StopChain
  <2>5. CASE Changes(p)
    <3>1. mem'[p]["validator"] \in SomeMode
      BY <2>5, ModeChange
    <3> QED
      BY <2>5, <3>1, ZenonT(60) DEF Changes, ConfigAsks, SetKey, DaemonSaves, Change
  <2> QED
    BY <1>2, <2>1, <2>2, <2>3, <2>4, <2>5 DEF HostStep
<1> QED
  BY <1>1, <1>2, Steps

LEMMA AloneStep == ASSUME HostInv, [Next]_vars PROVE AloneOK'
<1> USE DEF HostInv, AloneOK, CommandTypes
<1>1. CASE UNCHANGED vars \/ ChainWrites
  BY <1>1 DEF vars, commandVars, ChainWrites
<1>2. ASSUME NEW p \in Proc, HostStep(p) PROVE AloneOK'
  <2>1. CASE \E command \in Commands : Invoke(p, command)
    BY <2>1 DEF Invoke, Active, ChainCommands
  <2>2. CASE Quits(p)
    BY <2>2 DEF Quits, Ends, ChainCommands
  <2>3. CASE ~Quits(p) /\ ~\E command \in Commands : Invoke(p, command)
    <3>1. UNCHANGED <<cmd, overlapped>>
      BY <1>2, <2>3 DEF HostStep, ReadsAndWrites, Dockers, Reconfigs, ConfigRemovesChain,
         ConfigCleans, Clean, Changes, ConfigAsks, SetKey, DaemonSaves, CallsDocker,
         StartChain, StopChain, Moves, commandVars
    <3> QED
      BY <3>1
  <2> QED
    BY <2>1, <2>2, <2>3
<1> QED
  BY <1>1, <1>2, Steps

LEMMA PlaceStep == ASSUME HostInv, [Next]_vars PROVE PlaceOK'
<1> USE DEF HostInv, ConfigInv, ConfigTypeOK, OpsInv, OpsTypeOK, CommandTypes, PlaceOK, Mode,
            CfgMoves, fileState, history, configVars, opsVars, commandVars
<1>1. CASE UNCHANGED vars \/ ChainWrites
  BY <1>1 DEF vars, ChainWrites
<1>2. ASSUME NEW p \in Proc, HostStep(p) PROVE PlaceOK'
  <2>1. CASE \E command \in Commands : Invoke(p, command)
    BY <2>1 DEF Invoke, Boot, DirtyOK, StartCalls
  <2>2. CASE ReadsAndWrites(p)
    <3>1. CASE Stat(p)
      BY <2>2, <3>1 DEF ReadsAndWrites, Stat
    <3>2. CASE Load(p)
      BY <2>2, <3>2, CommandsAssumption DEF ReadsAndWrites, Load, StartCalls
    <3>3. CASE Truncate(p)
      BY <2>2, <3>3 DEF ReadsAndWrites, Truncate
    <3>4. CASE Fill(p)
      BY <2>2, <3>4 DEF ReadsAndWrites, Fill
    <3> QED
      BY <2>2, <3>1, <3>2, <3>3, <3>4 DEF ReadsAndWrites, Writing
  <2>3. CASE Quits(p)
    BY <2>3 DEF Quits, Leave, Ends, StartCalls
  <2>4. CASE Dockers(p)
    BY <2>4 DEF Dockers, Works, InCall, Outcomes
  <2>5. CASE Reconfigs(p)
    <3>1. CASE ConfigRemovesChain(p)
      BY <3>1 DEF ConfigRemovesChain, CallRemove, Goes, Moves, Configured, At, StartCalls,
         RemoveCalls, DirtyOK
    <3>2. CASE ConfigCleans(p)
      BY <3>2 DEF ConfigCleans, CallDone, Moves, At, StartCalls, DirtyOK
    <3>3. CASE Clean(p)
      BY <3>3 DEF Clean, At, DirtyOK
    <3> QED
      BY <2>5, <3>1, <3>2, <3>3 DEF Reconfigs
  <2>6. CASE Changes(p)
    <3>1. call[p] = "idle" /\ cfg[p] = "ready"
      BY <2>6 DEF Changes, ConfigAsks, SetKey, DaemonSaves, Configured, At
    <3>2. CASE ConfigAsks(p)
      <4>1. mem'[p]["validator"] # Blank
        BY <2>6, <3>2, ModeChange, CommandsAssumption, ConfigAssumption
      <4> QED
        BY <3>1, <3>2, <4>1 DEF ConfigAsks, Change, Moves, At, StartCalls
    <3>3. CASE ~ConfigAsks(p)
      <4>1. "validator" \notin dirty'[p]
        BY <2>6, <3>3, ModeChange
      <4> QED
        BY <2>6, <3>1, <3>3, <4>1 DEF Changes, SetKey, DaemonSaves, Change, Moves,
           Configured, At, StartCalls
    <3> QED
      BY <3>2, <3>3
  <2>7. CASE CallsDocker(p)
    <3>1. dirty[p] = {}
      BY <2>7 DEF CallsDocker, StartChain, StopChain, Configured, At, DirtyOK
    <3>2. CASE StartChain(p)
      BY <3>1, <3>2 DEF StartChain, CallStart, Wants, Goes, Moves, Configured, At, ChainCommands
    <3>3. CASE StopChain(p)
      BY <3>1, <3>3 DEF StopChain, CallStop, Goes, Moves, Configured, At, StartCalls
    <3> QED
      BY <2>7, <3>2, <3>3 DEF CallsDocker
  <2> QED
    BY <1>2, <2>1, <2>2, <2>3, <2>4, <2>5, <2>6, <2>7 DEF HostStep
<1> QED
  BY <1>1, <1>2, Steps

\* A process that saves without setting the mode leaves the mode of the file.
LEMMA FillKeepsMode ==
  ASSUME HostInv, NEW p \in Proc, Fill(p), Regular', ~Setting(p)
  PROVE  content'["validator"] = content["validator"]
<1> USE DEF HostInv, ConfigInv, ConfigTypeOK, Fill, CfgMoves
<1>1. Regular /\ p \notin outdated /\ content' = mem[p]
  BY DEF Regular
<1>2. CASE cfg[p] = "fill"
  BY <1>1, <1>2 DEF FreshOK, PlaceOK, Setting, Loaded, Mode, FileMode
<1>3. CASE cfg[p] = "fill_new"
  BY <1>1, <1>3 DEF FreshOK, ModesOK, Loaded, Mode, FileMode
<1> QED
  BY <1>2, <1>3

LEMMA FreshStep == ASSUME HostInv, [Next]_vars PROVE FreshOK'
<1> SUFFICES ASSUME Regular' PROVE FreshOK'
  BY DEF FreshOK
<1> USE DEF HostInv, ConfigInv, ConfigTypeOK, FreshOK, Regular, Loaded, Mode, FileMode,
            CfgMoves, fileState, history, configVars
<1>1. CASE UNCHANGED vars \/ ChainWrites
  BY <1>1 DEF vars, ChainWrites
<1>2. ASSUME NEW p \in Proc, HostStep(p) PROVE FreshOK'
  <2>1. CASE \E command \in Commands : Invoke(p, command)
    BY <2>1 DEF Invoke, Boot
  <2>2. CASE ReadsAndWrites(p)
    <3>1. CASE Stat(p)
      BY <3>1 DEF Stat
    <3>2. CASE Load(p)
      <4>1. ~empty /\ exists /\ mem'[p]["validator"] = content["validator"]
        BY <3>2, CommandsAssumption DEF Load, Config, FileOK
      <4> QED
        BY <3>2, <4>1 DEF Load
    <3>3. CASE Truncate(p)
      BY <3>3 DEF Truncate
    <3>4. CASE Fill(p)
      BY <3>4 DEF Fill, FileOK
    <3> QED
      BY <2>2, <3>1, <3>2, <3>3, <3>4 DEF ReadsAndWrites, Writing
  <2>3. CASE Quits(p)
    BY <2>3 DEF Quits, Leave
  <2>4. CASE Dockers(p) \/ Reconfigs(p) \/ CallsDocker(p)
    BY <2>4 DEF Dockers, Reconfigs, ConfigRemovesChain, ConfigCleans, Clean, CallsDocker,
       StartChain, StopChain
  <2>5. CASE Changes(p)
    <3>1. PICK new : Change(p, new)
      BY <2>5 DEF Changes, ConfigAsks, SetKey, DaemonSaves
    <3>2. dirty[p] = {} /\ cfg[p] = "ready"
      BY <3>1 DEF Change, DirtyOK
    <3>3. dirty'[p] = {f \in Field : new[f] # mem[p][f]} /\ mem'[p] = new
      BY <3>1 DEF Change
    <3>4. "validator" \notin dirty'[p] => mem'[p]["validator"] = mem[p]["validator"]
      BY <3>3, CommandsAssumption
    <3>5. /\ UNCHANGED <<fileState, outdated, stale, torn>>
          /\ cfg' = [cfg EXCEPT ![p] = "truncate"]
          /\ \A q \in Proc \ {p} : mem'[q] = mem[q] /\ dirty'[q] = dirty[q]
      BY <3>1 DEF Change
    <3> QED
      BY <3>2, <3>4, <3>5
  <2> QED
    BY <1>2, <2>1, <2>2, <2>3, <2>4, <2>5 DEF HostStep
<1> QED
  BY <1>1, <1>2, Steps

\* What a step leaves of a history without disturbances.
LEMMA StaysUndisturbed == ASSUME HostInv, [Next]_vars, Undisturbed' PROVE Undisturbed
<1> USE DEF Undisturbed
<1>1. ASSUME [ConfigNext]_configVars PROVE ~torn /\ ~stale
  <2>1. CASE UNCHANGED <<torn, stale>>
    BY <2>1
  <2>2. ASSUME NEW p \in Proc, Load(p) PROVE ~torn /\ ~stale
    BY <2>2 DEF Load
  <2>3. ASSUME NEW p \in Proc, Fill(p) PROVE ~torn /\ ~stale
    BY <2>3 DEF Fill
  <2> QED
    BY <1>1, <2>1, <2>2, <2>3 DEF ConfigNext, Starting, Writing, Boot, Stat, Truncate, Leave,
       Change, history, configVars
<1>2. ~overlapped
  <2>1. ASSUME NEW p \in Proc, HostStep(p) PROVE ~overlapped
    BY <2>1 DEF HostStep, Invoke, ReadsAndWrites, Quits, Ends, Dockers, Reconfigs,
       ConfigRemovesChain, ConfigCleans, Clean, Changes, ConfigAsks, SetKey, DaemonSaves,
       CallsDocker, StartChain, StopChain, Moves, commandVars
  <2> QED
    BY <2>1, Steps DEF vars, commandVars, ChainWrites
<1> QED
  BY <1>1, <1>2, StepOfConfig

LEMMA AgreeStep == ASSUME HostInv, [Next]_vars PROVE AgreeOK'
<1> SUFFICES ASSUME Undisturbed' PROVE AgreeOK'
  BY DEF AgreeOK
<1> USE DEF HostInv, ConfigInv, ConfigTypeOK, CommandTypes, AgreeOK, Loaded, Mode, FileMode,
            Setting, CfgMoves, fileState, history, configVars, commandVars
<1>0. Undisturbed
  BY StaysUndisturbed
<1>1. CASE UNCHANGED vars \/ ChainWrites
  BY <1>0, <1>1 DEF vars, ChainWrites
<1>2. ASSUME NEW p \in Proc, HostStep(p) PROVE AgreeOK'
  <2>1. CASE \E command \in Commands : Invoke(p, command)
    BY <1>0, <2>1 DEF Invoke, Boot, ChainCommands
  <2>2. CASE ReadsAndWrites(p)
    <3>0. UNCHANGED <<cmd, pos>>
      BY <2>2 DEF ReadsAndWrites
    <3>1. CASE Stat(p)
      BY <1>0, <3>0, <3>1 DEF Stat
    <3>2. CASE Load(p)
      <4>1. mem'[p]["validator"] = content["validator"]
        BY <3>2, CommandsAssumption DEF Load, Config, Undisturbed
      <4> QED
        BY <1>0, <3>0, <3>2, <4>1 DEF Load
    <3>3. CASE Truncate(p)
      BY <1>0, <3>0, <3>3 DEF Truncate
    <3>4. CASE Fill(p) /\ ~Setting(p)
      <4>1. content'["validator"] = content["validator"]
        BY <3>4, FillKeepsMode DEF Regular, Undisturbed
      <4>2. cfg[p] = "fill" => mem[p]["validator"] = content'["validator"]
        BY <3>4 DEF Fill
      <4> QED
        BY <1>0, <3>0, <3>4, <4>1, <4>2 DEF Fill
    <3>5. CASE Fill(p) /\ Setting(p)
      <4>1. \A q \in Proc \ {p} : cmd[q] \notin ChainCommands
        BY <1>0, <3>5 DEF AloneOK, Undisturbed
      <4> QED
        BY <1>0, <3>0, <3>5, <4>1 DEF Fill
    <3> QED
      BY <2>2, <3>1, <3>2, <3>3, <3>4, <3>5 DEF ReadsAndWrites, Writing
  <2>3. CASE Quits(p)
    BY <1>0, <2>3 DEF Quits, Leave, Ends, ChainCommands
  <2>4. CASE Dockers(p)
    BY <1>0, <2>4 DEF Dockers
  <2>5. CASE Reconfigs(p) \/ CallsDocker(p)
    BY <1>0, <2>5 DEF Reconfigs, ConfigRemovesChain, ConfigCleans, Clean, CallsDocker,
       StartChain, StopChain, Moves, At, Configured
  <2>6. CASE Changes(p)
    <3>1. PICK new : Change(p, new)
      BY <2>6 DEF Changes, ConfigAsks, SetKey, DaemonSaves
    <3>2. /\ UNCHANGED content
          /\ cfg' = [cfg EXCEPT ![p] = "truncate"]
          /\ \A q \in Proc \ {p} : mem'[q] = mem[q]
      BY <3>1 DEF Change
    <3>3. /\ UNCHANGED cmd
          /\ \A q \in Proc \ {p} : pos'[q] = pos[q]
          /\ cmd[p] \in ChainCommands => cmd[p] = "config" /\ pos'[p] = "saving"
      BY <2>6 DEF Changes, ConfigAsks, SetKey, DaemonSaves, Moves, At, Configured, ChainCommands
    <3> QED
      BY <1>0, <3>2, <3>3
  <2> QED
    BY <1>2, <2>1, <2>2, <2>3, <2>4, <2>5, <2>6 DEF HostStep
<1> QED
  BY <1>1, <1>2, Steps

LEMMA ChainStep == ASSUME HostInv, [Next]_vars PROVE ChainOK'
<1> SUFFICES ASSUME Undisturbed' PROVE ChainOK'
  BY DEF ChainOK
<1> USE DEF HostInv, ConfigInv, ConfigTypeOK, CommandTypes, ChainOK, Loaded, Mode, FileMode,
            Setting, Removed, CfgMoves, fileState, history, configVars, opsVars, commandVars
<1>0. Undisturbed
  BY StaysUndisturbed
<1>1. CASE UNCHANGED vars
  BY <1>0, <1>1 DEF vars
<1>2. CASE ChainWrites
  <2>1. box.running => box.there
    BY DEF OpsInv, IdsOK
  <2> QED
    BY <1>0, <1>2, <2>1 DEF ChainWrites
<1>3. ASSUME NEW p \in Proc, HostStep(p) PROVE ChainOK'
  <2>1. CASE \E command \in Commands : Invoke(p, command)
    BY <1>0, <2>1 DEF Invoke, Boot
  <2>2. CASE ReadsAndWrites(p)
    <3>0. UNCHANGED <<box, call, cmd, pos, chainData>>
      BY <2>2 DEF ReadsAndWrites
    <3>1. CASE Stat(p)
      BY <1>0, <3>0, <3>1 DEF Stat
    <3>2. CASE Load(p)
      BY <1>0, <3>0, <3>2 DEF Load, PlaceOK
    <3>3. CASE Truncate(p)
      BY <1>0, <3>0, <3>3 DEF Truncate
    <3>4. CASE Fill(p) /\ ~Setting(p)
      <4>1. content'["validator"] = content["validator"]
        BY <3>4, FillKeepsMode DEF Regular, Undisturbed
      <4> QED
        BY <1>0, <3>0, <3>4, <4>1 DEF Fill
    <3>5. CASE Fill(p) /\ Setting(p)
      BY <1>0, <3>0, <3>5 DEF Fill
    <3> QED
      BY <2>2, <3>1, <3>2, <3>3, <3>4, <3>5 DEF ReadsAndWrites, Writing
  <2>3. CASE Quits(p)
    <3>1. UNCHANGED <<box, content, chainData>>
      BY <2>3 DEF Quits, Leave, Ends
    <3>2. cmd'[p] = "none" /\ \A q \in Proc \ {p} :
            cmd'[q] = cmd[q] /\ pos'[q] = pos[q] /\ cfg'[q] = cfg[q] /\ call'[q] = call[q]
      BY <2>3 DEF Quits, Leave, Ends, OpsInv, OpsTypeOK
    <3> QED
      BY <1>0, <3>1, <3>2
  <2>4. CASE Dockers(p)
    <3>0. UNCHANGED <<content, cfg, cmd, pos, chainData>>
      BY <2>4 DEF Dockers
    <3>1. \A q \in Proc \ {p} : call'[q] = call[q]
      BY <2>4 DEF Dockers, Works, OpsInv, OpsTypeOK
    <3>2. CASE call[p] \in StartCalls
      <4>1. cmd[p] \in ChainCommands /\ pos[p] = "starting" /\ cfg[p] = "ready"
        BY <3>2 DEF PlaceOK
      <4>2. want[p].args = content["validator"]
        BY <1>0, <3>2, <4>1 DEF PlaceOK, AgreeOK
      <4>3. \A q \in Proc : ~Removed(q)
        BY <1>0, <4>1 DEF AloneOK, Undisturbed
      <4>4. \A q \in Proc : ~Removed(q)'
        BY <3>0, <3>1, <4>1, <4>3
      <4>5. box'.there => box'.args = content["validator"]
        BY <1>0, <2>4, <4>2 DEF Dockers, Works
      <4> QED
        BY <1>0, <3>0, <4>4, <4>5
    <3>3. CASE call[p] \notin StartCalls
      <4>1. box'.there => box.there /\ box'.args = box.args
        BY <2>4, <3>3 DEF Dockers, Works
      <4>2. (pos[p] = "removing" /\ call'[p] = "ok") => ~box'.there
        BY <2>4 DEF Dockers, Works, PlaceOK, InCall, Outcomes
      <4> QED
        BY <1>0, <3>0, <3>1, <4>1, <4>2
    <3> QED
      BY <3>2, <3>3
  <2>5. CASE Reconfigs(p)
    <3>1. CASE ConfigRemovesChain(p)
      BY <1>0, <3>1 DEF ConfigRemovesChain, CallRemove, Goes, Moves, OpsInv, OpsTypeOK
    <3>2. CASE ConfigCleans(p)
      BY <1>0, <3>2 DEF ConfigCleans, CallDone, Moves, At
    <3>3. CASE Clean(p)
      BY <1>0, <3>3 DEF Clean, At
    <3> QED
      BY <2>5, <3>1, <3>2, <3>3 DEF Reconfigs
  <2>6. CASE Changes(p)
    <3>1. PICK new : Change(p, new)
      BY <2>6 DEF Changes, ConfigAsks, SetKey, DaemonSaves
    <3>2. UNCHANGED content /\ cfg' = [cfg EXCEPT ![p] = "truncate"] /\ cfg[p] = "ready"
      BY <3>1 DEF Change
    <3>3. /\ UNCHANGED <<cmd, box, call, chainData>>
          /\ \A q \in Proc \ {p} : pos'[q] = pos[q]
      BY <2>6 DEF Changes, ConfigAsks, SetKey, DaemonSaves, Moves
    <3>4. CASE ConfigAsks(p)
      <4>1. ~box.there /\ chainData = NoData
        <5>1. CASE At(p, "config", "ask")
          BY <1>0, <5>1 DEF At
        <5>2. CASE At(p, "config", "main") /\ mem[p]["validator"] = Blank
          <6>1. content["validator"] = Blank
            BY <1>0, <5>2 DEF AgreeOK, At, ChainCommands
          <6>2. box.args \in Modes /\ Blank \notin Modes
            BY CommandsAssumption, ConfigAssumption DEF OpsInv, OpsTypeOK, Boxes
          <6> QED
            BY <1>0, <6>1, <6>2
        <5> QED
          BY <3>4, <5>1, <5>2 DEF ConfigAsks
      <4> QED
        BY <1>0, <3>2, <3>3, <4>1
    <3>5. CASE ~ConfigAsks(p)
      <4>1. ~Removed(p)' /\ (cmd'[p] = "config" => pos'[p] \notin {"ask", "saving"})
        BY <2>6, <3>5 DEF Changes, SetKey, DaemonSaves, Moves, At, Configured
      <4> QED
        BY <1>0, <3>2, <3>3, <4>1
    <3> QED
      BY <3>4, <3>5
  <2>7. CASE CallsDocker(p)
    <3>1. /\ UNCHANGED <<content, cfg, box, cmd, chainData>>
          /\ pos'[p] \in {"starting", "stopping"}
          /\ \A q \in Proc \ {p} : pos'[q] = pos[q] /\ call'[q] = call[q]
      BY <2>7 DEF CallsDocker, StartChain, StopChain, CallStart, CallStop, Goes, Moves,
         OpsInv, OpsTypeOK
    <3> QED
      BY <1>0, <3>1
  <2> QED
    BY <1>3, <2>1, <2>2, <2>3, <2>4, <2>5, <2>6, <2>7 DEF HostStep
<1> QED
  BY <1>1, <1>2, <1>3, Steps

\* Modes, places and copies fit together in every reachable state.
THEOREM HostInvariant == Spec => []HostInv
<1>1. HostInv /\ [Next]_vars => HostInv'
  BY BothStep, CommandTypesStep, ModesStep, PlaceStep, AloneStep, FreshStep, AgreeStep,
     ChainStep DEF HostInv
<1> QED
  BY <1>1, HostInvInit, PTL DEF Spec

-----------------------------------------------------------------------------
\* Every variable of the commands keeps its type.
THEOREM HostTypes == Spec => []TypeOK
<1>1. HostInv => TypeOK
  BY DEF HostInv, ConfigInv, OpsInv, CommandTypes, TypeOK
<1> QED
  BY <1>1, HostInvariant, PTL

\* The commands are processes as ManagerConfig has them.
THEOREM CommandsUseConfig == Spec => ConfigSpec
<1>1. Init => ConfigInit
  BY DEF Init
<1>2. HostInv /\ [Next]_vars => [ConfigNext]_configVars
  BY StepOfConfig
<1> QED
  BY <1>1, <1>2, HostInvariant, PTL DEF Spec, ConfigSpec

\* The commands are callers as ContainerOps has them.
THEOREM CommandsUseOps == Spec => OpsSpec
<1>1. Init => OpsInit
  BY DEF Init
<1>2. HostInv /\ [Next]_vars => [OpsNext]_opsVars
  BY StepOfOps
<1> QED
  BY <1>1, <1>2, HostInvariant, PTL DEF Spec, OpsSpec

\* No command loses a saved setting, whatever fails.
THEOREM CommandsKeepSettings == Spec => []AcceptedKept
  BY CommandsUseConfig, SavedSettingsKept, PTL

\* Of starts of the chain that run into each other one prevails.
THEOREM ChainStarts == Spec => []StartsPrevail
  BY CommandsUseOps, SomeStartPrevails, PTL

\* A start that reports success has seen the chain's container run.
THEOREM ChainSuccessIsReal == Spec => SuccessMeansRunning
  BY CommandsUseOps, SuccessIsReal, PTL

\* The chain's container has the mode that is configured.
THEOREM ModeIsConfigured == Spec => []ModeAsConfigured
<1>1. HostInv => ModeAsConfigured
  BY DEF HostInv, ChainOK, FileMode, ModeAsConfigured
<1> QED
  BY <1>1, HostInvariant, PTL

\* The chain runs on data of its own mode.
THEOREM DataIsOfMode == Spec => []ChainDataMatches
<1>1. HostInv => ChainDataMatches
  BY DEF HostInv, ChainOK, FileMode, ChainDataMatches, OpsInv, IdsOK
<1> QED
  BY <1>1, HostInvariant, PTL
=============================================================================
