------------------------- MODULE NodeUpgradeProofs -------------------------
(***************************************************************************)
(* Proofs about NodeUpgrade, for every value of its constants.             *)
(***************************************************************************)
EXTENDS NodeUpgradeInv, TLAPS

-----------------------------------------------------------------------------
(* Facts about the data.                                                   *)

\* The enclave of an image, and the fields of images and helpers.
LEMMA ImageFacts ==
  \A i \in Images : /\ EnclaveOf(i) \in Enclaves
                    /\ i.version \in Versions
                    /\ i # NoImage
BY HostAssumption DEF Images, Enclaves, EnclaveOf

\* A stopped and a fresh helper hold nothing.
LEMMA HelperFacts ==
  /\ NoHelper \in Helpers /\ ~NoHelper.up /\ ~NoHelper.secret /\ ~NoHelper.delivered
  /\ FreshHelper \in Helpers
  /\ FreshHelper.up /\ ~FreshHelper.secret /\ ~FreshHelper.delivered
BY DEF NoHelper, FreshHelper, Helpers

\* The flags a helper raises, and those it leaves alone.
LEMMA HelperUpdates ==
  ASSUME NEW h \in Helpers
  PROVE  /\ [h EXCEPT !.secret = TRUE] \in Helpers
         /\ [h EXCEPT !.secret = TRUE].up = h.up
         /\ [h EXCEPT !.secret = TRUE].secret
         /\ [h EXCEPT !.secret = TRUE].delivered = h.delivered
         /\ [h EXCEPT !.delivered = TRUE] \in Helpers
         /\ [h EXCEPT !.delivered = TRUE].up = h.up
         /\ [h EXCEPT !.delivered = TRUE].secret = h.secret
         /\ [h EXCEPT !.delivered = TRUE].delivered
BY DEF Helpers

\* A failure is one of the kinds allowed, and the budget bounds them.
LEMMA FaultFacts ==
  ASSUME faults \in 0 .. MaxFaults, failed \subseteq FaultKinds, NEW k
  PROVE  /\ Fault(k) => faults' \in 0 .. MaxFaults /\ failed' \subseteq FaultKinds
         /\ NoFault => faults' \in 0 .. MaxFaults /\ failed' \subseteq FaultKinds
BY HostAssumption DEF Fault, NoFault

\* Every docker operation on the dcstorage container keeps its state typed
\* and lets only a container run and only a running one serve.
LEMMA NodeOperations ==
  ASSUME NodeTypeOK, ContainerOK
  PROVE  /\ StopNode => NodeTypeOK' /\ ContainerOK'
         /\ RunNode => NodeTypeOK' /\ ContainerOK'
         /\ RemoveNode => NodeTypeOK' /\ ContainerOK'
         /\ \A i \in Images : CreateNode(i) => NodeTypeOK' /\ ContainerOK'
         /\ UNCHANGED nodeVars => NodeTypeOK' /\ ContainerOK'
<1>1. StopNode => NodeTypeOK' /\ ContainerOK'
  BY DEF StopNode, NodeTypeOK, ContainerOK
<1>2. RunNode => NodeTypeOK' /\ ContainerOK'
  BY DEF RunNode, NodeTypeOK, ContainerOK
<1>3. RemoveNode => NodeTypeOK' /\ ContainerOK'
  BY DEF RemoveNode, NodeTypeOK, ContainerOK
<1>4. \A i \in Images : CreateNode(i) => NodeTypeOK' /\ ContainerOK'
  BY DEF CreateNode, NodeTypeOK, ContainerOK
<1>5. UNCHANGED nodeVars => NodeTypeOK' /\ ContainerOK'
  BY DEF nodeVars, NodeTypeOK, ContainerOK
<1> QED
  BY <1>1, <1>2, <1>3, <1>4, <1>5

-----------------------------------------------------------------------------
(* Type correctness.                                                       *)

\* A freshly installed node satisfies the base invariant.
LEMMA BaseInit == Init => BaseInv
<1> SUFFICES ASSUME Init PROVE BaseInv
  OBVIOUS
<1>1. HostTypeOK
  <2>1. image \in Images /\ sealed \subseteq Enclaves
    BY ImageFacts DEF Init, HostInit
  <2>2. faults \in 0 .. MaxFaults /\ failed \subseteq FaultKinds
    BY HostAssumption DEF Init, HostInit
  <2> QED
    BY <2>1, <2>2, HelperFacts DEF Init, HostInit, HostTypeOK, NodeTypeOK
<1>2. DaemonTypeOK
  BY DaemonAssumption DEF Init, HostInit, DaemonInit, DaemonTypeOK, DaemonPcs
<1>3. CliTypeOK
  BY DEF Init, CliTypeOK, CliPcs
<1>4. MemoryOK /\ ContainerOK /\ StageOK
  BY DEF Init, HostInit, DaemonInit, MemoryOK, ContainerOK, StageOK, Before, After,
         Upgrading
<1> QED
  BY <1>1, <1>2, <1>3, <1>4 DEF BaseInv, TypeOK

\* What a mismatch changes: at most the container, which it stops.
LEMMA MismatchStops ==
  EnclaveMismatch =>
    /\ Return("verify")
    /\ (StopNode /\ NoFault) \/ (Fault("stop") /\ UNCHANGED nodeVars)
    /\ UNCHANGED <<nodeImage, errCount, fileVars, helper, sealed>>
BY Zenon DEF EnclaveMismatch

\* Each action of the daemon preserves the base invariant.
LEMMA BaseDaemon == BaseInv /\ Daemon /\ UNCHANGED cliVars => BaseInv'
<1> SUFFICES ASSUME BaseInv, Daemon, UNCHANGED cliVars PROVE BaseInv'
  OBVIOUS
<1> USE HostAssumption, DaemonAssumption, ImageFacts, HelperFacts
    DEF BaseInv, TypeOK, HostTypeOK, NodeTypeOK, DaemonTypeOK, CliTypeOK, MemoryOK,
        ContainerOK, StageOK, DaemonPcs, Before, After, Placing,
        hostVars, nodeVars, fileVars, cliVars, Goto, Return, PollAgain,
        PollsExhausted, Killed, Upgrading, Fault, NoFault
<1>1. CASE DaemonBoot
  BY <1>1 DEF DaemonBoot
<1>2. CASE Tick
  BY <1>2 DEF Tick, CmdStart
<1>3. CASE CheckStatus
  BY <1>3 DEF CheckStatus, StatusUp, StatusDown
<1>4. CASE EnsurePccs
  BY <1>4 DEF EnsurePccs
<1>5. CASE ListNode
  BY <1>5 DEF ListNode
<1>6. CASE CreateFails
  BY <1>6 DEF CreateFails
<1>7. CASE Create
  <2>1. NodeTypeOK' /\ ContainerOK'
    BY <1>7, NodeOperations DEF Create
  <2> QED
    BY <1>7, <2>1 DEF Create, CreateNode
<1>8. CASE Run
  <2>1. NodeTypeOK' /\ ContainerOK'
    BY <1>8, NodeOperations DEF Run
  <2> QED
    BY <1>8, <2>1 DEF Run, RunNode, Started
<1>9. CASE VersionUnknown
  BY <1>9 DEF VersionUnknown, VersionError
<1>10. CASE AssistNode
  BY <1>10 DEF AssistNode, VersionError, StartHelper
<1>11. CASE NothingToDo
  BY <1>11 DEF NothingToDo
<1>12. CASE ChooseUpgrade
  BY <1>12 DEF ChooseUpgrade, UpgradeWanted, Obtainable
<1>13. CASE CloseHelper
  BY <1>13 DEF CloseHelper, StopHelper
<1>14. CASE LaunchHelper
  BY <1>14 DEF LaunchHelper, StartHelper
<1>15. CASE SecretCollected
  BY <1>15 DEF SecretCollected
<1>16. CASE SecretAwaited
  BY <1>16 DEF SecretAwaited
<1>17. CASE SecretTimeout
  BY <1>17 DEF SecretTimeout
<1>18. CASE StopOld
  <2>1. NodeTypeOK' /\ ContainerOK'
    BY <1>18, NodeOperations DEF StopOld
  <2> QED
    BY <1>18, <2>1 DEF StopOld, StopNode
<1>19. CASE RemoveOld
  <2>1. NodeTypeOK' /\ ContainerOK'
    BY <1>19, NodeOperations DEF RemoveOld
  <2> QED
    BY <1>19, <2>1 DEF RemoveOld, RemoveNode
<1>20. CASE NewNodeReady
  BY <1>20 DEF NewNodeReady
<1>21. CASE NewNodeAwaited
  BY <1>21 DEF NewNodeAwaited
<1>22. CASE NewNodeTimeout
  BY <1>22 DEF NewNodeTimeout
<1>23. CASE ReleaseHelper
  BY <1>23 DEF ReleaseHelper, StopHelper
<1>24. CASE Save
  BY <1>24 DEF Save
<1>25. CASE VerifyAwaited
  BY <1>25 DEF VerifyAwaited
<1>26. CASE VerifyFails
  BY <1>26 DEF VerifyFails
<1>27. CASE EnclaveMismatch
  <2>1. NodeTypeOK' /\ ContainerOK'
    BY <1>27, MismatchStops, NodeOperations
  <2> QED
    BY <1>27, <2>1, MismatchStops
<1>28. CASE HandOver
  BY <1>28 DEF HandOver
<1>29. CASE VersionKnown
  BY <1>29 DEF VersionKnown
<1>30. CASE Fetched
  BY <1>30 DEF Fetched
<1>31. CASE FetchFails
  BY <1>31 DEF FetchFails
<1> QED
  BY <1>1, <1>2, <1>3, <1>4, <1>5, <1>6, <1>7, <1>8, <1>9, <1>10, <1>11, <1>12, <1>13, <1>14, <1>15, <1>16, <1>17, <1>18, <1>19, <1>20, <1>21, <1>22, <1>23, <1>24, <1>25, <1>26, <1>27, <1>28,
     <1>29, <1>30, <1>31
     DEF Daemon, Keep, Decide, HandKey, Replace, Complete

\* So does each action of a command.
LEMMA BaseCli == ASSUME BaseInv, NEW c \in Cli, CliStep(c) PROVE BaseInv'
<1> USE HostAssumption, ImageFacts
    DEF BaseInv, TypeOK, HostTypeOK, NodeTypeOK, DaemonTypeOK, CliTypeOK, MemoryOK,
        ContainerOK, StageOK, CliPcs, Before, After, Upgrading, hostVars, nodeVars,
        daemonVars, fileVars, CliMoves, CliGoto, CliExit, Fault, NoFault
<1>1. ASSUME NEW to \in {"pccs", "edit"}, CliBegin(c, to) PROVE BaseInv'
  BY <1>1 DEF CliBegin
<1>2. CASE CliPccs(c)
  BY <1>2 DEF CliPccs
<1>3. CASE CliList(c)
  BY <1>3 DEF CliList
<1>4. CASE CliCreateFails(c)
  BY <1>4 DEF CliCreateFails
<1>5. CASE CliCreate(c)
  <2>1. NodeTypeOK' /\ ContainerOK'
    BY <1>5, NodeOperations DEF CliCreate
  <2> QED
    BY <1>5, <2>1 DEF CliCreate, CreateNode
<1>6. CASE CliRun(c)
  <2>1. NodeTypeOK' /\ ContainerOK'
    BY <1>6, NodeOperations DEF CliRun
  <2> QED
    BY <1>6, <2>1 DEF CliRun, RunNode
<1>7. CASE CliMarkStart(c)
  BY <1>7 DEF CliMarkStart, SetCmdState
<1>8. CASE CliMarkStop(c)
  BY <1>8 DEF CliMarkStop, SetCmdState
<1>9. CASE CliStop(c)
  <2>1. NodeTypeOK' /\ ContainerOK'
    BY <1>9, NodeOperations DEF CliStop
  <2> QED
    BY <1>9, <2>1 DEF CliStop, StopNode
<1>10. CASE CliSave(c)
  BY <1>10 DEF CliSave
<1>11. CASE CliFails(c)
  BY <1>11 DEF CliFails
<1> QED
  BY <1>1, <1>2, <1>3, <1>4, <1>5, <1>6, <1>7, <1>8, <1>9, <1>10, <1>11
     DEF CliStep, CliStart

\* So does whatever the containers do.
LEMMA BaseContainers == BaseInv /\ Outside(Containers) => BaseInv'
<1> SUFFICES ASSUME BaseInv, Outside(Containers) PROVE BaseInv'
  OBVIOUS
<1> USE HostAssumption, ImageFacts, HelperFacts
    DEF BaseInv, TypeOK, HostTypeOK, NodeTypeOK, DaemonTypeOK, CliTypeOK, MemoryOK,
        ContainerOK, StageOK, Before, After, Upgrading, hostVars, nodeVars,
        daemonVars, fileVars, cliVars, Outside, Fault
<1>1. CASE NodeServes
  BY <1>1 DEF NodeServes
<1>2. CASE HelperCollect
  BY <1>2, HelperUpdates DEF HelperCollect
<1>3. CASE HelperDeliver
  <2>1. sealed' \subseteq Enclaves
    BY <1>3 DEF HelperDeliver
  <2> QED
    BY <1>3, <2>1, HelperUpdates DEF HelperDeliver
<1>4. CASE NodeFault
  <2>1. NodeTypeOK' /\ ContainerOK' /\ UNCHANGED image
    BY <1>4 DEF NodeFault
  <2> QED
    BY <1>4, <2>1 DEF NodeFault
<1>5. CASE HelperFault
  BY <1>5 DEF HelperFault
<1> QED
  BY <1>1, <1>2, <1>3, <1>4, <1>5 DEF Containers

\* The base invariant is inductive.
LEMMA BaseStep == BaseInv /\ [Next]_vars => BaseInv'
<1> SUFFICES ASSUME BaseInv, [Next]_vars PROVE BaseInv'
  OBVIOUS
<1> USE DEF BaseInv, TypeOK, HostTypeOK, NodeTypeOK, DaemonTypeOK, CliTypeOK,
        MemoryOK, ContainerOK, StageOK, Before, After, Upgrading, hostVars, nodeVars,
        daemonVars, fileVars, cliVars
<1>1. CASE Daemon /\ UNCHANGED cliVars
  BY <1>1, BaseDaemon
<1>2. CASE DaemonKilled /\ UNCHANGED cliVars
  BY <1>2, HostAssumption, DaemonAssumption DEF DaemonKilled, Killed, Fault, DaemonPcs
<1>3. CASE \E c \in Cli : CliStep(c)
  BY <1>3, BaseCli
<1>4. CASE Outside(Containers)
  BY <1>4, BaseContainers
<1>5. CASE Publish
  BY <1>5 DEF Publish
<1>6. CASE HostFault
  <2>1. NodeTypeOK' /\ ContainerOK'
    BY <1>6 DEF HostFault, HostRestart
  <2>2. HostTypeOK'
    BY <1>6, <2>1, HostAssumption, HelperFacts DEF HostFault, HostRestart, Fault
  <2> QED
    BY <1>6, <2>1, <2>2, HostAssumption, DaemonAssumption
       DEF HostFault, Killed, DaemonPcs, CliPcs
<1>7. CASE UNCHANGED vars
  BY <1>7 DEF vars
<1> QED
  BY <1>1, <1>2, <1>3, <1>4, <1>5, <1>6, <1>7 DEF Next

\* The base invariant holds of every behaviour, whatever fails.
LEMMA BaseInvariant == Spec => []BaseInv
BY BaseInit, BaseStep, PTL DEF Spec

\* Type correctness of the node, its daemon and its commands.
THEOREM TypeCorrect == Spec => []TypeOK
<1>1. BaseInv => TypeOK
  BY DEF BaseInv
<1> QED
  BY <1>1, BaseInvariant, PTL

-----------------------------------------------------------------------------
(* The configured image can always unseal the key.                         *)

\* Initially the volume holds the key for the one image there is.
LEMMA SealedInit == Init => SealedInv
<1> SUFFICES ASSUME Init PROVE SealedInv
  OBVIOUS
<1>1. BaseInv
  BY BaseInit
<1>2. HelperOK
  BY HelperFacts DEF Init, HostInit, HelperOK
<1>3. KeySealed
  BY DEF Init, HostInit, DaemonInit, KeySealed, CopiesSealed, OldSealed, FlagFresh,
         Sealed, Before, Placing
<1> QED
  BY <1>1, <1>2, <1>3 DEF SealedInv

\* Each action of the daemon preserves the sealing of the key.
LEMMA SealedDaemon ==
  ASSUME StopWorks', Sgx2, BaseInv, HelperOK, KeySealed, Daemon, UNCHANGED cliVars
  PROVE  KeySealed'
<1>0. /\ MemoryOK /\ ContainerOK /\ StageOK
      /\ savedImage \in Images /\ helper \in Helpers
  BY DEF BaseInv, TypeOK, HostTypeOK, DaemonTypeOK
<1> USE <1>0, ImageFacts, HelperFacts
    DEF KeySealed, CopiesSealed, OldSealed, FlagFresh, Sealed, HelperOK, MemoryOK,
        ContainerOK, StageOK, Before, Placing, After, Upgrading, hostVars, nodeVars,
        fileVars, cliVars, Goto, Return, PollAgain, Killed, NoFault
<1>1. CASE DaemonBoot
  BY <1>1 DEF DaemonBoot
<1>2. CASE Tick
  BY <1>2 DEF Tick, CmdStart
<1>3. CASE CheckStatus
  BY <1>3 DEF CheckStatus, StatusUp, StatusDown
<1>4. CASE EnsurePccs
  BY <1>4 DEF EnsurePccs
<1>5. CASE ListNode
  BY <1>5 DEF ListNode
<1>6. CASE CreateFails
  BY <1>6 DEF CreateFails
<1>7. CASE Create
  BY <1>7 DEF Create, CreateNode
<1>8. CASE Run
  BY <1>8 DEF Run, RunNode, Started
<1>9. CASE VersionUnknown
  BY <1>9 DEF VersionUnknown, VersionError
<1>10. CASE AssistNode
  BY <1>10 DEF AssistNode, VersionError, StartHelper
<1>11. CASE NothingToDo
  BY <1>11 DEF NothingToDo
<1>12. CASE ChooseUpgrade
  BY <1>12 DEF ChooseUpgrade, Obtainable
<1>13. CASE CloseHelper
  BY <1>13 DEF CloseHelper, StopHelper, Fault, StopWorks
<1>14. CASE LaunchHelper
  BY <1>14 DEF LaunchHelper, StartHelper
<1>15. CASE SecretCollected
  BY <1>15 DEF SecretCollected
<1>16. CASE SecretAwaited
  BY <1>16 DEF SecretAwaited
<1>17. CASE SecretTimeout
  BY <1>17 DEF SecretTimeout
<1>18. CASE StopOld
  BY <1>18 DEF StopOld, StopNode, Fault, StopWorks
<1>19. CASE RemoveOld
  BY <1>19 DEF RemoveOld, RemoveNode
<1>20. CASE NewNodeReady
  BY <1>20 DEF NewNodeReady
<1>21. CASE NewNodeAwaited
  BY <1>21 DEF NewNodeAwaited
<1>22. CASE NewNodeTimeout
  BY <1>22 DEF NewNodeTimeout
<1>23. CASE ReleaseHelper
  BY <1>23 DEF ReleaseHelper, StopHelper, Fault, StopWorks
<1>24. CASE Save
  BY <1>24 DEF Save
<1>25. CASE VerifyAwaited
  BY <1>25 DEF VerifyAwaited
<1>26. CASE VerifyFails
  BY <1>26 DEF VerifyFails
<1>27. CASE EnclaveMismatch
  BY <1>27, MismatchStops DEF StopNode
<1>28. CASE HandOver
  BY <1>28 DEF HandOver
<1>29. CASE VersionKnown
  BY <1>29 DEF VersionKnown
<1>30. CASE Fetched
  BY <1>30 DEF Fetched
<1>31. CASE FetchFails
  BY <1>31 DEF FetchFails
<1> QED
  BY <1>1, <1>2, <1>3, <1>4, <1>5, <1>6, <1>7, <1>8, <1>9, <1>10, <1>11, <1>12, <1>13, <1>14, <1>15, <1>16, <1>17, <1>18, <1>19, <1>20, <1>21, <1>22, <1>23, <1>24, <1>25, <1>26, <1>27, <1>28,
     <1>29, <1>30, <1>31
     DEF Daemon, Keep, Decide, HandKey, Replace, Complete

\* Each action of a command does, too: a command only writes an image it
\* has read from the configuration.
LEMMA SealedCli ==
  ASSUME Sgx2, BaseInv, KeySealed, NEW c \in Cli, CliStep(c)
  PROVE  KeySealed'
<1>0. /\ MemoryOK /\ ContainerOK /\ StageOK
      /\ savedImage \in Images /\ CliTypeOK
  BY DEF BaseInv, TypeOK, DaemonTypeOK
<1> USE <1>0, ImageFacts
    DEF KeySealed, CopiesSealed, OldSealed, FlagFresh, Sealed, MemoryOK, CliTypeOK,
        ContainerOK, StageOK, Before, Placing, After, Upgrading, hostVars, nodeVars,
        daemonVars, fileVars, CliMoves, CliGoto, CliExit
<1>1. ASSUME NEW to \in {"pccs", "edit"}, CliBegin(c, to) PROVE KeySealed'
  BY <1>1 DEF CliBegin
<1>2. CASE CliPccs(c)
  BY <1>2 DEF CliPccs
<1>3. CASE CliList(c)
  BY <1>3 DEF CliList
<1>4. CASE CliCreateFails(c)
  BY <1>4 DEF CliCreateFails
<1>5. CASE CliCreate(c)
  BY <1>5 DEF CliCreate, CreateNode
<1>6. CASE CliRun(c)
  BY <1>6 DEF CliRun, RunNode
<1>7. CASE CliMarkStart(c)
  BY <1>7 DEF CliMarkStart, SetCmdState
<1>8. CASE CliMarkStop(c)
  BY <1>8 DEF CliMarkStop, SetCmdState
<1>9. CASE CliStop(c)
  BY <1>9 DEF CliStop, StopNode
<1>10. CASE CliSave(c)
  BY <1>10 DEF CliSave
<1>11. CASE CliFails(c)
  BY <1>11 DEF CliFails
<1> QED
  BY <1>1, <1>2, <1>3, <1>4, <1>5, <1>6, <1>7, <1>8, <1>9, <1>10, <1>11
     DEF CliStep, CliStart

\* So does whatever the containers do: the helper delivers the key only to
\* an enclave that cannot unseal it, which is that of the new image.
LEMMA SealedContainers ==
  ASSUME Sgx2, BaseInv, HelperOK, KeySealed, Outside(Containers)
  PROVE  KeySealed'
<1>0. /\ MemoryOK /\ ContainerOK /\ StageOK
      /\ savedImage \in Images /\ helper \in Helpers
  BY DEF BaseInv, TypeOK, DaemonTypeOK, HostTypeOK
<1> USE <1>0, ImageFacts, HelperFacts
    DEF KeySealed, CopiesSealed, OldSealed, FlagFresh, Sealed, HelperOK, MemoryOK,
        ContainerOK, StageOK, Before, Placing, After, Upgrading, hostVars, nodeVars,
        daemonVars, fileVars, cliVars, Outside
<1>1. CASE NodeServes
  BY <1>1 DEF NodeServes, CanUnseal
<1>2. CASE HelperCollect
  BY <1>2, HelperUpdates DEF HelperCollect
<1>3. CASE HelperDeliver
  BY <1>3, HelperUpdates DEF HelperDeliver, CanUnseal
<1>4. CASE NodeFault
  BY <1>4 DEF NodeFault
<1>5. CASE HelperFault
  BY <1>5 DEF HelperFault
<1> QED
  BY <1>1, <1>2, <1>3, <1>4, <1>5 DEF Containers

\* A helper that is down holds nothing.
LEMMA HelperStep ==
  ASSUME BaseInv, HelperOK, [Next]_vars
  PROVE  HelperOK'
<1>0. helper \in Helpers
  BY DEF BaseInv, TypeOK, HostTypeOK
<1> USE <1>0, HelperFacts DEF HelperOK
<1>1. CASE Daemon /\ UNCHANGED cliVars
  <2>1. UNCHANGED helper \/ StartHelper \/ StopHelper
    BY <1>1 DEF Daemon, Keep, Decide, HandKey, Replace, Complete, hostVars, nodeVars,
         DaemonBoot, Tick, CmdStart, CheckStatus, StatusUp, StatusDown, EnsurePccs, ListNode,
         CreateFails, Create, Run, VersionUnknown, AssistNode,
         VersionKnown, NothingToDo, ChooseUpgrade, Obtainable, Fetched, FetchFails, CloseHelper, LaunchHelper, SecretCollected,
         SecretAwaited, SecretTimeout, StopOld, RemoveOld, NewNodeReady,
         NewNodeAwaited, NewNodeTimeout, ReleaseHelper, Save, VerifyAwaited,
         VerifyFails, EnclaveMismatch, HandOver
  <2> QED
    BY <2>1 DEF StartHelper, StopHelper
<1>2. CASE DaemonKilled /\ UNCHANGED cliVars
  BY <1>2 DEF DaemonKilled
<1>3. CASE \E c \in Cli : CliStep(c)
  <2>1. UNCHANGED helper
    BY <1>3 DEF CliStep, CliStart, CliFails, CliBegin, hostVars,
         CliPccs, CliList, CliCreateFails, CliCreate, CliRun,
         SetCmdState, CliMarkStart, CliMarkStop, CliStop, CliSave
  <2> QED
    BY <2>1
<1>4. CASE Outside(Containers)
  BY <1>4, HelperUpdates DEF Outside, Containers, NodeServes, HelperCollect,
     HelperDeliver, NodeFault, HelperFault
<1>5. CASE Publish
  BY <1>5 DEF Publish, hostVars
<1>6. CASE HostFault
  BY <1>6 DEF HostFault, HostRestart
<1>7. CASE UNCHANGED vars
  BY <1>7 DEF vars, hostVars
<1> QED
  BY <1>1, <1>2, <1>3, <1>4, <1>5, <1>6, <1>7 DEF Next

\* A failure that has occurred stays on record.
LEMMA FailuresStay == ASSUME [Next]_vars PROVE failed \subseteq failed'
<1> USE DEF hostVars, NoFault, Fault
<1>1. CASE Daemon
  BY <1>1 DEF Daemon, Keep, Decide, HandKey, Replace, Complete,
     DaemonBoot, Tick, CmdStart, CheckStatus, StatusUp, StatusDown, EnsurePccs, ListNode,
     CreateFails, Create, Run, VersionUnknown, AssistNode, VersionError, VersionKnown,
     NothingToDo, ChooseUpgrade, Fetched, FetchFails, CloseHelper, LaunchHelper,
     SecretCollected, SecretAwaited, SecretTimeout, StopOld, RemoveOld, NewNodeReady,
     NewNodeAwaited, NewNodeTimeout, ReleaseHelper, Save, VerifyAwaited,
     VerifyFails, EnclaveMismatch, HandOver
<1>2. CASE \E c \in Cli : CliStep(c)
  BY <1>2 DEF CliStep, CliStart, CliFails, CliBegin, CliPccs, CliList, CliCreateFails,
     CliCreate, CliRun, CliMarkStart, CliMarkStop, CliStop, CliSave
<1>3. CASE DaemonKilled \/ Outside(Containers) \/ Publish \/ HostFault \/ UNCHANGED vars
  BY <1>3 DEF DaemonKilled, Outside, Containers, NodeServes, HelperCollect,
     HelperDeliver, NodeFault, HelperFault, Publish, HostFault, HostRestart, vars
<1> QED
  BY <1>1, <1>2, <1>3 DEF Next

\* The sealing invariant is inductive.
LEMMA SealedStep == SealedInv /\ [Next]_vars => SealedInv'
<1> SUFFICES ASSUME SealedInv, [Next]_vars PROVE SealedInv'
  OBVIOUS
<1>1. BaseInv /\ HelperOK /\ (Sgx2 /\ StopWorks => KeySealed)
  BY DEF SealedInv
<1>2. BaseInv' /\ HelperOK'
  BY <1>1, BaseStep, HelperStep
<1>3. ASSUME Sgx2, StopWorks' PROVE KeySealed'
  <2>0. KeySealed
    BY <1>1, <1>3, FailuresStay DEF StopWorks
  <2>1. CASE Daemon /\ UNCHANGED cliVars
    BY <1>1, <1>3, <2>0, <2>1, SealedDaemon
  <2>2. CASE \E c \in Cli : CliStep(c)
    BY <1>1, <1>3, <2>0, <2>2, SealedCli
  <2>3. CASE Outside(Containers)
    BY <1>1, <1>3, <2>0, <2>3, SealedContainers
  <2> USE <1>1, <1>3, <2>0
      DEF KeySealed, CopiesSealed, OldSealed, FlagFresh, Sealed, Before, Placing,
          Upgrading, hostVars, nodeVars, daemonVars, fileVars, cliVars
  <2>4. CASE DaemonKilled /\ UNCHANGED cliVars
    BY <2>4 DEF DaemonKilled, Killed
  <2>5. CASE Publish
    BY <2>5 DEF Publish
  <2>6. CASE HostFault
    BY <2>6 DEF HostFault, HostRestart, Killed
  <2>7. CASE UNCHANGED vars
    BY <2>7 DEF vars
  <2> QED
    BY <2>1, <2>2, <2>3, <2>4, <2>5, <2>6, <2>7 DEF Next
<1> QED
  BY <1>2, <1>3 DEF SealedInv

\* Every reachable state satisfies it: the strengthening the runs check.
THEOREM SealedInvariant == Spec => []SealedInv
BY SealedInit, SealedStep, PTL DEF Spec

\* Whatever interleaving, crash or host restart: the image the configuration
\* names can read the node key, until docker fails to stop a container (the
\* code ignores that failure, stopUpgradeInDocker drops it).
THEOREM ConfiguredImageSafe == Spec => []ConfiguredImageCanUnseal
<1>1. SealedInv => ConfiguredImageCanUnseal
  BY DEF SealedInv, KeySealed, CopiesSealed, ConfiguredImageCanUnseal
<1> QED
  BY <1>1, SealedInvariant, PTL

-----------------------------------------------------------------------------
(* The key is never out of the node's reach.                               *)

\* Each action of the daemon keeps the key in hand.
LEMMA KeyDaemon ==
  ASSUME Sgx2, BaseInv, HelperOK, KeySealed, KeyInHand, Daemon, UNCHANGED cliVars
  PROVE  KeyInHand'
<1>0. MemoryOK /\ ContainerOK /\ StageOK
  BY DEF BaseInv
<1> USE <1>0, ImageFacts, HelperFacts
    DEF KeyInHand, KeySealed, CopiesSealed, OldSealed, FlagFresh, Sealed, HelperOK,
        MemoryOK, ContainerOK, StageOK, Before, Placing, After, Upgrading, hostVars,
        nodeVars, fileVars, cliVars, Goto, Return, PollAgain, Killed
<1>1. CASE DaemonBoot
  BY <1>1 DEF DaemonBoot
<1>2. CASE Tick
  BY <1>2 DEF Tick, CmdStart
<1>3. CASE CheckStatus
  BY <1>3 DEF CheckStatus, StatusUp, StatusDown
<1>4. CASE EnsurePccs
  BY <1>4 DEF EnsurePccs
<1>5. CASE ListNode
  BY <1>5 DEF ListNode
<1>6. CASE CreateFails
  BY <1>6 DEF CreateFails
<1>7. CASE Create
  BY <1>7 DEF Create, CreateNode
<1>8. CASE Run
  BY <1>8 DEF Run, RunNode, Started
<1>9. CASE VersionUnknown
  BY <1>9 DEF VersionUnknown, VersionError
<1>10. CASE AssistNode
  BY <1>10 DEF AssistNode, VersionError, StartHelper
<1>11. CASE NothingToDo
  BY <1>11 DEF NothingToDo
<1>12. CASE ChooseUpgrade
  BY <1>12 DEF ChooseUpgrade, Obtainable
<1>13. CASE CloseHelper
  BY <1>13 DEF CloseHelper, StopHelper
<1>14. CASE LaunchHelper
  BY <1>14 DEF LaunchHelper, StartHelper
<1>15. CASE SecretCollected
  BY <1>15 DEF SecretCollected
<1>16. CASE SecretAwaited
  BY <1>16 DEF SecretAwaited
<1>17. CASE SecretTimeout
  BY <1>17 DEF SecretTimeout
<1>18. CASE StopOld
  BY <1>18 DEF StopOld, StopNode
<1>19. CASE RemoveOld
  BY <1>19 DEF RemoveOld, RemoveNode
<1>20. CASE NewNodeReady
  BY <1>20 DEF NewNodeReady
<1>21. CASE NewNodeAwaited
  BY <1>21 DEF NewNodeAwaited
<1>22. CASE NewNodeTimeout
  BY <1>22 DEF NewNodeTimeout
<1>23. CASE ReleaseHelper
  BY <1>23 DEF ReleaseHelper, StopHelper
<1>24. CASE Save
  BY <1>24 DEF Save
<1>25. CASE VerifyAwaited
  BY <1>25 DEF VerifyAwaited
<1>26. CASE VerifyFails
  BY <1>26 DEF VerifyFails
<1>27. CASE EnclaveMismatch
  BY <1>27, MismatchStops DEF StopNode
<1>28. CASE HandOver
  BY <1>28 DEF HandOver
<1>29. CASE VersionKnown
  BY <1>29 DEF VersionKnown
<1>30. CASE Fetched
  BY <1>30 DEF Fetched
<1>31. CASE FetchFails
  BY <1>31 DEF FetchFails
<1> QED
  BY <1>1, <1>2, <1>3, <1>4, <1>5, <1>6, <1>7, <1>8, <1>9, <1>10, <1>11, <1>12, <1>13, <1>14, <1>15, <1>16, <1>17, <1>18, <1>19, <1>20, <1>21, <1>22, <1>23, <1>24, <1>25, <1>26, <1>27, <1>28,
     <1>29, <1>30, <1>31
     DEF Daemon, Keep, Decide, HandKey, Replace, Complete

\* No command touches the helper, nor creates an image that cannot unseal.
LEMMA KeyCli ==
  ASSUME BaseInv, KeySealed, KeyInHand, NEW c \in Cli, CliStep(c)
  PROVE  KeyInHand'
<1>0. MemoryOK /\ CliTypeOK
  BY DEF BaseInv, TypeOK
<1> USE <1>0, ImageFacts
    DEF KeyInHand, KeySealed, CopiesSealed, Sealed, MemoryOK, hostVars, nodeVars,
        daemonVars, fileVars, CliMoves, CliGoto, CliExit
<1>1. ASSUME NEW to \in {"pccs", "edit"}, CliBegin(c, to) PROVE KeyInHand'
  BY <1>1 DEF CliBegin
<1>2. CASE CliPccs(c)
  BY <1>2 DEF CliPccs
<1>3. CASE CliList(c)
  BY <1>3 DEF CliList
<1>4. CASE CliCreateFails(c)
  BY <1>4 DEF CliCreateFails
<1>5. CASE CliCreate(c)
  BY <1>5 DEF CliCreate, CreateNode
<1>6. CASE CliRun(c)
  BY <1>6 DEF CliRun, RunNode
<1>7. CASE CliMarkStart(c)
  BY <1>7 DEF CliMarkStart, SetCmdState
<1>8. CASE CliMarkStop(c)
  BY <1>8 DEF CliMarkStop, SetCmdState
<1>9. CASE CliStop(c)
  BY <1>9 DEF CliStop, StopNode
<1>10. CASE CliSave(c)
  BY <1>10 DEF CliSave
<1>11. CASE CliFails(c)
  BY <1>11 DEF CliFails
<1> QED
  BY <1>1, <1>2, <1>3, <1>4, <1>5, <1>6, <1>7, <1>8, <1>9, <1>10, <1>11
     DEF CliStep, CliStart

\* The key invariant is inductive.
LEMMA KeyStep == KeyInv /\ [Next]_vars => KeyInv'
<1> SUFFICES ASSUME KeyInv, [Next]_vars PROVE KeyInv'
  OBVIOUS
<1>1. SealedInv /\ BaseInv /\ HelperOK
  BY DEF KeyInv, SealedInv
<1>2. SealedInv'
  BY <1>1, SealedStep
<1>3. ASSUME Sgx2, KeyStays' PROVE KeyInHand'
  <2>0. MemoryOK /\ ContainerOK /\ helper \in Helpers
    BY <1>1 DEF BaseInv, TypeOK, HostTypeOK
  <2>a. KeyStays /\ StopWorks
    BY <1>3, FailuresStay DEF KeyStays, StopWorks
  <2>b. KeySealed /\ KeyInHand
    BY <1>3, <2>a DEF KeyInv, SealedInv
  <2>1. CASE Daemon /\ UNCHANGED cliVars
    BY <1>1, <1>3, <2>b, <2>1, KeyDaemon
  <2>2. CASE \E c \in Cli : CliStep(c)
    BY <1>1, <1>3, <2>b, <2>2, KeyCli
  <2> USE <1>1, <1>3, <2>0, <2>b, HelperUpdates
      DEF KeyInHand, Sealed, hostVars, nodeVars, daemonVars, fileVars, cliVars
  <2>3. CASE Outside(Containers)
    BY <2>3 DEF Outside, Containers, NodeServes, HelperCollect, HelperDeliver,
       NodeFault, HelperFault, Fault, KeyStays
  <2>4. CASE DaemonKilled /\ UNCHANGED cliVars
    BY <2>4 DEF DaemonKilled, Killed
  <2>5. CASE Publish
    BY <2>5 DEF Publish
  <2>6. CASE HostFault
    BY <2>6 DEF HostFault, HostRestart, Fault, KeyStays
  <2>7. CASE UNCHANGED vars
    BY <2>7 DEF vars
  <2> QED
    BY <2>1, <2>2, <2>3, <2>4, <2>5, <2>6, <2>7 DEF Next
<1> QED
  BY <1>2, <1>3 DEF KeyInv

\* Every reachable state satisfies it: the strengthening the runs check.
THEOREM KeyInvariant == Spec => []KeyInv
<1>1. Init => KeyInv
  <2> SUFFICES ASSUME Init PROVE SealedInv /\ KeyInHand
    BY DEF KeyInv
  <2> QED
    BY SealedInit DEF Init, HostInit, DaemonInit, KeyInHand, Sealed
<1> QED
  BY <1>1, KeyStep, PTL DEF Spec

\* Until the helper or the host goes down, no crash of the daemon or of the
\* node and no failing call puts the key out of the node's reach.
THEOREM KeyAlwaysReachable == Spec => []KeyReachable
<1>1. KeyInv => KeyReachable
  BY DEF KeyInv, KeyInHand, KeyReachable, KeyStays
<1> QED
  BY <1>1, KeyInvariant, PTL

-----------------------------------------------------------------------------
(* Containers are removed only for a newer version.                        *)

\* No other step than RemoveOld takes a container away.
LEMMA OnlyRemoveOldRemoves ==
  ASSUME Next, image # NoImage, image' = NoImage
  PROVE  RemoveOld
<1> USE DEF hostVars, nodeVars
<1>1. ASSUME Daemon PROVE RemoveOld
  BY <1>1 DEF Daemon, Keep, Decide, HandKey, Replace, Complete, CreateNode, RunNode,
     StopNode,
     DaemonBoot, Tick, CmdStart, CheckStatus, StatusUp, StatusDown, EnsurePccs, ListNode, CreateFails,
     Create, Run, VersionUnknown, AssistNode, VersionKnown, NothingToDo, ChooseUpgrade, Obtainable, Fetched, FetchFails,
     CloseHelper, LaunchHelper, SecretCollected, SecretAwaited, SecretTimeout, StopOld,
     NewNodeReady, NewNodeAwaited, NewNodeTimeout, ReleaseHelper, Save,
     VerifyAwaited, VerifyFails, EnclaveMismatch, HandOver
<1>2. ASSUME NEW c \in Cli, CliStep(c) PROVE FALSE
  BY <1>2 DEF CliStep, CliStart, CliFails, CliBegin, CreateNode, RunNode, StopNode,
     CliPccs, CliList, CliCreateFails, CliCreate, CliRun, SetCmdState, CliMarkStart,
     CliMarkStop, CliStop, CliSave
<1>3. ~(Outside(Containers) \/ DaemonKilled \/ Publish \/ HostFault)
  BY DEF Outside, Containers, NodeServes, HelperCollect, HelperDeliver, NodeFault,
     HelperFault, DaemonKilled, Publish, HostFault, HostRestart
<1> QED
  BY <1>1, <1>2, <1>3 DEF Next

\* Whatever fails and however the commands interleave, the daemon removes a
\* container only for an upgrade to a newer version than the one it runs.
THEOREM RemovalIsUpgrade == Spec => RemovedOnlyForNewer
<1>1. ASSUME BaseInv, [Next]_vars
      PROVE  [ (image # NoImage /\ image' = NoImage) =>
                 tag # NoImage /\ image.version < tag.version ]_vars
  <2>1. ASSUME Next, image # NoImage, image' = NoImage
        PROVE  tag # NoImage /\ image.version < tag.version
    BY <1>1, <2>1, OnlyRemoveOldRemoves, ImageFacts
       DEF RemoveOld, Goto, Return, BaseInv, MemoryOK, StageOK, Before
  <2> QED
    BY <1>1, <2>1
<1> QED
  BY <1>1, BaseInvariant, PTL DEF Spec, RemovedOnlyForNewer

-----------------------------------------------------------------------------
(* A turn of the daemon comes to its end.                                  *)

LEMMA StageIs ==
  /\ TurnStages["down"] = 0 /\ TurnStages["idle"] = 0
  /\ TurnStages["verify"] = 1 /\ TurnStages["save"] = 2
  /\ TurnStages["release_helper"] = 3 /\ TurnStages["await_new"] = 4
  /\ TurnStages["run"] = 5 /\ TurnStages["create"] = 6
  /\ TurnStages["list"] = 7 /\ TurnStages["pccs"] = 8
  /\ TurnStages["remove_old"] = 9 /\ TurnStages["stop_old"] = 10
  /\ TurnStages["await_secret"] = 11 /\ TurnStages["start_helper"] = 12
  /\ TurnStages["stop_helper"] = 13 /\ TurnStages["fetch"] = 14
  /\ TurnStages["chain"] = 15 /\ TurnStages["version"] = 16
  /\ TurnStages["check"] = 21
BY DEF TurnStages

\* Where a step of the daemon leads: to another place of the turn, to its end,
\* or once more around a loop.
Onwards ==
  {<<"check", "version">>, <<"check", "pccs">>, <<"pccs", "list">>,
   <<"list", "run">>, <<"list", "create">>, <<"create", "run">>,
   <<"version", "chain">>, <<"fetch", "stop_helper">>,
   <<"stop_helper", "start_helper">>, <<"stop_helper", "stop_old">>,
   <<"start_helper", "await_secret">>, <<"await_secret", "stop_old">>,
   <<"stop_old", "remove_old">>, <<"await_new", "release_helper">>,
   <<"release_helper", "save">>, <<"save", "verify">>}
TurnMoves ==
  \/ Upgrading' = Upgrading /\ <<dpc, dpc'>> \in Onwards
  \/ dpc = "run" /\ dpc' = "version" /\ ~Upgrading
  \/ dpc = "run" /\ dpc' \in {"await_new", "save"} /\ Upgrading
  \/ dpc = "remove_old" /\ dpc' = "pccs" /\ Upgrading /\ Upgrading'
  \/ dpc = "chain" /\ dpc' = "fetch"
  \/ dpc' \in {"idle", "down"}
  \/ UNCHANGED <<dpc, tag>> /\ polls' = polls + 1

LEMMA DaemonMoves ==
  ASSUME BaseInv, Daemon, dpc \notin {"idle", "down"}
  PROVE  TurnMoves
<1> USE DEF TurnMoves, Onwards, Goto, Return, PollAgain, Killed, Upgrading
<1>1. CASE Keep
  BY <1>1 DEF Keep, DaemonBoot, Tick, CheckStatus, EnsurePccs, ListNode, CreateFails,
     Create, Run, Started
<1>2. CASE Decide
  BY <1>2 DEF Decide, VersionUnknown, AssistNode, VersionKnown, NothingToDo,
     ChooseUpgrade, Fetched, FetchFails
<1>3. CASE HandKey
  BY <1>3 DEF HandKey, CloseHelper, LaunchHelper, SecretCollected, SecretAwaited,
     SecretTimeout
<1>4. CASE Replace
  BY <1>4, ImageFacts DEF Replace, StopOld, RemoveOld, BaseInv, MemoryOK, Before
<1>5. CASE Complete
  BY <1>5 DEF Complete, NewNodeReady, NewNodeAwaited, NewNodeTimeout, ReleaseHelper,
     Save, VerifyAwaited, VerifyFails, EnclaveMismatch, HandOver
<1> QED
  BY <1>1, <1>2, <1>3, <1>4, <1>5 DEF Daemon

\* A turn of the daemon takes a bounded number of steps of its own, for any
\* bounds on its polling loops: no step leads back to an earlier stage.
THEOREM TurnEnds == Spec => TurnRunsOut
<1>1. ASSUME BaseInv, [Next]_vars, dpc \notin {"idle", "down"}
      PROVE  \/ StagesLeft' < StagesLeft
             \/ StagesLeft' = StagesLeft /\ polls' > polls
             \/ UNCHANGED <<dpc, tag, polls>>
  <2>a. /\ Starting  => StagesLeft = TurnStages[dpc] + 12
        /\ ~Starting => StagesLeft = TurnStages[dpc] + 0
        /\ Starting'  => StagesLeft' = TurnStages[dpc'] + 12
        /\ ~Starting' => StagesLeft' = TurnStages[dpc'] + 0
    BY DEF StagesLeft, TurnStages
  <2>b. /\ Starting  <=> (~Upgrading /\ dpc \in {"pccs", "list", "create", "run"})
        /\ Starting' <=> (~Upgrading' /\ dpc' \in {"pccs", "list", "create", "run"})
    BY DEF Starting
  <2>c. dpc \in DaemonPcs /\ polls \in Nat
    BY <1>1, DaemonAssumption DEF BaseInv, TypeOK, DaemonTypeOK
  <2>d. ASSUME dpc' \in {"idle", "down"} PROVE StagesLeft' < StagesLeft
    <3>1. StagesLeft' = 0
      BY <2>a, <2>b, <2>d, StageIs
    <3>2. TurnStages[dpc] \in Nat /\ TurnStages[dpc] > 0
      BY <1>1, <2>c, StageIs DEF DaemonPcs
    <3>3. StagesLeft \in Nat /\ StagesLeft > 0
      BY <2>a, <3>2
    <3> QED
      BY <3>1, <3>3
  <2>1. CASE Daemon
    <3>1. TurnMoves
      BY <1>1, <2>1, DaemonMoves
    <3>2. CASE UNCHANGED <<dpc, tag>> /\ polls' = polls + 1
      <4>1. StagesLeft' = StagesLeft
        BY <3>2 DEF StagesLeft, Starting, Upgrading, TurnStages
      <4> QED
        BY <2>c, <3>2, <4>1
    <3>3. CASE Upgrading' = Upgrading /\ <<dpc, dpc'>> \in Onwards
      <4>1. TurnStages[dpc] \in Nat /\ TurnStages[dpc'] \in Nat
        BY <3>3, StageIs DEF Onwards
      <4>2. TurnStages[dpc'] < TurnStages[dpc] \/ dpc = "check"
        BY <3>3, StageIs DEF Onwards
      <4>3. Starting' => Starting \/ dpc = "check"
        BY <2>b, <3>3 DEF Onwards
      <4>4. CASE dpc = "check"
        <5>1. dpc' = "version" \/ dpc' = "pccs"
          BY <3>3, <4>4 DEF Onwards
        <5>2. StagesLeft = 21
          BY ONLY <2>a, <2>b, <4>4, StageIs
        <5>3. StagesLeft' \in 0 .. 20
          <6>1. CASE dpc' = "version"
            BY ONLY <2>a, <2>b, <6>1, StageIs
          <6>2. CASE dpc' = "pccs"
            <7>1. TurnStages[dpc'] = 8
              BY <6>2, StageIs
            <7> QED
              BY ONLY <2>a, <7>1
          <6> QED
            BY <5>1, <6>1, <6>2
        <5> QED
          BY <5>2, <5>3
      <4>5. CASE dpc # "check"
        BY ONLY <2>a, <4>1, <4>2, <4>3, <4>5
      <4> QED
        BY <4>4, <4>5
    <3>4. CASE dpc = "run" /\ dpc' = "version" /\ ~Upgrading
      BY <2>a, <2>b, <3>4, StageIs
    <3>5. CASE dpc = "run" /\ dpc' \in {"await_new", "save"} /\ Upgrading
      BY <2>a, <2>b, <3>5, StageIs
    <3>6. CASE dpc = "remove_old" /\ dpc' = "pccs" /\ Upgrading /\ Upgrading'
      BY <2>a, <2>b, <3>6, StageIs
    <3>7. CASE dpc = "chain" /\ dpc' = "fetch"
      BY <2>a, <2>b, <3>7, StageIs
    <3> QED
      BY <2>d, <3>1, <3>2, <3>3, <3>4, <3>5, <3>6, <3>7 DEF TurnMoves
  <2>2. CASE DaemonKilled \/ HostFault
    BY <2>2, <2>d DEF DaemonKilled, HostFault, Killed
  <2>3. CASE (\E c \in Cli : CliStep(c)) \/ Outside(Containers) \/ Publish \/ UNCHANGED vars
    <3>1. UNCHANGED daemonVars
      BY <2>3 DEF Outside, Publish, CliStep, CliStart, CliFails, CliBegin, CliPccs,
         CliList, CliCreateFails, CliCreate, CliRun, SetCmdState, CliMarkStart,
         CliMarkStop, CliStop, CliSave, vars
    <3> QED
      BY <3>1 DEF daemonVars
  <2> QED
    BY <1>1, <2>1, <2>2, <2>3 DEF Next
<1> QED
  BY <1>1, BaseInvariant, PTL DEF Spec, TurnRunsOut

-----------------------------------------------------------------------------
(* The upgrade implements the custody of the key.                          *)

\* What a step of the daemon does to the custody: nothing, a change of
\* helper, or the save of an image that is sealed.
LEMMA DaemonCustody ==
  ASSUME HelperOK, KeySealed, Daemon
  PROVE  /\ UNCHANGED sealed
         /\ \/ UNCHANGED <<helper, savedImage>>
            \/ (StartHelper \/ StopHelper) /\ UNCHANGED savedImage
            \/ UNCHANGED helper /\ savedImage' = nodeImage /\ Sealed(nodeImage)
<1> USE DEF hostVars, fileVars, nodeVars
<1>1. CASE Save
  BY <1>1 DEF Save, Goto, KeySealed, CopiesSealed
<1>2. CASE Daemon /\ ~Save
  BY <1>2 DEF Daemon, Keep, Decide, HandKey, Replace, Complete,
     DaemonBoot, Tick, CmdStart, CheckStatus, StatusUp, StatusDown, EnsurePccs, ListNode, CreateFails,
     Create, Run, VersionUnknown, AssistNode, VersionKnown, NothingToDo, ChooseUpgrade, Obtainable, Fetched, FetchFails,
     CloseHelper, LaunchHelper, SecretCollected, SecretAwaited, SecretTimeout, StopOld,
     RemoveOld, NewNodeReady, NewNodeAwaited, NewNodeTimeout, ReleaseHelper,
     VerifyAwaited, VerifyFails, EnclaveMismatch, HandOver
<1> QED
  BY <1>1, <1>2

\* What a step of a command does to it: a save of what was read.
LEMMA CliCustody ==
  ASSUME KeySealed, NEW c \in Cli, CliStep(c)
  PROVE  /\ UNCHANGED <<sealed, helper>>
         /\ \/ UNCHANGED savedImage
            \/ savedImage' = cmem[c] /\ Sealed(cmem[c])
<1> USE DEF hostVars, fileVars, nodeVars
<1>1. CASE CliSave(c)
  BY <1>1 DEF CliSave, CliExit, CliMoves, KeySealed, CopiesSealed
<1>2. CASE CliStep(c) /\ ~CliSave(c)
  BY <1>2 DEF CliStep, CliStart, CliFails, CliBegin, CliPccs, CliList, CliCreateFails,
     CliCreate, CliRun, SetCmdState, CliMarkStart, CliMarkStop, CliStop
<1> QED
  BY <1>1, <1>2

\* Every step of the node is a step of KeyCustody or leaves it alone, as
\* long as docker stops containers when asked to.
THEOREM UpgradeImplementsCustody ==
  ASSUME "stop" \notin FaultKinds, Sgx2 PROVE Spec => KeyCustodySpec
<1>1. Init => Custody!Init
  BY ImageFacts, HelperFacts DEF Init, HostInit, DaemonInit, Custody!Init
<1>2. ASSUME SealedInv, [Next]_vars PROVE [Custody!Next]_(Custody!custody)
  <2>0. /\ BaseInv /\ HelperOK /\ KeySealed /\ ContainerOK
        /\ helper \in Helpers /\ EnclaveOf(savedImage) \in sealed
    BY <1>2 DEF SealedInv, BaseInv, TypeOK, HostTypeOK, KeySealed, CopiesSealed, Sealed,
       StopWorks
  <2>1. ASSUME UNCHANGED <<sealed, helper, savedImage>>
        PROVE  UNCHANGED Custody!custody
    BY <2>1 DEF Custody!custody, EnclaveOf
  <2>2. ASSUME NEW i, savedImage' = i, Sealed(i), UNCHANGED <<sealed, helper>>
        PROVE  Custody!Next
    BY <2>2 DEF Custody!Next, Custody!Configure, Sealed, EnclaveOf
  <2>3. ASSUME ~helper'.secret, helper' \in Helpers, UNCHANGED <<sealed, savedImage>>
        PROVE  Custody!Next
    BY <2>3 DEF Custody!Next, Custody!Drop, EnclaveOf, Helpers
  <2>4. CASE Daemon /\ UNCHANGED cliVars
    <3>1. CASE (StartHelper \/ StopHelper) /\ UNCHANGED <<sealed, savedImage>>
      BY <3>1, <2>1, <2>3, HelperFacts DEF StartHelper, StopHelper
    <3> QED
      BY <2>0, <2>1, <2>2, <2>4, <3>1, DaemonCustody
  <2>5. CASE \E c \in Cli : CliStep(c)
    BY <2>0, <2>1, <2>2, <2>5, CliCustody
  <2>6. CASE Outside(Containers)
    <3> USE <2>0, <2>6, ImageFacts, HelperFacts, HelperUpdates DEF Outside, fileVars
    <3>1. CASE NodeServes \/ NodeFault
      BY <3>1, <2>1 DEF NodeServes, NodeFault
    <3>2. CASE HelperCollect
      BY <3>2 DEF HelperCollect, Custody!Next, Custody!Collect, EnclaveOf
    <3>3. CASE HelperDeliver
      BY <3>3 DEF HelperDeliver, ContainerOK, Custody!Next, Custody!Deliver, EnclaveOf
    <3>4. CASE HelperFault
      BY <3>4, <2>3 DEF HelperFault
    <3> QED
      BY <3>1, <3>2, <3>3, <3>4 DEF Containers
  <2>7. CASE (DaemonKilled /\ UNCHANGED cliVars) \/ Publish \/ UNCHANGED vars
    BY <2>1, <2>7 DEF DaemonKilled, Publish, vars, hostVars, fileVars
  <2>8. CASE HostFault
    BY <2>3, <2>8, HelperFacts DEF HostFault, HostRestart, fileVars
  <2> QED
    BY <1>2, <2>4, <2>5, <2>6, <2>7, <2>8 DEF Next
<1> QED
  BY <1>1, <1>2, SealedInvariant, PTL DEF Spec, KeyCustodySpec, Custody!Spec
=============================================================================
