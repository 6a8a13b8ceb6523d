------------------------ MODULE FolderDownloadProofs ------------------------
(***************************************************************************)
(* The safety properties of FolderDownload, for folders of any length.     *)
(***************************************************************************)
EXTENDS FolderDownload, SequenceTheorems, TLAPS

\* Nil may be said of less than the whole file.
Excused == secret = "wrong" \/ troubles \cap {"disk", "timeout"} # {}

\* Something has gone wrong.
Reason == troubles # {} \/ ~KeyFits

Active == walker \in {"walk", "transfer"}

\* Where the two of them can be at the same time, and what they have returned.
StagesOK ==
  /\ result # "none" <=> caller = "returned"
  /\ walker # "off" => folder /\ caller \in {"select", "returned"}
  /\ caller = "select" => walker # "off"
  /\ caller = "file" => ~folder
  /\ caller = "pull" => folder
  /\ result = "nil" => IF folder THEN walker = "ended" ELSE TRUE

\* An answer of downloadFile, and the end of the walk, mean something.
AnswersOK ==
  /\ (Transferring /\ answer = "error") => Reason
  /\ (Transferring /\ answer = "nil") => whole \/ Excused
  /\ result = "error" => Reason
  /\ walker = "ended" => at > Len(entries) \/ Reason

\* The walk leaves saved entries behind and nothing ahead.
WalkOK ==
  /\ \A i \in 1 .. Len(entries) :
       /\ i < at => saved[i] = "whole" \/ (saved[i] = "part" /\ Excused)
       /\ i > at => saved[i] = "none"
  /\ (walker = "walk" /\ at <= Len(entries)) => saved[at] = "none"
  /\ walker = "transfer" => at <= Len(entries)
  /\ walker = "off" => at = 1
  /\ caller \in {"setup", "ask", "pull"} => \A i \in 1 .. Len(entries) : saved[i] = "none"
  /\ ~folder => Len(entries) = 1 /\ at = 1
  /\ (~folder /\ result = "nil") => saved[1] = "whole" \/ (saved[1] = "part" /\ Excused)

Typed ==
  /\ TypeOK
  /\ Len(entries) \in Nat

FolderInv == Typed /\ StagesOK /\ AnswersOK /\ WalkOK

LEMMA EntriesLength ==
  ASSUME entries \in Folders \cup {<<"file">>}
  PROVE  Len(entries) \in Nat
<1>1. CASE entries = <<"file">>
  BY <1>1
<1>2. CASE entries \in Folders
  <2>1. PICK n \in 0 .. MaxEntries : entries \in [1 .. n -> Entries]
    BY <1>2 DEF Folders
  <2>2. n \in Nat
    BY FolderAssumption
  <2>3. entries \in Seq(Entries)
    BY <2>1, <2>2, SeqDef
  <2> QED
    BY <2>3
<1> QED
  BY <1>1, <1>2

LEMMA FolderInit == Init => FolderInv
<1> SUFFICES ASSUME Init PROVE FolderInv
  OBVIOUS
<1>1. entries \in Folders \cup {<<"file">>}
  BY DEF Init
<1>2. Len(entries) \in Nat
  BY <1>1, EntriesLength
<1>3. Typed
  BY <1>1, <1>2 DEF Init, TransferInit, Typed, TypeOK, Secrets
<1>4. StagesOK /\ AnswersOK
  BY DEF Init, TransferInit, StagesOK, AnswersOK, Transferring
<1>5. ~folder => Len(entries) = 1
  BY DEF Init
<1>6. WalkOK
  BY <1>2, <1>5 DEF Init, TransferInit, WalkOK
<1> QED
  BY <1>3, <1>4, <1>6 DEF FolderInv

LEMMA TypedStep == Typed /\ WalkOK /\ [Next]_vars => Typed'
<1> SUFFICES ASSUME Typed, WalkOK, [Next]_vars PROVE Typed'
  OBVIOUS
<1> USE DEF Typed, TypeOK
<1>0. CASE UNCHANGED vars
  BY <1>0 DEF vars, transferVars, folderVars
<1>1. CASE CallerStep
  BY <1>1 DEF CallerStep, SetUp, AskFails, AskFile, AskFolder, FileReturns, Pull,
     Expires, Fetched, Caller, Returns, CallFails, Fault, Begin, Keep, WalkOK
<1>2. CASE WalkerStep
  BY <1>2 DEF WalkerStep, GetEntry, EntryFails, MakeFolder, EntrySaved, EntryLost,
     WalkEnds, Walker, Onward, CallFails, Fault, Begin, Keep, WalkOK
<1>3. CASE FileChanges \/ FileAnswers \/ Timeout
  BY <1>3 DEF FileChanges, FileAnswers, Timeout, Succeed, Fail, Fault, folderVars
<1> QED
  BY <1>0, <1>1, <1>2, <1>3 DEF Next

\* Troubles only grow, and what they excuse with them.
LEMMA TroublesGrow ==
  ASSUME Next
  PROVE  /\ Excused => Excused'
         /\ Reason => Reason'
         /\ UNCHANGED <<folder, entries, secret>>
<1> USE DEF Excused, Reason, KeyFits
<1>1. CASE CallerStep
  BY <1>1 DEF CallerStep, SetUp, AskFails, AskFile, AskFolder, FileReturns, Pull,
     Expires, Fetched, Caller, CallFails, Fault, Begin
<1>2. CASE WalkerStep
  BY <1>2 DEF WalkerStep, GetEntry, EntryFails, MakeFolder, EntrySaved, EntryLost,
     WalkEnds, Walker, CallFails, Fault, Begin
<1>3. CASE FileChanges \/ FileAnswers \/ Timeout
  BY <1>3 DEF FileChanges, FileAnswers, Timeout, Succeed, Fail, Fault, folderVars
<1> QED
  BY <1>1, <1>2, <1>3 DEF Next

LEMMA StagesStep == Typed /\ StagesOK /\ [Next]_vars => StagesOK'
<1> SUFFICES ASSUME Typed, StagesOK, [Next]_vars PROVE StagesOK'
  OBVIOUS
<1> USE DEF StagesOK
<1>0. CASE UNCHANGED vars
  BY <1>0 DEF vars, transferVars, folderVars
<1>1. CASE SetUp \/ AskFails \/ AskFile \/ AskFolder \/ Pull
  BY <1>1 DEF SetUp, AskFails, AskFile, AskFolder, Pull, Caller, Returns
<1>2. CASE FileReturns \/ Expires \/ Fetched
  BY <1>2 DEF FileReturns, Expires, Fetched, Caller, Returns
<1>4. CASE WalkerStep
  BY <1>4 DEF WalkerStep, GetEntry, EntryFails, MakeFolder, EntrySaved, EntryLost,
     WalkEnds, Walker, Onward
<1>3. CASE FileChanges \/ FileAnswers \/ Timeout
  BY <1>3 DEF FileChanges, FileAnswers, Timeout, folderVars
<1> QED
  BY <1>0, <1>1, <1>2, <1>3, <1>4 DEF Next, CallerStep

LEMMA AnswersStep == FolderInv /\ [Next]_vars => AnswersOK'
<1> SUFFICES ASSUME FolderInv, [Next]_vars PROVE AnswersOK'
  OBVIOUS
<1> USE DEF FolderInv, AnswersOK, Transferring
<1>0. CASE UNCHANGED vars
  BY <1>0 DEF vars, transferVars, folderVars, Reason, Excused, KeyFits
<1> SUFFICES ASSUME Next PROVE AnswersOK'
  BY <1>0
<1>a. /\ Excused => Excused'
      /\ Reason => Reason'
      /\ UNCHANGED <<folder, entries, secret>>
  BY TroublesGrow
<1>1. CASE SetUp \/ AskFails \/ AskFolder \/ Pull
  BY <1>1, <1>a DEF SetUp, AskFails, AskFolder, Pull, Caller, Returns, CallFails,
     Cancelled, Fault, StagesOK, Reason
<1>2. CASE AskFile \/ FileReturns
  BY <1>2, <1>a DEF AskFile, FileReturns, Begin, Caller, Returns, StagesOK
<1>3. CASE Expires \/ Fetched
  BY <1>3, <1>a DEF Expires, Fetched, Caller, Returns, Reason, StagesOK
<1>4. CASE GetEntry \/ MakeFolder \/ EntrySaved
  BY <1>4, <1>a DEF GetEntry, MakeFolder, EntrySaved, Begin, Walker, Onward, StagesOK
<1>5. CASE EntryFails
  <2>1. walker = "walk" /\ walker' = "ended" /\ result' = result /\ caller' = caller
    BY <1>5 DEF EntryFails, Walker
  <2>2. result \in {"none", "error"}
    BY <2>1 DEF StagesOK, Typed, TypeOK
  <2>3. Reason'
    <3>1. CASE Cancelled
      BY <1>a, <2>2, <3>1 DEF Cancelled, Reason
    <3>2. CASE troubles' # {}
      BY <3>2 DEF Reason
    <3> QED
      BY <1>5, <3>1, <3>2 DEF EntryFails, CallFails, Fault
  <2> QED
    BY <2>1, <2>3 DEF StagesOK
<1>6. CASE EntryLost \/ WalkEnds
  BY <1>6, <1>a DEF EntryLost, WalkEnds, Walker, StagesOK
<1>7. CASE FileChanges
  BY <1>7, <1>a DEF FileChanges, folderVars
<1>8. CASE FileAnswers
  BY <1>8, <1>a DEF FileAnswers, folderVars, Succeed, Fail, Reason, Excused, KeyFits
<1>9. CASE Timeout
  BY <1>9, <1>a DEF Timeout, folderVars
<1> QED
  BY <1>1, <1>2, <1>3, <1>4, <1>5, <1>6, <1>7, <1>8, <1>9
  DEF Next, CallerStep, WalkerStep

LEMMA WalkStep == FolderInv /\ [Next]_vars => WalkOK'
<1> SUFFICES ASSUME FolderInv, [Next]_vars PROVE WalkOK'
  OBVIOUS
<1> USE DEF FolderInv, Typed, TypeOK, WalkOK
<1>0. CASE UNCHANGED vars
  BY <1>0 DEF vars, transferVars, folderVars, Excused
<1> SUFFICES ASSUME Next PROVE WalkOK'
  BY <1>0
<1>a. /\ Excused => Excused'
      /\ UNCHANGED <<folder, entries, secret>>
  BY TroublesGrow
<1>1. CASE SetUp \/ AskFails \/ AskFolder \/ Expires \/ Fetched
  BY <1>1, <1>a DEF SetUp, AskFails, AskFolder, Expires, Fetched, Caller, Returns, StagesOK
<1>2. CASE Pull
  BY <1>2, <1>a DEF Pull, Caller, Returns, StagesOK
<1>3. CASE AskFile
  BY <1>3, <1>a DEF AskFile, Begin, Caller, StagesOK
<1>4. CASE FileReturns
  BY <1>4, <1>a DEF FileReturns, Keep, Caller, Returns, StagesOK, AnswersOK, Transferring
<1>5. CASE GetEntry
  BY <1>5, <1>a DEF GetEntry, Begin, Walker, StagesOK
<1>6. CASE EntryFails \/ WalkEnds
  BY <1>6, <1>a DEF EntryFails, WalkEnds, Walker
<1>7. CASE MakeFolder
  BY <1>7, <1>a DEF MakeFolder, Walker, Onward, StagesOK
<1>8. CASE EntrySaved
  BY <1>8, <1>a DEF EntrySaved, Keep, Walker, Onward, StagesOK, AnswersOK, Transferring
<1>9. CASE EntryLost
  BY <1>9, <1>a DEF EntryLost, Keep, Walker, StagesOK
<1>10. CASE FileChanges \/ FileAnswers \/ Timeout
  BY <1>10, <1>a DEF FileChanges, FileAnswers, Timeout, folderVars
<1> QED
  BY <1>1, <1>2, <1>3, <1>4, <1>5, <1>6, <1>7, <1>8, <1>9, <1>10
  DEF Next, CallerStep, WalkerStep

\* Caller, goroutine and files fit together in every reachable state.
THEOREM FolderInvariant == Spec => []FolderInv
<1>1. FolderInv /\ [Next]_vars => FolderInv'
  BY TypedStep, StagesStep, AnswersStep, WalkStep DEF FolderInv
<1> QED
  BY <1>1, FolderInit, PTL DEF Spec

-----------------------------------------------------------------------------
\* The counters and places of the download are well typed, and the walk never
\* leaves the folder.
THEOREM FolderTypes == Spec => []TypeOK
<1>1. FolderInv => TypeOK
  BY DEF FolderInv, Typed
<1> QED
  BY <1>1, FolderInvariant, PTL

\* DownloadFromIpfs never fails without a reason.
THEOREM ErrorsHaveReasons == Spec => []ErrorHasReason
<1>1. FolderInv => ErrorHasReason
  BY DEF FolderInv, AnswersOK, ErrorHasReason, Reason
<1> QED
  BY <1>1, FolderInvariant, PTL

\* Nil means that everything has been saved: of a folder when nothing has
\* failed, of a single file also when peers or reads have.
THEOREM NilComesLast == Spec => []NilAfterAll
<1>1. ASSUME FolderInv, result = "nil", KeyFits, ~Excused, folder => troubles = {},
             NEW i \in 1 .. Len(entries)
      PROVE  saved[i] = "whole"
  <2>1. CASE folder
    <3>1. ~Reason
      BY <1>1, <2>1 DEF Reason
    <3> QED
      BY <1>1, <2>1, <3>1 DEF FolderInv, Typed, TypeOK, StagesOK, AnswersOK, WalkOK
  <2>2. CASE ~folder
    <3>1. Len(entries) = 1
      BY <1>1, <2>2 DEF FolderInv, WalkOK
    <3>2. i = 1
      BY <3>1
    <3> QED
      BY <1>1, <2>2, <3>2 DEF FolderInv, WalkOK
  <2> QED
    BY <2>1, <2>2
<1>2. ASSUME KeyFits, troubles = {} \/ (~folder /\ troubles \subseteq {"read", "peer"})
      PROVE  ~Excused /\ (folder => troubles = {})
  BY <1>2 DEF KeyFits, Excused
<1>3. FolderInv => NilAfterAll
  BY <1>1, <1>2 DEF NilAfterAll
<1> QED
  BY <1>3, FolderInvariant, PTL

\* What is on the disk is a beginning of the folder.
THEOREM SavedIsPrefix == Spec => []FolderIsPrefix
<1>1. ASSUME FolderInv, NEW i \in 1 .. Len(entries), NEW j \in 1 .. Len(entries),
             i < j, saved[j] # "none"
      PROVE  saved[i] = "whole" \/ (saved[i] = "part" /\ Excused)
  BY <1>1 DEF FolderInv, Typed, TypeOK, WalkOK
<1>2. FolderInv => FolderIsPrefix
  BY <1>1 DEF FolderIsPrefix, Excused
<1> QED
  BY <1>2, FolderInvariant, PTL

\* Nothing is written after nil has been returned.
THEOREM NothingAfterNil == Spec => NilIsFinal
<1>1. ASSUME FolderInv, [Next]_vars, result = "nil"
      PROVE  UNCHANGED <<saved, whole>>
  <2>1. /\ caller = "returned" /\ ~Active
        /\ ~Transferring
    BY <1>1 DEF FolderInv, StagesOK, Active, Transferring
  <2>2. CASE UNCHANGED vars
    BY <2>2 DEF vars, transferVars, folderVars
  <2>3. CASE Next
    BY <2>1, <2>3 DEF Next, CallerStep, WalkerStep, SetUp, AskFails, AskFile,
       AskFolder, FileReturns, Pull, Expires, Fetched, Timeout, GetEntry, EntryFails,
       MakeFolder, EntrySaved, EntryLost, WalkEnds, FileChanges, FileAnswers, Active,
       folderVars
  <2> QED
    BY <1>1, <2>2, <2>3
<1>2. FolderInv /\ [Next]_vars => [result = "nil" => UNCHANGED <<saved, whole>>]_vars
  BY <1>1
<1> QED
  BY <1>2, FolderInvariant, PTL DEF Spec, NilIsFinal
=============================================================================
