--------------------------- MODULE FolderDownload ---------------------------
(***************************************************************************)
(* util.DownloadFromIpfs: a peer is set up and asked for a file; if it is  *)
(* a folder, a goroutine walks it and downloads one file after the other   *)
(* while the caller waits for it or for the end of the time.  Each file is *)
(* a FileTransfer, which FileDownload implements.                          *)
(*                                                                         *)
(* A folder is the sequence of what the recursive walk of                  *)
(* downloadFolderFromIpfs comes by: an error ends all levels of it.        *)
(***************************************************************************)
EXTENDS FileTransfer, Sequences, Naturals

CONSTANTS
  MaxEntries,   \* bound on the entries of a folder
  FaultKinds    \* what may go wrong: "read", "disk", "timeout", "peer"

ASSUME FolderAssumption ==
  /\ MaxEntries \in Nat
  /\ FaultKinds \subseteq TransferTroubles \cup {"peer"}

VARIABLES
  folder,   \* what is asked for is a folder
  entries,  \* what is in it, or the file alone
  caller,   \* where DownloadFromIpfs is
  result,   \* what it has returned
  walker,   \* where the goroutine is; "ended": fetchResChan is closed
  at,       \* the entry it is at
  saved     \* for each entry, what is on the disk; "part": less than all of it

folderVars == <<folder, entries, caller, result, walker, at, saved>>
vars == <<transferVars, folderVars>>

Entries == {"file", "folder"}
Folders == UNION {[1 .. n -> Entries] : n \in 0 .. MaxEntries}

TypeOK ==
  /\ secret \in Secrets /\ whole \in BOOLEAN
  /\ answer \in {"none", "nil", "error"}
  /\ troubles \subseteq FaultKinds
  /\ folder \in BOOLEAN /\ entries \in Folders \cup {<<"file">>}
  /\ caller \in {"setup", "ask", "file", "pull", "select", "returned"}
  /\ result \in {"none", "nil", "error"}
  /\ walker \in {"off", "walk", "transfer", "ended"}
  /\ at \in 1 .. Len(entries) + 1
  /\ saved \in [1 .. Len(entries) -> {"none", "begun", "part", "whole"}]

Init ==
  /\ TransferInit
  /\ folder \in BOOLEAN
  /\ entries \in IF folder THEN Folders ELSE {<<"file">>}
  /\ caller = "setup" /\ result = "none"
  /\ walker = "off" /\ at = 1
  /\ saved = [i \in 1 .. Len(entries) |-> "none"]

-----------------------------------------------------------------------------
Fault(kinds) == \E k \in kinds \cap FaultKinds : troubles' = troubles \cup {k}

\* ctx.Done(): the time is over, or DownloadFromIpfs has returned.
Cancelled == "timeout" \in troubles \/ result # "none"

\* A call that needs the peer and the context.
CallFails == (Cancelled /\ UNCHANGED troubles) \/ Fault({"peer"})

Returns(value) == caller' = "returned" /\ result' = value

\* downloadFile is called for an entry.
Begin(i) ==
  /\ saved' = [saved EXCEPT ![i] = "begun"]
  /\ answer' = "none"
  /\ whole' \in BOOLEAN
  /\ UNCHANGED <<secret, troubles>>

Keep(i) == saved' = [saved EXCEPT ![i] = IF whole THEN "whole" ELSE "part"]

(* DownloadFromIpfs.                                                       *)

Caller == UNCHANGED <<folder, entries, at, secret>>

\* Key, port, host, trusted peers from the chain, bootstrap.
SetUp ==
  /\ caller = "setup"
  /\ \/ caller' = "ask" /\ UNCHANGED <<result, troubles>>
     \/ Returns("error") /\ CallFails
  /\ UNCHANGED <<walker, saved, whole, answer>> /\ Caller

\* lite.GetFile.
AskFails ==
  /\ caller = "ask"
  /\ Returns("error") /\ CallFails
  /\ UNCHANGED <<walker, saved, whole, answer>> /\ Caller

AskFile ==
  /\ caller = "ask" /\ ~folder
  /\ caller' = "file"
  /\ Begin(1)
  /\ UNCHANGED <<result, walker>> /\ Caller

FileReturns ==
  /\ caller = "file" /\ answer # "none"
  /\ Returns(answer)
  /\ Keep(1)
  /\ UNCHANGED <<walker, whole, answer, troubles>> /\ Caller

AskFolder ==
  /\ caller = "ask" /\ folder
  /\ caller' = "pull"
  /\ UNCHANGED <<result, walker, saved, whole, answer, troubles>> /\ Caller

(* pullAndDownloadFolder.                                                  *)

Pull ==
  /\ caller = "pull"
  /\ \/ caller' = "select" /\ walker' = "walk" /\ UNCHANGED <<result, troubles>>
     \/ Returns("error") /\ UNCHANGED walker /\ (CallFails \/ Fault({"disk"}))
  /\ UNCHANGED <<saved, whole, answer>> /\ Caller

\* Mutant: the select has a default that gives up.
ExpiresAtOnce ==
  /\ caller = "select"
  /\ Returns("error")
  /\ UNCHANGED <<walker, saved, whole, answer, troubles>> /\ Caller

Expires ==
  /\ caller = "select" /\ "timeout" \in troubles
  /\ Returns("error")
  /\ UNCHANGED <<walker, saved, whole, answer, troubles>> /\ Caller

\* Mutant: fetchResChan is closed as soon as the goroutine runs.
FetchedAtOnce ==
  /\ caller = "select"
  /\ Returns("nil")
  /\ UNCHANGED <<walker, saved, whole, answer, troubles>> /\ Caller

\* err has been assigned by the goroutine; it is not returned.
Fetched ==
  /\ caller = "select" /\ walker = "ended"
  /\ Returns("nil")
  /\ UNCHANGED <<walker, saved, whole, answer, troubles>> /\ Caller

Timeout ==
  /\ "timeout" \notin troubles /\ Fault({"timeout"})
  /\ UNCHANGED <<folderVars, secret, whole, answer>>

(* downloadFolderFromIpfs, in the goroutine.                               *)

Walker == UNCHANGED <<folder, entries, caller, result, secret>>
Onward == at' = at + 1 /\ walker' = "walk"

GetEntry ==
  /\ walker = "walk" /\ at <= Len(entries) /\ entries[at] = "file"
  /\ walker' = "transfer"
  /\ Begin(at)
  /\ UNCHANGED at /\ Walker

\* Decoding the entry, GetFile, Child or MkdirAll.
EntryFails ==
  /\ walker = "walk" /\ at <= Len(entries)
  /\ walker' = "ended"
  /\ CallFails \/ (entries[at] = "folder" /\ Fault({"disk"}))
  /\ UNCHANGED <<at, saved, whole, answer>> /\ Walker

\* Mutant: the entry after the folder is skipped.
MakeFolderSkips ==
  /\ walker = "walk" /\ at <= Len(entries) /\ entries[at] = "folder"
  /\ saved' = [saved EXCEPT ![at] = "whole"]
  /\ at' = at + 2
  /\ UNCHANGED <<walker, whole, answer, troubles>> /\ Walker

MakeFolder ==
  /\ walker = "walk" /\ at <= Len(entries) /\ entries[at] = "folder"
  /\ saved' = [saved EXCEPT ![at] = "whole"]
  /\ Onward
  /\ UNCHANGED <<whole, answer, troubles>> /\ Walker

EntrySaved ==
  /\ walker = "transfer" /\ answer = "nil"
  /\ Keep(at)
  /\ Onward
  /\ UNCHANGED <<whole, answer, troubles>> /\ Walker

\* Mutant: the entry that fails is left out.
EntryLostSkipped ==
  /\ walker = "transfer" /\ answer = "error"
  /\ Keep(at)
  /\ Onward
  /\ UNCHANGED <<whole, answer, troubles>> /\ Walker

\* Mutant: the entry that fails is tried again.
EntryLostRetried ==
  /\ walker = "transfer" /\ answer = "error"
  /\ Keep(at)
  /\ walker' = "walk"
  /\ UNCHANGED <<at, whole, answer, troubles>> /\ Walker

EntryLost ==
  /\ walker = "transfer" /\ answer = "error"
  /\ Keep(at)
  /\ walker' = "ended"
  /\ UNCHANGED <<at, whole, answer, troubles>> /\ Walker

WalkEnds ==
  /\ walker = "walk" /\ at > Len(entries)
  /\ walker' = "ended"
  /\ UNCHANGED <<at, saved, whole, answer, troubles>> /\ Walker

(* downloadFile.                                                           *)

Transferring == caller = "file" \/ walker = "transfer"

FileChanges ==
  /\ Transferring /\ answer = "none"
  /\ whole' \in BOOLEAN
  /\ Fault({"read", "disk"}) \/ UNCHANGED troubles
  /\ UNCHANGED <<folderVars, secret, answer>>

FileAnswers ==
  /\ Transferring
  /\ Succeed \/ Fail
  /\ UNCHANGED folderVars

CallerStep ==
  SetUp \/ AskFails \/ AskFile \/ AskFolder \/ FileReturns \/ Pull \/ Expires \/ Fetched
WalkerStep ==
  GetEntry \/ EntryFails \/ MakeFolder \/ EntrySaved \/ EntryLost \/ WalkEnds

Next == CallerStep \/ WalkerStep \/ FileChanges \/ FileAnswers \/ Timeout

Spec == Init /\ [][Next]_vars

\* Goroutines are scheduled, and a file's transfer ends (EverythingEnds of
\* FileDownload), because what it waits for ends with the context.
Fairness == WF_vars(CallerStep) /\ WF_vars(WalkerStep) /\ WF_vars(FileAnswers)
FairSpec == Spec /\ Fairness

-----------------------------------------------------------------------------
(* Properties.                                                             *)

KeyFits == secret \in {"none", "right"}

\* DownloadFromIpfs returns an error only if something has failed: it never
\* gives up on a folder that is still being fetched.
ErrorHasReason == result = "error" => troubles # {} \/ ~KeyFits

\* A folder for which nil is returned is all there if nothing at all has failed.
\* A single file is all there also if peers or reads have failed: then the
\* failure is returned.
NilAfterAll ==
  (result = "nil" /\ KeyFits
     /\ (troubles = {} \/ (~folder /\ troubles \subseteq {"read", "peer"}))) =>
    \A i \in 1 .. Len(entries) : saved[i] = "whole"

\* Files are saved in the order of the folder, and the first that fails is
\* the last: what is there is a beginning of the folder, and at most one file
\* of it is cut short, unless the disk fails, the time is over or the key is
\* wrong.
FolderIsPrefix ==
  \A i, j \in 1 .. Len(entries) :
    (i < j /\ saved[j] # "none") =>
      \/ saved[i] = "whole"
      \/ saved[i] = "part" /\ (secret = "wrong" \/ troubles \cap {"disk", "timeout"} # {})

\* After nil, nothing is written any more.  (After an error the goroutine may
\* still be at work.)
NilIsFinal == [][result = "nil" => UNCHANGED <<saved, whole>>]_vars

\* DownloadFromIpfs returns, and the goroutine ends as well.
EverythingEnds == <>(result # "none" /\ walker \in {"off", "ended"})

\* litepeer.go:341, "Pull all files in the folder from the network to the
\* local based on cid": without an error, they are all there.
NilMeansAllFiles ==
  (result = "nil" /\ folder /\ KeyFits) =>
    \A i \in 1 .. Len(entries) : saved[i] = "whole"
=============================================================================
