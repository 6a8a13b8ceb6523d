---------------------------- MODULE FileTransfer ----------------------------
(***************************************************************************)
(* What downloadFile promises its callers, DownloadFromIpfs and the walk   *)
(* of a folder: until it answers, the file changes; then it does not, and  *)
(* the answer means something.  FileDownload implements this.              *)
(***************************************************************************)
VARIABLES
  secret,    \* the key it is given
  whole,     \* the file holds all that was asked for
  answer,    \* what downloadFile has returned
  troubles   \* what has gone wrong

transferVars == <<secret, whole, answer, troubles>>

\* "none": as stored; "wrong": a key that does not decrypt it; "malformed":
\* sym.FromString refuses it.
Secrets == {"none", "right", "wrong", "malformed"}
TransferTroubles == {"read", "disk", "timeout"}

TransferInit ==
  /\ secret \in Secrets
  /\ whole \in BOOLEAN
  /\ answer = "none"
  /\ troubles = {}

Trouble == troubles \subseteq troubles' /\ troubles' \subseteq TransferTroubles

\* The file may have all its bytes and lose the last ones, or be empty.
Proceed ==
  /\ answer = "none"
  /\ whole' \in BOOLEAN
  /\ Trouble
  /\ UNCHANGED <<secret, answer>>

\* Nil stands for a whole file, unless the key is wrong, the disk fails or
\* the time is over.  The last bytes may come with it.
Succeed ==
  /\ answer = "none"
  /\ answer' = "nil"
  /\ whole' \in BOOLEAN
  /\ whole' \/ secret = "wrong" \/ troubles \cap {"disk", "timeout"} # {}
  /\ UNCHANGED <<secret, troubles>>

\* An error has a reason.
Fail ==
  /\ answer = "none"
  /\ answer' = "error"
  /\ secret \in {"wrong", "malformed"} \/ troubles # {}
  /\ UNCHANGED <<secret, whole, troubles>>

\* The context is the caller's, and expires also when nobody uses it.
Afterwards ==
  /\ answer # "none"
  /\ Trouble
  /\ UNCHANGED <<secret, whole, answer>>

TransferNext == Proceed \/ Succeed \/ Fail \/ Afterwards
TransferSpec == TransferInit /\ [][TransferNext]_transferVars
=============================================================================
