-------------------------- MODULE MCFolderDownload --------------------------
(* Sets of failures for FolderDownload.                                    *)
EXTENDS FolderDownload

AllFaultKinds == {"read", "disk", "timeout", "peer"}
ReadFaults == {"read"}
=============================================================================
