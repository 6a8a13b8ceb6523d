--------------------------- MODULE MCFileDownload ---------------------------
(* Sets of failures for FileDownload.                                      *)
EXTENDS FileDownload

AllFaultKinds == {"read", "disk", "timeout"}
=============================================================================
