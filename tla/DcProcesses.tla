---------------------------- MODULE DcProcesses ----------------------------
(***************************************************************************)
(* Every invocation of `dc` is a process of its own.  A process has one    *)
(* copy of the configuration (ManagerConfig) and makes one call of a       *)
(* container function at a time (ContainerOps).                            *)
(***************************************************************************)
CONSTANT Proc
=============================================================================
