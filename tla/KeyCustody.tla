----------------------------- MODULE KeyCustody -----------------------------
(***************************************************************************)
(* What an upgrade promises about the node key, and nothing of how.        *)
(*                                                                         *)
(* The key is sealed for the enclaves in holders and, for a while, is in   *)
(* the hands of a courier.  An enclave becomes a holder only by receiving  *)
(* the key from a courier that has it; a courier obtains it from a holder; *)
(* the enclave the configuration names is always a holder; and no holder   *)
(* is ever lost.                                                           *)
(***************************************************************************)
CONSTANT Enclave

VARIABLES holders, courier, configured
custody == <<holders, courier, configured>>

TypeOK ==
  /\ holders \subseteq Enclave
  /\ courier \in BOOLEAN
  /\ configured \in Enclave

Init ==
  /\ configured \in Enclave
  /\ holders = {configured}
  /\ courier = FALSE

Collect ==
  /\ holders # {}
  /\ courier' = TRUE
  /\ UNCHANGED <<holders, configured>>

Deliver ==
  /\ courier
  /\ \E e \in Enclave : holders' = holders \cup {e}
  /\ UNCHANGED <<courier, configured>>

Drop ==
  /\ courier' = FALSE
  /\ UNCHANGED <<holders, configured>>

Configure ==
  /\ configured' \in holders
  /\ UNCHANGED <<holders, courier>>

Next == Collect \/ Deliver \/ Drop \/ Configure

Spec == Init /\ [][Next]_custody

\* What every implementation inherits.
ConfiguredHolds == configured \in holders
=============================================================================
