-------------------------- MODULE MCResultDelivery --------------------------
(* One result file and the Hosts that may deliver it. *)
EXTENDS ResultDelivery, TLC

CONSTANTS h1, h2

Symmetric == Permutations({h1, h2})
=============================================================================
