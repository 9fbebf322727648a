--------------------------- MODULE MCBackgroundWork ---------------------------
(* A Host that launches a command and a Monitor, and one that comes later. *)
EXTENDS BackgroundWork

CONSTANTS h1, h2, t1, m1
=============================================================================
