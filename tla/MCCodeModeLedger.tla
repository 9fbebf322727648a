-------------------------- MODULE MCCodeModeLedger --------------------------
(* Instances of CodeModeLedger for TLC: the Tools of a program. *)
EXTENDS CodeModeLedger

CONSTANTS
  write,  \* requires approval, never replayed
  fetch,  \* recorded
  read,   \* executed again
  step    \* a named step
=============================================================================
