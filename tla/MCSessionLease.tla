-------------------------- MODULE MCSessionLease --------------------------
(* Runners that compete for one session file, as instances of SessionLease. *)
EXTENDS SessionLease, TLC

CONSTANTS r1, r2, r3

MCRunners2 == {r1, r2}
MCRunners3 == {r1, r2, r3}

RunnersAlike == Permutations(Runners)
===========================================================================
