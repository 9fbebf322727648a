---------------------------- MODULE WorkProcesses ----------------------------
(***************************************************************************)
(* The supervisor of a background command and the process group it leads   *)
(* (background-work/src/process-supervisor.mjs), as the operating system   *)
(* shows them to the Hosts that signal them (process.ts).                  *)
(*                                                                         *)
(* The supervisor waits for a private authorization file, spawns the       *)
(* command in its own group, and ends only when the group is empty.  Its   *)
(* number names its group; once both are gone the number may name an       *)
(* unrelated process.                                                      *)
(***************************************************************************)
EXTENDS Naturals

CONSTANT Tasks  \* activities; the number of the supervisor of each

VARIABLES
  sup,     \* the supervisor
  cmd,     \* the other members of its group
  said,    \* the last report it put into the control pipe
  paper,   \* its authorization file, or the acknowledgement that replaces it
  other    \* the unrelated process group that took the number

processVars == <<sup, cmd, said, paper, other>>

\* A "forked" supervisor has spawned its command and not yet installed its
\* signal handlers.
Living == {"waiting", "accepted", "forked", "watching", "stopping"}

ProcessTypeOK ==
  /\ sup \in [Tasks -> Living \cup {"none", "gone"}]
  /\ cmd \in [Tasks -> {"none", "alive", "gone"}]
  /\ said \in [Tasks -> {"ready", "started", "exit"}]
  /\ paper \in [Tasks -> {"none", "authorization", "acknowledgement"}]
  /\ other \in [Tasks -> {"none", "alive", "hurt"}]

ProcessInit ==
  /\ sup = [t \in Tasks |-> "none"]
  /\ cmd = [t \in Tasks |-> "none"]
  /\ said = [t \in Tasks |-> "ready"]
  /\ paper = [t \in Tasks |-> "none"]
  /\ other = [t \in Tasks |-> "none"]

\* identityMatches: number and start time are those that were recorded.
Identified(t) == sup[t] \in Living

\* processGroupExists: a number alone tells nobody whose group it is.
GroupExists(t) == Identified(t) \/ cmd[t] = "alive" \/ other[t] # "none"

-----------------------------------------------------------------------------
(* Signals *)

\* Without a handler the supervisor dies; with one it stops its command.
TermSupervisor(t) ==
  sup' = [sup EXCEPT ![t] = CASE @ \in {"waiting", "accepted", "forked"} -> "gone"
                              [] @ = "watching" -> "stopping"
                              [] OTHER -> @]

KillSupervisor(t) == sup' = [sup EXCEPT ![t] = IF @ \in Living THEN "gone" ELSE @]

\* A signal to the group reaches whoever holds the number.  Members may
\* outlive SIGTERM.
HurtOther(t) ==
  other' = [other EXCEPT ![t] = IF ~Identified(t) /\ @ = "alive" THEN "hurt" ELSE @]

TermGroup(t) ==
  TermSupervisor(t) /\ HurtOther(t) /\ UNCHANGED <<cmd, said, paper>>

KillGroup(t) ==
  /\ KillSupervisor(t) /\ HurtOther(t)
  /\ cmd' = [cmd EXCEPT ![t] = IF @ = "alive" THEN "gone" ELSE @]
  /\ UNCHANGED <<said, paper>>

-----------------------------------------------------------------------------
(* The supervisor; parent tells whether the Host that spawned it runs *)

\* commandAuthorizationText reads the file once it is there ...
Accept(t, parent) ==
  /\ sup[t] = "waiting" /\ parent
  /\ paper[t] = "authorization"
  /\ paper' = [paper EXCEPT ![t] = "acknowledgement"]
  /\ sup' = [sup EXCEPT ![t] = "accepted"]
  /\ UNCHANGED <<cmd, said, other>>

\* ... and gives up when the parent is gone.
Forsaken(t, parent) ==
  /\ sup[t] = "waiting" /\ ~parent
  /\ sup' = [sup EXCEPT ![t] = "gone"]
  /\ UNCHANGED <<cmd, said, paper, other>>

Fork(t) ==
  /\ sup[t] = "accepted"
  /\ sup' = [sup EXCEPT ![t] = "forked"]
  /\ cmd' = [cmd EXCEPT ![t] = "alive"]
  /\ UNCHANGED <<said, paper, other>>

\* A shell that cannot be spawned settles at once.
ForkFails(t) ==
  /\ sup[t] = "accepted"
  /\ sup' = [sup EXCEPT ![t] = "gone"]
  /\ said' = [said EXCEPT ![t] = "exit"]
  /\ UNCHANGED <<cmd, paper, other>>

\* The handlers are installed, and the parent is looked at once.
Handle(t, parent) ==
  /\ sup[t] = "forked"
  /\ sup' = [sup EXCEPT ![t] = IF parent THEN "watching" ELSE "stopping"]
  /\ UNCHANGED <<cmd, said, paper, other>>

SayStarted(t) ==
  /\ sup[t] \in {"watching", "stopping"} /\ said[t] = "ready"
  /\ said' = [said EXCEPT ![t] = "started"]
  /\ UNCHANGED <<sup, cmd, paper, other>>

\* A plausible slip, for the mutation runs: the parent is looked at before the launch only.
ParentLost_Never(t, parent) == FALSE

\* The timer set with the report finds the parent gone.
ParentLost(t, parent) ==
  /\ sup[t] = "watching" /\ said[t] = "started" /\ ~parent
  /\ sup' = [sup EXCEPT ![t] = "stopping"]
  /\ UNCHANGED <<cmd, said, paper, other>>

\* The last member of the group ends, by itself or signalled by stopChild.
CommandEnds(t) ==
  /\ cmd[t] = "alive"
  /\ cmd' = [cmd EXCEPT ![t] = "gone"]
  /\ UNCHANGED <<sup, said, paper, other>>

\* commandGroupMembers of settle
GroupEmpty(t) == cmd[t] = "gone"

Settle(t) ==
  /\ sup[t] \in {"watching", "stopping"} /\ GroupEmpty(t)
  /\ sup' = [sup EXCEPT ![t] = "gone"]
  /\ said' = [said EXCEPT ![t] = "exit"]
  /\ UNCHANGED <<cmd, paper, other>>

SupervisorStep(t, parent) ==
  \/ Accept(t, parent) \/ Forsaken(t, parent)
  \/ Fork(t) \/ ForkFails(t) \/ Handle(t, parent)
  \/ SayStarted(t) \/ ParentLost(t, parent) \/ Settle(t)

-----------------------------------------------------------------------------
(* The operating system *)

\* A supervisor is ended from outside.
LoseSupervisor(t) ==
  /\ KillSupervisor(t)
  /\ UNCHANGED <<cmd, said, paper, other>>

\* No number is given away while a group bears it.
Reuse(t) ==
  /\ sup[t] = "gone" /\ ~GroupExists(t)
  /\ other' = [other EXCEPT ![t] = "alive"]
  /\ UNCHANGED <<sup, cmd, said, paper>>
=============================================================================
