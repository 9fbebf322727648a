-------------------------- MODULE RuntimeProcesses --------------------------
(***************************************************************************)
(* The operating-system side of Agent runs: Pi Hosts, detached runners     *)
(* behind their startup gate (runs/background/runner-process.ts), the      *)
(* writer process of each child Agent, and the verdict on a lease that     *)
(* agent-runtime-liveness.ts draws from them.                              *)
(*                                                                         *)
(* A lease names either the Host that reserved it (no recovery directory   *)
(* yet) or, once rebound, the run whose runner and writers keep it alive.  *)
(* A foreground run has no process of its own; the Host's execution frame  *)
(* takes the runner's place.                                               *)
(***************************************************************************)
EXTENDS SessionLedger

CONSTANTS
  Hosts     \* incarnations of the Pi Host process

ASSUME HostsAssumption == Procs = Hosts \cup Runs /\ Hosts \cap Runs = {}

VARIABLES
  host,      \* the Host process now running
  dead,      \* Hosts that died
  runner,    \* state of each run's runner
  writers,   \* addresses whose writer process is alive
  terminal,  \* addresses whose step has a terminal status on disk
  frames,    \* runs executed by the Host itself
  opened,    \* runs whose gate was opened: `acknowledged`
  aborted    \* runs whose start was aborted: `aborted`

processVars ==
  <<host, dead, runner, writers, terminal, frames, opened, aborted>>

\* "doomed" is a runner whose launch failed and that could not be reaped,
\* "ended" a foreground frame that recorded its end (owner-exit.ts).
RunnerState == {"none", "gated", "doomed", "working", "ended", "gone"}

ProcessesTypeOK ==
  /\ host \in Hosts /\ dead \subseteq Hosts
  /\ runner \in [Runs -> RunnerState]
  /\ writers \subseteq AgentId /\ terminal \subseteq AgentId
  /\ frames \subseteq Runs /\ opened \subseteq Runs /\ aborted \subseteq Runs

ProcessesInit ==
  /\ host \in Hosts
  /\ dead = {}
  /\ runner = [r \in Runs |-> "none"]
  /\ writers = {} /\ terminal = {}
  /\ frames = {} /\ opened = {} /\ aborted = {}

WritersOf(r) == {w \in writers : w[1] = r}
Started(r) == \E w \in writers \cup terminal : w[1] = r
NothingAlive(r) == runner[r] \in {"none", "gone"} /\ WritersOf(r) = {}

\* A plausible slip, for the mutation runs: a terminal status is taken for a dead process.
ProvablyDead_Semantic(l) ==
  IF l.proc \in Hosts THEN l.proc # host
  ELSE IF l.run = l.proc /\ RuntimeAddress(l) \in terminal THEN TRUE
  ELSE NothingAlive(l.proc)

\* runtimeProcessState = false.  A child whose step is terminal, or whose
\* foreground frame ended, depends on its own writer only; any other child on
\* the runner and all its writers.
ProvablyDead(l) ==
  IF l.proc \in Hosts THEN l.proc # host
  ELSE IF l.run = l.proc /\ (runner[l.run] = "ended" \/ RuntimeAddress(l) \in terminal)
  THEN RuntimeAddress(l) \notin writers
  ELSE NothingAlive(l.proc)

\* abortStart, when it can prove that nothing is left of the run.  The frame
\* of a foreground run is aborted only before its first child started.
Abortable(r) == r \in frames => ~Started(r)

Kill(rs) ==
  /\ runner' = [r \in Runs |-> IF r \in rs THEN "gone" ELSE runner[r]]
  /\ writers' = {w \in writers : w[1] \notin rs}
  /\ aborted' = aborted \cup rs
  /\ UNCHANGED <<host, dead, terminal, frames, opened>>

\* acknowledgeStart: only a runner still waiting behind its gate proceeds.
OpenGate(r) ==
  /\ opened' = opened \cup {r}
  /\ runner' = [runner EXCEPT ![r] = IF @ = "gated" THEN "working" ELSE @]
  /\ UNCHANGED <<host, dead, writers, terminal, frames, aborted>>

-----------------------------------------------------------------------------
(* Steps the processes take on their own *)

StartWriter(r, k) ==
  /\ runner[r] = "working"
  /\ <<r, k>> \notin writers \cup terminal
  /\ writers' = writers \cup {<<r, k>>}
  /\ UNCHANGED <<host, dead, runner, terminal, frames, opened, aborted>>

\* The runner, or for a runner that died the stale-run reconciler, records
\* the outcome of a child; its writer may linger.
ReportChild(r, k) ==
  /\ runner[r] \in {"working", "ended", "gone"}
  /\ <<r, k>> \notin terminal
  /\ terminal' = terminal \cup {<<r, k>>}
  /\ UNCHANGED <<host, dead, runner, writers, frames, opened, aborted>>

\* A writer ends by itself, or is reaped as an orphan.
ExitWriter(r, k) ==
  /\ <<r, k>> \in writers
  /\ writers' = writers \ {<<r, k>>}
  /\ UNCHANGED <<host, dead, runner, terminal, frames, opened, aborted>>

\* The runner is done or crashed, or gave up waiting behind its gate.
ExitRunner(r) ==
  /\ runner[r] \in {"gated", "doomed", "working"}
  /\ r \notin frames
  /\ runner' = [runner EXCEPT ![r] = "gone"]
  /\ UNCHANGED <<host, dead, writers, terminal, frames, opened, aborted>>

\* recoverForegroundRun: the execution frame failed, the Host lives on.
EndFrame(r) ==
  /\ r \in frames /\ runner[r] = "working"
  /\ runner' = [runner EXCEPT ![r] = "ended"]
  /\ UNCHANGED <<host, dead, writers, terminal, frames, opened, aborted>>

\* The Host dies; its frames die with it, detached runners do not.
RestartHost ==
  /\ \E h \in Hosts \ (dead \cup {host}) : host' = h
  /\ dead' = dead \cup {host}
  /\ runner' = [r \in Runs |->
                  IF r \in frames /\ runner[r] # "ended" THEN "gone"
                  ELSE runner[r]]
  /\ UNCHANGED <<writers, terminal, frames, opened, aborted>>
=============================================================================
