------------------------ MODULE MCAgentCoordinator ------------------------
(* Launches and resumes of one Host, as instances of AgentCoordinator. *)
EXTENDS AgentCoordinator, TLC

CONSTANTS
  batch, one, again, other,        \* invocations
  launch, single, resumeA, resumeB,\* their launch run ids
  runA, runB,                      \* runs the engine assigns to resumes
  past,                            \* the run of the Agents that are resumed
  h1, h2                           \* Host processes

MCRuns == {launch, single, resumeA, resumeB, runA, runB, past}

MCProcs == MCRuns \cup Hosts

MCKind == batch :> "spawn" @@ one :> "spawn" @@ again :> "resume" @@ other :> "resume"
MCLaunch == batch :> launch @@ one :> single @@ again :> resumeA @@ other :> resumeB
MCRuntime == batch :> launch @@ one :> single @@ again :> runA @@ other :> runB
MCSize == batch :> 2 @@ one :> 1 @@ again :> 1 @@ other :> 1
MCTarget == again :> <<past, 0>> @@ other :> <<past, 1>>

\* Two Agents ran before and are at rest; `running` slots.
Ledger0(running) ==
  LET limits == [maxDepth |-> 2, maxRunning |-> running]
  IN  [limits |-> limits, total |-> 2, leases |-> {},
       agents |-> {[id |-> <<past, k>>, owner |-> <<>>, limits |-> limits,
                    createdAt |-> 0, usage |-> 0, resumes |-> 0] : k \in {0, 1}}]

MCTwoSlots == {Ledger0(2)}
MCEither == {Ledger0(1), Ledger0(2)}

\* With two slots, `batch` alone; with one slot, `one` against `again`, in a
\* Host that stays and fails in nothing.
Scenario ==
  IF ledger.limits.maxRunning = 1
  THEN dead = {} /\ phase[batch] = "idle" /\ generation = 0 /\ faults = 0
  ELSE phase[one] = "idle" /\ phase[again] = "idle"

HostsAlike == Permutations(Hosts)
===========================================================================
