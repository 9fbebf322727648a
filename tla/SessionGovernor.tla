-------------------------- MODULE SessionGovernor --------------------------
(***************************************************************************)
(* Clients of one session's ledger: Pi Hosts, the hosts of child Agents    *)
(* and the concurrent operations inside them (session-governor.ts with the *)
(* handles its callers keep, agent-execution-governor.ts).                 *)
(*                                                                         *)
(* A client works for one owner path.  What it learned from a transaction  *)
(* stays in its memory and is used by later transactions, when the ledger  *)
(* may have moved on: a reservation (leases as they were acquired), a      *)
(* lease found by its runtime address, the leases a reconciliation found   *)
(* dead.                                                                   *)
(***************************************************************************)
EXTENDS SessionLedger

CONSTANTS
  Launches,     \* runs of this version of the session: UUIDs, so that none
                \* is the run of a historical record
  Clients,
  OwnerPath,    \* [Clients -> Path], <<>> for the root host
  Configured,   \* [Clients -> Limits], limits the client was configured with
  MaxBatch,     \* bound: children of one launch
  MaxTokens,    \* bound: leases ever acquired
  Times,        \* readings of the clock
  MaxWork,      \* bound: reported work of one Agent
  Histories     \* record sets a pre-upgrade session may import

ASSUME ClientsAssumption ==
  /\ Launches \subseteq Runs
  /\ OwnerPath \in [Clients -> Path]
  /\ Configured \in [Clients -> Limits]
  /\ Times \subseteq Nat
  /\ MaxBatch \in Nat /\ MaxTokens \in Nat /\ MaxWork \in Nat

\* importHistoricalAgents validates every record before the transaction.
HistoricalAgent ==
  [id : AgentId, owner : Path, limits : Limits, createdAt : Nat]

ASSUME HistoriesAssumption ==
  \A records \in Histories :
    /\ records \subseteq HistoricalAgent
    /\ IsFiniteSet(records)
    /\ \A r \in records : r.id[1] \notin Launches

VARIABLES
  created,  \* the ledger file exists
  ledger,   \* its contents
  issued,   \* lease ids drawn so far; randomUUID never repeats one
  client    \* what each client holds in memory

vars == <<created, ledger, issued, client>>

Idle == [op |-> "idle", leases |-> {}]

Holding(op, leases) == [op |-> op, leases |-> leases]

Memory == [op : {"idle", "spawn", "resume", "found", "observed"},
           leases : SUBSET Lease]

TypeOK ==
  /\ created \in BOOLEAN
  /\ ledger \in Ledger
  /\ issued \in Nat
  /\ client \in [Clients -> Memory]

\* The dummy limits of a ledger nobody created yet are never read.
Init ==
  /\ created = FALSE
  /\ ledger = EmptyLedger([maxDepth |-> 1, maxRunning |-> 1])
  /\ issued = 0
  /\ client = [c \in Clients |-> Idle]

-----------------------------------------------------------------------------
(* transact *)

\* What a transaction of client c starts from: a root host creates the
\* ledger it does not find.
Loaded(c) == IF created THEN ledger ELSE EmptyLedger(Configured[c])

\* A child host finds the ledger with its owner in it, or its transaction
\* throws.
CanTransact(c) ==
  OwnerPath[c] # <<>> => created /\ OwnerRegistered(ledger, OwnerPath[c])

LimitsOf(c) == EffectiveLimits(Loaded(c), OwnerPath[c], Configured[c])

Commit(c, L) == CanTransact(c) /\ created' = TRUE /\ ledger' = L

\* snapshot, and every transaction that ends in a refusal.
Snapshot(c) ==
  /\ Commit(c, Loaded(c))
  /\ UNCHANGED <<issued, client>>

-----------------------------------------------------------------------------
(* Acquisition *)

AcquireSpawn(c) ==
  /\ client[c] = Idle
  /\ MayExpand(Loaded(c), OwnerPath[c])
  /\ \E run \in Launches, n \in 1 .. MaxBatch, proc \in Procs, at \in Times :
       /\ issued + n <= MaxTokens
       /\ CanTransact(c)
       /\ SpawnAllowed(Loaded(c), OwnerPath[c], LimitsOf(c), run, n)
       /\ Commit(c, AfterSpawn(Loaded(c), OwnerPath[c], LimitsOf(c), run, n,
                               issued, proc, at))
       /\ issued' = issued + n
       /\ client' = [client EXCEPT ![c] = Holding("spawn",
                       SpawnedLeases(OwnerPath[c], run, n, issued, proc, at))]

AcquireResume(c) ==
  /\ client[c] = Idle
  /\ issued < MaxTokens
  /\ CanTransact(c)
  /\ \E a \in Loaded(c).agents, run \in Launches, acknowledged \in BOOLEAN,
        proc \in Procs, at \in Times :
       /\ ResumeAllowed(Loaded(c), OwnerPath[c], LimitsOf(c), a, run,
                        acknowledged)
       /\ Commit(c, AfterResume(Loaded(c), a, run, issued, proc, at))
       /\ issued' = issued + 1
       /\ client' = [client EXCEPT ![c] =
                       Holding("resume", {ResumedLease(a, run, issued, proc, at)})]

-----------------------------------------------------------------------------
(* Use of a reservation.  The reservation object keeps the leases as they
   were acquired, whatever becomes of them in the ledger. *)

HasReservation(c) == client[c].op \in {"spawn", "resume"}

\* rebindChild: a resume moves to index 0 of the run the engine assigned,
\* a launch keeps the indexes of its children.
Rebind(c) ==
  /\ HasReservation(c)
  /\ \E h \in client[c].leases, run \in Launches, proc \in Procs :
       LET index == IF client[c].op = "resume" THEN 0 ELSE h.index
       IN  /\ RebindAllowed(Loaded(c), h, run, index)
           /\ Commit(c, AfterRebind(Loaded(c), h, run, index, proc))
  /\ UNCHANGED <<issued, client>>

Release(c) ==
  /\ HasReservation(c) \/ client[c].op = "found"
  /\ \E h \in client[c].leases : Commit(c, AfterRelease(Loaded(c), h))
  /\ UNCHANGED <<issued, client>>

ReleaseBatch(c) ==
  /\ HasReservation(c)
  /\ BatchMatches(Loaded(c), client[c].leases)
  /\ Commit(c, AfterReleaseBatch(Loaded(c), client[c].leases))
  /\ UNCHANGED <<issued, client>>

AbortSpawnBatch(c) ==
  /\ client[c].op = "spawn"
  /\ RollbackMatches(Loaded(c), client[c].leases)
  /\ Commit(c, AfterAbort(Loaded(c), client[c].leases))
  /\ UNCHANGED <<issued, client>>

-----------------------------------------------------------------------------
(* completeRuntime: find the lease of a runtime address, then Release it *)

FindRuntimeLease(c) ==
  /\ client[c] = Idle
  /\ \E l \in Loaded(c).leases :
       client' = [client EXCEPT ![c] = Holding("found", {l})]
  /\ Commit(c, Loaded(c))
  /\ UNCHANGED issued

-----------------------------------------------------------------------------
(* reconcile: two transactions, with the processes inspected in between *)

ReconcileObserve(c) ==
  /\ client[c] = Idle
  /\ \E dead \in SUBSET Loaded(c).leases :
       /\ dead # {}
       /\ client' = [client EXCEPT ![c] = Holding("observed", dead)]
  /\ Commit(c, Loaded(c))
  /\ UNCHANGED issued

ReconcileReclaim(c) ==
  /\ client[c].op = "observed"
  /\ Commit(c, AfterReclaim(Loaded(c), client[c].leases))
  /\ client' = [client EXCEPT ![c] = Idle]
  /\ UNCHANGED issued

-----------------------------------------------------------------------------

RecordWorkAttempt(c) ==
  /\ \E a \in Loaded(c).agents :
       /\ a.owner = OwnerPath[c]
       /\ a.usage < MaxWork
       /\ Commit(c, AfterWork(Loaded(c), a, 1))
  /\ UNCHANGED <<issued, client>>

ImportHistoricalAgents(c) ==
  /\ OwnerPath[c] = <<>>
  /\ \E records \in Histories :
       /\ ImportAllowed(Loaded(c), records)
       /\ Commit(c, AfterImport(Loaded(c), records))
  /\ UNCHANGED <<issued, client>>

\* The client is done with what it holds, or its process died: a crash
\* leaves the ledger as the last rename committed it.
Forget(c) ==
  /\ client[c] # Idle
  /\ client' = [client EXCEPT ![c] = Idle]
  /\ UNCHANGED <<created, ledger, issued>>

Next == \E c \in Clients :
  \/ Snapshot(c)
  \/ AcquireSpawn(c)
  \/ AcquireResume(c)
  \/ Rebind(c)
  \/ Release(c)
  \/ ReleaseBatch(c)
  \/ AbortSpawnBatch(c)
  \/ FindRuntimeLease(c)
  \/ ReconcileObserve(c)
  \/ ReconcileReclaim(c)
  \/ RecordWorkAttempt(c)
  \/ ImportHistoricalAgents(c)
  \/ Forget(c)

Spec == Init /\ [][Next]_vars

-----------------------------------------------------------------------------
(* Properties *)

\* The ledger the session would next read passes every check of parseLedger:
\* the total counts the Agents, no Agent is recorded or leased twice, no two
\* leases answer to one runtime address, and each lease has its Agent.  A
\* ledger that fails a check is never overwritten, so the session could no
\* longer start, resume or release any Agent.
LedgerParses == Parses(ledger)

\* However many hosts reserve at once, the Agents that run never exceed the
\* running limit the session was created with.
RunningWithinLimit == Cardinality(ledger.leases) <= ledger.limits.maxRunning

\* Limits only tighten on the way down: no Agent is recorded with more than
\* the session allows, and a launched Agent is within the depth of its own
\* and of the session's limits (an imported one may lie deeper).
LimitsRespected ==
  /\ \A a \in ledger.agents :
       /\ a.limits.maxDepth <= ledger.limits.maxDepth
       /\ a.limits.maxRunning <= ledger.limits.maxRunning
  /\ \A l \in ledger.leases : l.mode = "spawn" =>
       \A a \in ledger.agents :
         a.id = l.id => Len(PathOf(a)) <= a.limits.maxDepth

\* The lease ids that some client knows from a transaction of its own.
KnownTokens == UNION {{h.token : h \in client[c].leases} : c \in Clients}

Tokens(L) == {l.token : l \in L.leases}

\* A lease disappears only through a client that was told this very lease
\* id.  A stale reservation, a stale completion and a reconciliation whose
\* observation is out of date leave the Agent's newer lease alone.
OnlyKnownLeaseRemoved ==
  [][Tokens(ledger) \ Tokens(ledger') \subseteq KnownTokens]_vars

\* The record of an Agent is kept, with owner, limits and accounting that
\* never go back, through releases, resumes, reconciliations and imports.
\* Only the launch that created it may erase it, together with its lease.
HistoryKept ==
  [][\A a \in ledger.agents :
       \/ \E b \in ledger'.agents :
            /\ b.id = a.id /\ b.owner = a.owner /\ b.limits = a.limits
            /\ b.createdAt = a.createdAt
            /\ b.usage >= a.usage /\ b.resumes >= a.resumes
       \/ /\ a.resumes = 0
          /\ \E l \in ledger.leases : l.id = a.id /\ l.mode = "spawn"
          /\ ~\E l \in ledger'.leases : l.id = a.id]_vars

FreshIds(L) == {l.id : l \in {k \in L.leases : k.mode = "spawn"}}

Slots == INSTANCE AgentSlots WITH
  cap     <- IF created THEN ledger.limits.maxRunning ELSE 0,
  roster  <- AgentIds(ledger),
  running <- LeasedIds(ledger),
  fresh   <- FreshIds(ledger)

\* The ledger implements the abstract slots: every transaction of every
\* client is one step of AgentSlots or invisible there.
ImplementsSlots == Slots!Spec

=============================================================================
