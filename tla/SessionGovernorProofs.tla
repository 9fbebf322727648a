----------------------- MODULE SessionGovernorProofs -----------------------
(***************************************************************************)
(* The safety of the session ledger under any number of clients, Agents,   *)
(* launches and nesting levels.  The inductive invariant says that the     *)
(* ledger is sound (SessionLedgerProofs) and that nothing is in it before  *)
(* it is created; one lemma per transaction carries each step.             *)
(***************************************************************************)
EXTENDS SessionGovernor, SessionLedgerProofs

IInv ==
  /\ TypeOK
  /\ Sound(ledger)
  /\ ~created => ledger.agents = {} /\ ledger.leases = {}

-----------------------------------------------------------------------------

\* Every transaction starts from a sound ledger.
LEMMA LoadedSound ==
  ASSUME IInv, NEW c \in Clients
  PROVE  Sound(Loaded(c))
BY ClientsAssumption, EmptySound DEF IInv, Loaded

\* A client reserves within the limits of the ledger it loaded.
LEMMA LimitsOfBound ==
  ASSUME IInv, NEW c \in Clients, CanTransact(c)
  PROVE  /\ LimitsOf(c) \in Limits
         /\ LimitsOf(c).maxDepth <= Loaded(c).limits.maxDepth
         /\ LimitsOf(c).maxRunning <= Loaded(c).limits.maxRunning
<1>1. OwnerPath[c] \in Path /\ Configured[c] \in Limits
  BY ClientsAssumption
<1>2. OwnerPath[c] # <<>> => OwnerRegistered(Loaded(c), OwnerPath[c])
  BY DEF CanTransact, Loaded
<1>. QED BY <1>1, <1>2, LoadedSound, EffectiveLimitsBound DEF LimitsOf

\* A commit of a sound ledger that leaves the clients well-typed.
LEMMA CommitInv ==
  ASSUME IInv, NEW c \in Clients, NEW L, Sound(L), Commit(c, L),
         issued' \in Nat, client' \in [Clients -> Memory]
  PROVE  IInv'
BY DEF IInv, Commit, TypeOK, Sound

LEMMA InitInv == Init => IInv
<1> SUFFICES ASSUME Init PROVE IInv
  OBVIOUS
<1>1. [maxDepth |-> 1, maxRunning |-> 1] \in Limits
  BY DEF Limits
<1>2. Sound(ledger)
  BY <1>1, EmptySound DEF Init
<1>. QED BY <1>2 DEF Init, IInv, TypeOK, Memory, Idle, EmptyLedger, Sound

LEMMA NextInv == IInv /\ [Next]_vars => IInv'
<1> SUFFICES ASSUME IInv, [Next]_vars PROVE IInv'
  OBVIOUS
<1>. USE DEF IInv
<1>1. CASE UNCHANGED vars
  BY <1>1 DEF vars, TypeOK
<1>2. ASSUME NEW c \in Clients, Snapshot(c) PROVE IInv'
  BY <1>2, LoadedSound, CommitInv DEF Snapshot, TypeOK
<1>3. ASSUME NEW c \in Clients, AcquireSpawn(c) PROVE IInv'
  <2>1. PICK run \in Launches, n \in 1 .. MaxBatch, proc \in Procs, at \in Times :
          /\ CanTransact(c)
          /\ SpawnAllowed(Loaded(c), OwnerPath[c], LimitsOf(c), run, n)
          /\ Commit(c, AfterSpawn(Loaded(c), OwnerPath[c], LimitsOf(c), run, n,
                                  issued, proc, at))
          /\ issued' = issued + n
          /\ client' = [client EXCEPT ![c] = Holding("spawn",
                          SpawnedLeases(OwnerPath[c], run, n, issued, proc, at))]
    BY <1>3 DEF AcquireSpawn
  <2>2. /\ OwnerPath[c] \in Path /\ run \in Runs /\ n \in Nat /\ at \in Nat
        /\ issued \in Nat
    BY ClientsAssumption DEF TypeOK
  <2>3. /\ Sound(AfterSpawn(Loaded(c), OwnerPath[c], LimitsOf(c), run, n,
                            issued, proc, at))
        /\ SpawnedLeases(OwnerPath[c], run, n, issued, proc, at) \subseteq Lease
    BY <2>1, <2>2, LoadedSound, LimitsOfBound, SpawnSound
  <2>. QED BY <2>1, <2>2, <2>3, CommitInv DEF TypeOK, Memory, Holding
<1>4. ASSUME NEW c \in Clients, AcquireResume(c) PROVE IInv'
  <2>1. PICK a \in Loaded(c).agents, run \in Launches, acknowledged \in BOOLEAN,
             proc \in Procs, at \in Times :
          /\ CanTransact(c)
          /\ ResumeAllowed(Loaded(c), OwnerPath[c], LimitsOf(c), a, run,
                           acknowledged)
          /\ Commit(c, AfterResume(Loaded(c), a, run, issued, proc, at))
          /\ issued' = issued + 1
          /\ client' = [client EXCEPT ![c] =
               Holding("resume", {ResumedLease(a, run, issued, proc, at)})]
    BY <1>4 DEF AcquireResume
  <2>2. /\ OwnerPath[c] \in Path /\ run \in Runs /\ at \in Nat /\ issued \in Nat
    BY ClientsAssumption DEF TypeOK
  <2>3. /\ Sound(AfterResume(Loaded(c), a, run, issued, proc, at))
        /\ ResumedLease(a, run, issued, proc, at) \in Lease
    BY <2>1, <2>2, LoadedSound, LimitsOfBound, ResumeSound
  <2>. QED BY <2>1, <2>2, <2>3, CommitInv DEF TypeOK, Memory, Holding
<1>5. ASSUME NEW c \in Clients, Rebind(c) PROVE IInv'
  <2>1. PICK h \in client[c].leases, run \in Launches, proc \in Procs :
          LET index == IF client[c].op = "resume" THEN 0 ELSE h.index
          IN  /\ RebindAllowed(Loaded(c), h, run, index)
              /\ Commit(c, AfterRebind(Loaded(c), h, run, index, proc))
    BY <1>5 DEF Rebind
  <2>. DEFINE index == IF client[c].op = "resume" THEN 0 ELSE h.index
  <2>2. h \in Lease /\ run \in Runs
    BY ClientsAssumption DEF TypeOK, Memory
  <2>3. index \in Nat
    BY <2>1, <2>2 DEF Lease
  <2>5. /\ RebindAllowed(Loaded(c), h, run, index)
        /\ Commit(c, AfterRebind(Loaded(c), h, run, index, proc))
    BY <2>1
  <2>. HIDE DEF index
  <2>4. Sound(AfterRebind(Loaded(c), h, run, index, proc))
    BY <2>2, <2>3, <2>5, LoadedSound, RebindSound
  <2>. QED BY <1>5, <2>4, <2>5, CommitInv DEF Rebind, TypeOK
<1>6. ASSUME NEW c \in Clients, Release(c) PROVE IInv'
  <2>1. PICK h \in client[c].leases : Commit(c, AfterRelease(Loaded(c), h))
    BY <1>6 DEF Release
  <2>2. Sound(AfterRelease(Loaded(c), h))
    BY LoadedSound, ReleaseSound
  <2>. QED BY <1>6, <2>1, <2>2, CommitInv DEF Release, TypeOK
<1>7. ASSUME NEW c \in Clients, ReleaseBatch(c) PROVE IInv'
  <2>1. Sound(AfterReleaseBatch(Loaded(c), client[c].leases))
    BY LoadedSound, ReleaseBatchSound
  <2>. QED BY <1>7, <2>1, CommitInv DEF ReleaseBatch, TypeOK
<1>8. ASSUME NEW c \in Clients, AbortSpawnBatch(c) PROVE IInv'
  <2>1. Sound(AfterAbort(Loaded(c), client[c].leases))
    BY <1>8, LoadedSound, AbortSound DEF AbortSpawnBatch
  <2>. QED BY <1>8, <2>1, CommitInv DEF AbortSpawnBatch, TypeOK
<1>9. ASSUME NEW c \in Clients, FindRuntimeLease(c) PROVE IInv'
  <2>1. PICK l \in Loaded(c).leases :
          client' = [client EXCEPT ![c] = Holding("found", {l})]
    BY <1>9 DEF FindRuntimeLease
  <2>2. l \in Lease
    BY LoadedSound DEF Sound, Ledger
  <2>. QED BY <1>9, <2>1, <2>2, LoadedSound, CommitInv
       DEF FindRuntimeLease, TypeOK, Memory, Holding
<1>10. ASSUME NEW c \in Clients, ReconcileObserve(c) PROVE IInv'
  <2>1. PICK dead \in SUBSET Loaded(c).leases :
          client' = [client EXCEPT ![c] = Holding("observed", dead)]
    BY <1>10 DEF ReconcileObserve
  <2>2. dead \subseteq Lease
    BY LoadedSound DEF Sound, Ledger
  <2>. QED BY <1>10, <2>1, <2>2, LoadedSound, CommitInv
       DEF ReconcileObserve, TypeOK, Memory, Holding
<1>11. ASSUME NEW c \in Clients, ReconcileReclaim(c) PROVE IInv'
  <2>1. Sound(AfterReclaim(Loaded(c), client[c].leases))
    BY LoadedSound, ReclaimSound
  <2>. QED BY <1>11, <2>1, CommitInv DEF ReconcileReclaim, TypeOK, Memory, Idle
<1>12. ASSUME NEW c \in Clients, RecordWorkAttempt(c) PROVE IInv'
  <2>1. PICK a \in Loaded(c).agents : Commit(c, AfterWork(Loaded(c), a, 1))
    BY <1>12 DEF RecordWorkAttempt
  <2>2. Sound(AfterWork(Loaded(c), a, 1))
    BY LoadedSound, WorkSound
  <2>. QED BY <1>12, <2>1, <2>2, CommitInv DEF RecordWorkAttempt, TypeOK
<1>13. ASSUME NEW c \in Clients, ImportHistoricalAgents(c) PROVE IInv'
  <2>1. PICK records \in Histories :
          /\ ImportAllowed(Loaded(c), records)
          /\ Commit(c, AfterImport(Loaded(c), records))
    BY <1>13 DEF ImportHistoricalAgents
  <2>2. Sound(AfterImport(Loaded(c), records))
    BY <2>1, LoadedSound, ImportSound, HistoriesAssumption DEF HistoricalAgent
  <2>. QED BY <1>13, <2>1, <2>2, CommitInv DEF ImportHistoricalAgents, TypeOK
<1>14. ASSUME NEW c \in Clients, Forget(c) PROVE IInv'
  BY <1>14 DEF Forget, TypeOK, Memory, Idle
<1>. QED BY <1>1, <1>2, <1>3, <1>4, <1>5, <1>6, <1>7, <1>8, <1>9, <1>10,
     <1>11, <1>12, <1>13, <1>14 DEF Next

\* The inductive invariant holds in every reachable state.
THEOREM Invariance == Spec => []IInv
BY InitInv, NextInv, PTL DEF Spec

\* Type correctness, for every set of clients, runs and limits.
THEOREM TypeCorrect == Spec => []TypeOK
<1>1. IInv => TypeOK
  BY DEF IInv
<1>. QED BY <1>1, Invariance, PTL

\* Every ledger that was ever committed can be read back: no interleaving of
\* reservations, rebinds, stale releases, roll-backs, reconciliations and
\* imports leaves the session with a file that parseLedger refuses.
THEOREM LedgerAlwaysParses == Spec => []LedgerParses
<1>1. IInv => LedgerParses
  BY DEF IInv, Sound, LedgerParses
<1>. QED BY <1>1, Invariance, PTL

\* Hosts that race for the last slots never overbook the session.
THEOREM NeverOverbooked == Spec => []RunningWithinLimit
<1>1. IInv => RunningWithinLimit
  BY DEF IInv, Sound, RunningWithinLimit
<1>. QED BY <1>1, Invariance, PTL

-----------------------------------------------------------------------------
(* What a step of any client may do to the ledger, and that the ledger
   implements AgentSlots.  Every step commits the result of one transaction,
   so each property is a fact about two ledgers and what the client held. *)

\* M is what a client that holds the leases `held` may commit after loading L.
Transaction(L, M, held) ==
  \/ M = L
  \/ \E path \in Path, limits \in Limits, run \in Runs, n \in Nat,
        token \in Nat, proc \in Procs, at \in Nat :
       /\ SpawnAllowed(L, path, limits, run, n)
       /\ M = AfterSpawn(L, path, limits, run, n, token, proc, at)
  \/ \E path \in Path, limits \in Limits, a \in L.agents, run \in Runs,
        acknowledged \in BOOLEAN, token \in Nat, proc \in Procs, at \in Nat :
       /\ ResumeAllowed(L, path, limits, a, run, acknowledged)
       /\ M = AfterResume(L, a, run, token, proc, at)
  \/ \E h \in held, run \in Runs, index \in Nat, proc \in Procs :
       M = AfterRebind(L, h, run, index, proc)
  \/ \E h \in held : M = AfterRelease(L, h)
  \/ BatchMatches(L, held) /\ M = AfterReleaseBatch(L, held)
  \/ RollbackMatches(L, held) /\ M = AfterAbort(L, held)
  \/ M = AfterReclaim(L, held)
  \/ \E a \in L.agents : M = AfterWork(L, a, 1)
  \/ \E records \in SUBSET HistoricalAgent : M = AfterImport(L, records)

\* An Agent in the run its launch gave it was never resumed and lies within
\* the depth of its limits.
FirstRuns(L) ==
  \A l \in L.leases, a \in L.agents :
    l.mode = "spawn" /\ l.id = a.id =>
      a.resumes = 0 /\ Len(PathOf(a)) <= a.limits.maxDepth

\* HistoryKept, for one Agent.
KeptOrUndone(a, L, M) ==
  \/ \E b \in M.agents :
       /\ b.id = a.id /\ b.owner = a.owner /\ b.limits = a.limits
       /\ b.createdAt = a.createdAt
       /\ b.usage >= a.usage /\ b.resumes >= a.resumes
  \/ /\ a.resumes = 0
     /\ \E l \in L.leases : l.id = a.id /\ l.mode = "spawn"
     /\ ~\E l \in M.leases : l.id = a.id

-----------------------------------------------------------------------------

\* A ledger that was not created yet is as empty as the one it starts from.
LEMMA LoadedContents ==
  ASSUME IInv, NEW c \in Clients
  PROVE  Loaded(c).agents = ledger.agents /\ Loaded(c).leases = ledger.leases
BY DEF IInv, Loaded, EmptyLedger

\* Each action commits a transaction of its client, or leaves the ledger.
LEMMA StepIsTransaction ==
  ASSUME IInv, Next
  PROVE  \/ UNCHANGED <<created, ledger>>
         \/ \E c \in Clients :
              created' = TRUE /\ Transaction(Loaded(c), ledger', client[c].leases)
<1>1. \A c \in Clients : OwnerPath[c] \in Path /\ client[c] \in Memory
  BY ClientsAssumption DEF IInv, TypeOK
<1>2. issued \in Nat
  BY DEF IInv, TypeOK
<1>3. ASSUME NEW c \in Clients,
             \/ Snapshot(c) \/ FindRuntimeLease(c) \/ ReconcileObserve(c)
      PROVE  created' = TRUE /\ Transaction(Loaded(c), ledger', client[c].leases)
  BY <1>3 DEF Snapshot, FindRuntimeLease, ReconcileObserve, Commit, Transaction
<1>4. ASSUME NEW c \in Clients, AcquireSpawn(c)
      PROVE  created' = TRUE /\ Transaction(Loaded(c), ledger', client[c].leases)
  <2>1. PICK run \in Launches, n \in 1 .. MaxBatch, proc \in Procs, at \in Times :
          /\ CanTransact(c)
          /\ SpawnAllowed(Loaded(c), OwnerPath[c], LimitsOf(c), run, n)
          /\ Commit(c, AfterSpawn(Loaded(c), OwnerPath[c], LimitsOf(c), run, n,
                                  issued, proc, at))
    BY <1>4 DEF AcquireSpawn
  <2>2. /\ run \in Runs /\ n \in Nat /\ at \in Nat
        /\ LimitsOf(c) \in Limits
    BY <2>1, ClientsAssumption, LimitsOfBound
  <2>. QED BY <1>1, <1>2, <2>1, <2>2 DEF Commit, Transaction
<1>5. ASSUME NEW c \in Clients, AcquireResume(c)
      PROVE  created' = TRUE /\ Transaction(Loaded(c), ledger', client[c].leases)
  <2>1. PICK a \in Loaded(c).agents, run \in Launches, acknowledged \in BOOLEAN,
             proc \in Procs, at \in Times :
          /\ CanTransact(c)
          /\ ResumeAllowed(Loaded(c), OwnerPath[c], LimitsOf(c), a, run,
                           acknowledged)
          /\ Commit(c, AfterResume(Loaded(c), a, run, issued, proc, at))
    BY <1>5 DEF AcquireResume
  <2>2. run \in Runs /\ at \in Nat /\ LimitsOf(c) \in Limits
    BY <2>1, ClientsAssumption, LimitsOfBound
  <2>. QED BY <1>1, <1>2, <2>1, <2>2 DEF Commit, Transaction
<1>6. ASSUME NEW c \in Clients, Rebind(c)
      PROVE  created' = TRUE /\ Transaction(Loaded(c), ledger', client[c].leases)
  <2>1. PICK h \in client[c].leases, run \in Launches, proc \in Procs :
          LET index == IF client[c].op = "resume" THEN 0 ELSE h.index
          IN  Commit(c, AfterRebind(Loaded(c), h, run, index, proc))
    BY <1>6 DEF Rebind
  <2>. DEFINE index == IF client[c].op = "resume" THEN 0 ELSE h.index
  <2>2. run \in Runs /\ index \in Nat
    BY <1>1, ClientsAssumption DEF Memory, Lease
  <2>3. Commit(c, AfterRebind(Loaded(c), h, run, index, proc))
    BY <2>1
  <2>. HIDE DEF index
  <2>. QED BY <2>2, <2>3 DEF Commit, Transaction
<1>7. ASSUME NEW c \in Clients,
             Release(c) \/ ReleaseBatch(c) \/ AbortSpawnBatch(c) \/ ReconcileReclaim(c)
      PROVE  created' = TRUE /\ Transaction(Loaded(c), ledger', client[c].leases)
  BY <1>7 DEF Release, ReleaseBatch, AbortSpawnBatch, ReconcileReclaim, Commit,
              Transaction
<1>8. ASSUME NEW c \in Clients, RecordWorkAttempt(c)
      PROVE  created' = TRUE /\ Transaction(Loaded(c), ledger', client[c].leases)
  BY <1>8 DEF RecordWorkAttempt, Commit, Transaction
<1>9. ASSUME NEW c \in Clients, ImportHistoricalAgents(c)
      PROVE  created' = TRUE /\ Transaction(Loaded(c), ledger', client[c].leases)
  BY <1>9, HistoriesAssumption DEF ImportHistoricalAgents, Commit, Transaction
<1>10. ASSUME NEW c \in Clients, Forget(c) PROVE UNCHANGED <<created, ledger>>
  BY <1>10 DEF Forget
<1>. QED BY <1>3, <1>4, <1>5, <1>6, <1>7, <1>8, <1>9, <1>10 DEF Next

-----------------------------------------------------------------------------
(* What a transaction keeps, for any sound ledger *)

\* No transaction resumes an Agent, or deepens it, in its launch's own run.
LEMMA FirstRunsKept ==
  ASSUME NEW L, NEW M, NEW held, Sound(L), FirstRuns(L), Transaction(L, M, held)
  PROVE  FirstRuns(M)
<1>0. /\ \A l \in L.leases : \E a \in L.agents : a.id = l.id
      /\ L \in Ledger
  BY DEF Sound, Parses, LeasesMatchAgents
<1>. USE DEF FirstRuns, PathOf
<1>1. CASE M = L
  BY <1>1
<1>2. ASSUME NEW path \in Path, NEW limits \in Limits, NEW run \in Runs,
             NEW n \in Nat, NEW token \in Nat, NEW proc \in Procs, NEW at \in Nat,
             SpawnAllowed(L, path, limits, run, n),
             M = AfterSpawn(L, path, limits, run, n, token, proc, at)
      PROVE  FirstRuns(M)
  <2>. DEFINE A == SpawnedAgents(path, limits, run, n, at)
              S == SpawnedLeases(path, run, n, token, proc, at)
  <2>1. M.agents = L.agents \cup A /\ M.leases = L.leases \cup S
    BY <1>0, <1>2 DEF AfterSpawn, Ledger
  <2>2. \A a \in A : /\ a.id \in BatchIds(run, n) /\ a.resumes = 0
                     /\ a.owner = path /\ a.limits = limits
    BY DEF SpawnedAgents, BatchIds
  <2>3. \A l \in S : l.id \in BatchIds(run, n)
    BY DEF SpawnedLeases, BatchIds
  <2>4. /\ \A a \in L.agents : a.id \notin BatchIds(run, n)
        /\ Len(path) + 1 <= limits.maxDepth
    BY <1>2 DEF SpawnAllowed, AgentIds
  <2>5. \A a \in A : Len(Append(a.owner, a.id)) <= a.limits.maxDepth
    BY <2>2, <2>4 DEF Path
  <2>. HIDE DEF A, S
  <2>. QED BY <1>0, <2>1, <2>2, <2>3, <2>4, <2>5
<1>3. ASSUME NEW path \in Path, NEW limits \in Limits, NEW b \in L.agents,
             NEW run \in Runs, NEW acknowledged \in BOOLEAN, NEW token \in Nat,
             NEW proc \in Procs, NEW at \in Nat,
             ResumeAllowed(L, path, limits, b, run, acknowledged),
             M = AfterResume(L, b, run, token, proc, at)
      PROVE  FirstRuns(M)
  <2>. DEFINE r == ResumedLease(b, run, token, proc, at)
              d == [b EXCEPT !.resumes = @ + 1]
  <2>1. M.agents = (L.agents \ {b}) \cup {d} /\ M.leases = L.leases \cup {r}
    BY <1>0, <1>3 DEF AfterResume, Ledger
  <2>2. r.mode # "spawn" /\ d.id = b.id
    BY <1>0 DEF ResumedLease, Ledger, Agent
  <2>3. \A l \in L.leases : l.id # b.id
    BY <1>3 DEF ResumeAllowed, LeasedIds
  <2>. HIDE DEF r, d
  <2>. QED BY <2>1, <2>2, <2>3
<1>4. ASSUME NEW h \in held, NEW run \in Runs, NEW index \in Nat, NEW proc \in Procs,
             M = AfterRebind(L, h, run, index, proc)
      PROVE  FirstRuns(M)
  <2>1. M.agents = L.agents
    BY <1>0, <1>4 DEF AfterRebind, Ledger
  <2>2. \A m \in M.leases : \E l \in L.leases : l.id = m.id /\ l.mode = m.mode
    BY <1>0, <1>4 DEF AfterRebind, Ledger, Lease, Current
  <2>. QED BY <2>1, <2>2
<1>5. CASE \/ \E h \in held : M = AfterRelease(L, h)
           \/ M = AfterReleaseBatch(L, held)
           \/ M = AfterAbort(L, held)
           \/ M = AfterReclaim(L, held)
  <2>1. M.agents \subseteq L.agents /\ M.leases \subseteq L.leases
    BY <1>0, <1>5
       DEF AfterRelease, AfterReleaseBatch, AfterAbort, AfterReclaim, Ledger
  <2>. QED BY <2>1
<1>6. ASSUME NEW b \in L.agents, M = AfterWork(L, b, 1) PROVE FirstRuns(M)
  <2>. DEFINE d == [b EXCEPT !.usage = @ + 1]
  <2>1. M.agents = (L.agents \ {b}) \cup {d} /\ M.leases = L.leases
    BY <1>0, <1>6 DEF AfterWork, Ledger
  <2>2. /\ d.id = b.id /\ d.resumes = b.resumes /\ d.owner = b.owner
        /\ d.limits = b.limits
    BY <1>0 DEF Ledger, Agent
  <2>. HIDE DEF d
  <2>. QED BY <2>1, <2>2
<1>7. ASSUME NEW records \in SUBSET HistoricalAgent, M = AfterImport(L, records)
      PROVE  FirstRuns(M)
  <2>1. M.agents = L.agents \cup ImportedAgents(L, records) /\ M.leases = L.leases
    BY <1>0, <1>7 DEF AfterImport, Ledger
  <2>2. \A a \in ImportedAgents(L, records) : \A b \in L.agents : a.id # b.id
    BY DEF ImportedAgents, AgentIds
  <2>. QED BY <1>0, <2>1, <2>2
<1>. QED BY <1>1, <1>2, <1>3, <1>4, <1>5, <1>6, <1>7 DEF Transaction

\* A transaction removes leases whose ids its client holds, and no others.
LEMMA OnlyHeldRemoved ==
  ASSUME NEW L, NEW M, NEW held, Sound(L), Transaction(L, M, held)
  PROVE  Tokens(L) \ Tokens(M) \subseteq {h.token : h \in held}
<1>0. L \in Ledger /\ UniqueLeases(L)
  BY DEF Sound, Parses
<1>. SUFFICES ASSUME NEW l \in L.leases, l.token \notin Tokens(M)
              PROVE  \E h \in held : h.token = l.token
  BY DEF Tokens
<1>1. \A m \in M.leases : m.token # l.token
  BY DEF Tokens
<1>2. CASE L.leases \subseteq M.leases
  BY <1>1, <1>2
<1>3. ASSUME NEW h \in held, NEW run \in Runs, NEW index \in Nat, NEW proc \in Procs,
             M = AfterRebind(L, h, run, index, proc)
      PROVE  FALSE
  <2>1. M.leases = (L.leases \ Current(L, h)) \cup
          {[k EXCEPT !.run = run, !.index = index, !.proc = proc] :
             k \in Current(L, h)}
    BY <1>0, <1>3 DEF AfterRebind, Ledger
  <2>2. l \in Current(L, h)
    BY <1>1, <2>1
  <2>. DEFINE m == [l EXCEPT !.run = run, !.index = index, !.proc = proc]
  <2>3. m \in M.leases
    BY <2>1, <2>2
  <2>4. m.token = l.token
    BY <1>0 DEF Ledger, Lease
  <2>. QED BY <1>1, <2>3, <2>4
<1>4. ASSUME NEW h \in held, M = AfterRelease(L, h) PROVE h.token = l.token
  BY <1>0, <1>1, <1>4 DEF AfterRelease, Current, Ledger
<1>5. CASE BatchMatches(L, held) /\ l.id \in HandleIds(held)
  BY <1>0, <1>5 DEF BatchMatches, HandleIds, Current, UniqueLeases
<1>6. CASE /\ BatchMatches(L, held)
           /\ M = AfterReleaseBatch(L, held) \/ M = AfterAbort(L, held)
  <2>1. M.leases = {m \in L.leases : m.id \notin HandleIds(held)}
    BY <1>0, <1>6 DEF AfterReleaseBatch, AfterAbort, Ledger
  <2>2. l.id \in HandleIds(held)
    BY <1>1, <2>1
  <2>. QED BY <1>5, <1>6, <2>2
<1>7. CASE M = AfterReclaim(L, held)
  BY <1>0, <1>1, <1>7 DEF AfterReclaim, Ledger
<1>8. CASE M = L
  BY <1>2, <1>8
<1>9. ASSUME NEW path \in Path, NEW limits \in Limits, NEW run \in Runs,
             NEW n \in Nat, NEW token \in Nat, NEW proc \in Procs, NEW at \in Nat,
             M = AfterSpawn(L, path, limits, run, n, token, proc, at)
      PROVE  FALSE
  BY <1>0, <1>1, <1>9 DEF AfterSpawn, Ledger
<1>10. ASSUME NEW a \in L.agents, NEW run \in Runs, NEW token \in Nat,
              NEW proc \in Procs, NEW at \in Nat,
              M = AfterResume(L, a, run, token, proc, at)
       PROVE  FALSE
  BY <1>0, <1>1, <1>10 DEF AfterResume, Ledger
<1>11. ASSUME NEW a \in L.agents, M = AfterWork(L, a, 1) PROVE FALSE
  BY <1>0, <1>1, <1>11 DEF AfterWork, Ledger
<1>12. ASSUME NEW records \in SUBSET HistoricalAgent, M = AfterImport(L, records)
       PROVE  FALSE
  BY <1>0, <1>1, <1>12 DEF AfterImport, Ledger
<1>13. CASE RollbackMatches(L, held) /\ M = AfterAbort(L, held)
  BY <1>6, <1>13 DEF RollbackMatches
<1>. QED BY <1>3, <1>4, <1>6, <1>7, <1>8, <1>9, <1>10, <1>11, <1>12, <1>13
         DEF Transaction

\* An Agent's record stays with what it accounts for, or its launch is undone.
LEMMA HistoryKeptByTransaction ==
  ASSUME NEW L, NEW M, NEW held, Sound(L), FirstRuns(L), Transaction(L, M, held),
         NEW a \in L.agents
  PROVE  KeptOrUndone(a, L, M)
<1>0. L \in Ledger /\ UniqueAgents(L) /\ a \in Agent
  BY DEF Sound, Parses, Ledger
<1>1. a.usage >= a.usage /\ a.resumes >= a.resumes
  BY <1>0 DEF Agent
<1>2. CASE a \in M.agents
  BY <1>1, <1>2 DEF KeptOrUndone
<1>3. CASE M = L
  BY <1>2, <1>3
<1>4. ASSUME NEW path \in Path, NEW limits \in Limits, NEW run \in Runs,
             NEW n \in Nat, NEW token \in Nat, NEW proc \in Procs, NEW at \in Nat,
             M = AfterSpawn(L, path, limits, run, n, token, proc, at)
      PROVE  KeptOrUndone(a, L, M)
  BY <1>0, <1>2, <1>4 DEF AfterSpawn, Ledger
<1>5. ASSUME NEW b \in L.agents, NEW run \in Runs, NEW token \in Nat,
             NEW proc \in Procs, NEW at \in Nat,
             M = AfterResume(L, b, run, token, proc, at)
      PROVE  KeptOrUndone(a, L, M)
  <2>. DEFINE d == [b EXCEPT !.resumes = @ + 1]
  <2>1. M.agents = (L.agents \ {b}) \cup {d}
    BY <1>0, <1>5 DEF AfterResume, Ledger
  <2>2. /\ d.id = b.id /\ d.owner = b.owner /\ d.limits = b.limits
        /\ d.createdAt = b.createdAt /\ d.usage >= b.usage
        /\ d.resumes >= b.resumes
    BY <1>0 DEF Ledger, Agent
  <2>3. CASE a = b
    BY <2>1, <2>2, <2>3 DEF KeptOrUndone
  <2>. QED BY <1>2, <2>1, <2>3
<1>6. ASSUME NEW b \in L.agents, M = AfterWork(L, b, 1)
      PROVE  KeptOrUndone(a, L, M)
  <2>. DEFINE d == [b EXCEPT !.usage = @ + 1]
  <2>1. M.agents = (L.agents \ {b}) \cup {d}
    BY <1>0, <1>6 DEF AfterWork, Ledger
  <2>2. /\ d.id = b.id /\ d.owner = b.owner /\ d.limits = b.limits
        /\ d.createdAt = b.createdAt /\ d.usage >= b.usage
        /\ d.resumes >= b.resumes
    BY <1>0 DEF Ledger, Agent
  <2>3. CASE a = b
    BY <2>1, <2>2, <2>3 DEF KeptOrUndone
  <2>. QED BY <1>2, <2>1, <2>3
<1>7. CASE RollbackMatches(L, held) /\ M = AfterAbort(L, held)
  <2>1. /\ M.agents = {b \in L.agents : b.id \notin HandleIds(held)}
        /\ M.leases = {l \in L.leases : l.id \notin HandleIds(held)}
    BY <1>0, <1>7 DEF AfterReleaseBatch, AfterAbort, Ledger
  <2>2. CASE a.id \in HandleIds(held)
    <3>1. \E l \in L.leases : l.id = a.id /\ l.mode = "spawn"
      BY <1>7, <2>2 DEF RollbackMatches, BatchMatches, Current, HandleIds
    <3>2. a.resumes = 0
      BY <3>1 DEF FirstRuns
    <3>. QED BY <2>1, <2>2, <3>1, <3>2 DEF KeptOrUndone
  <2>. QED BY <1>2, <2>1, <2>2
<1>8. CASE \/ \E h \in held : M = AfterRelease(L, h)
           \/ \E h \in held, run \in Runs, index \in Nat, proc \in Procs :
                M = AfterRebind(L, h, run, index, proc)
           \/ M = AfterReleaseBatch(L, held)
           \/ M = AfterReclaim(L, held)
  <2>1. M.agents = L.agents
    BY <1>0, <1>8
       DEF AfterRelease, AfterRebind, AfterReleaseBatch, AfterReclaim, Ledger
  <2>. QED BY <1>2, <2>1
<1>9. ASSUME NEW records \in SUBSET HistoricalAgent, M = AfterImport(L, records)
      PROVE  KeptOrUndone(a, L, M)
  BY <1>0, <1>2, <1>9 DEF AfterImport, Ledger
<1>. QED BY <1>3, <1>4, <1>5, <1>6, <1>7, <1>8, <1>9 DEF Transaction

-----------------------------------------------------------------------------
(* What a transaction is to the abstract slots *)

\* The steps of AgentSlots, on two ledgers; the cap is looked at apart.
SlotStep(L, M) ==
  LET added   == AgentIds(M) \ AgentIds(L)
      removed == AgentIds(L) \ AgentIds(M)
  IN  \/ /\ AgentIds(L) \subseteq AgentIds(M)
         /\ LeasedIds(M) = LeasedIds(L) \cup added
         /\ FreshIds(M) = FreshIds(L) \cup added
      \/ /\ \E i \in AgentIds(L) \ LeasedIds(L) :
              LeasedIds(M) = LeasedIds(L) \cup {i}
         /\ AgentIds(M) = AgentIds(L) /\ FreshIds(M) = FreshIds(L)
      \/ /\ LeasedIds(M) \subseteq LeasedIds(L)
         /\ FreshIds(M) = FreshIds(L) \cap LeasedIds(M)
         /\ AgentIds(M) = AgentIds(L)
      \/ /\ AgentIds(M) \subseteq AgentIds(L)
         /\ removed \subseteq FreshIds(L)
         /\ LeasedIds(M) = LeasedIds(L) \ removed
         /\ FreshIds(M) = FreshIds(L) \ removed
      \/ /\ AgentIds(L) \subseteq AgentIds(M)
         /\ LeasedIds(M) = LeasedIds(L) /\ FreshIds(M) = FreshIds(L)

\* Removing leases retires Agents.
LEMMA FewerLeasesRetire ==
  ASSUME NEW L, Sound(L), NEW M, M.agents = L.agents, M.leases \subseteq L.leases
  PROVE  SlotStep(L, M)
<1>1. \A l, m \in L.leases : l.id = m.id => l = m
  BY DEF Sound, Parses, UniqueLeases
<1>2. AgentIds(M) = AgentIds(L) /\ LeasedIds(M) \subseteq LeasedIds(L)
  BY DEF AgentIds, LeasedIds
<1>3. FreshIds(M) = FreshIds(L) \cap LeasedIds(M)
  BY <1>1 DEF FreshIds, LeasedIds
<1>. QED BY <1>2, <1>3 DEF SlotStep

\* Leases and Agents that keep their ids and modes are no step of the slots.
LEMMA SameIdsIdle ==
  ASSUME NEW L, NEW M, AgentIds(M) = AgentIds(L),
         LeasedIds(M) = LeasedIds(L), FreshIds(M) = FreshIds(L)
  PROVE  SlotStep(L, M)
BY DEF SlotStep

\* Every transaction is a step of the slots.
LEMMA TransactionIsSlotStep ==
  ASSUME NEW L, NEW M, NEW held, Sound(L), Transaction(L, M, held)
  PROVE  SlotStep(L, M) /\ M.limits = L.limits
<1>0. /\ L \in Ledger /\ UniqueAgents(L) /\ UniqueLeases(L)
      /\ \A l \in L.leases : \E a \in L.agents : a.id = l.id
  BY DEF Sound, Parses, LeasesMatchAgents
<1>1. CASE M = L
  BY <1>1, SameIdsIdle
<1>2. ASSUME NEW path \in Path, NEW limits \in Limits, NEW run \in Runs,
             NEW n \in Nat, NEW token \in Nat, NEW proc \in Procs, NEW at \in Nat,
             SpawnAllowed(L, path, limits, run, n),
             M = AfterSpawn(L, path, limits, run, n, token, proc, at)
      PROVE  SlotStep(L, M) /\ M.limits = L.limits
  <2>. DEFINE A == SpawnedAgents(path, limits, run, n, at)
              S == SpawnedLeases(path, run, n, token, proc, at)
  <2>1. /\ M.agents = L.agents \cup A /\ M.leases = L.leases \cup S
        /\ M.limits = L.limits
    BY <1>0, <1>2 DEF AfterSpawn, Ledger
  <2>2. /\ \A a \in A : a.id \in BatchIds(run, n)
        /\ \A l \in S : l.id \in BatchIds(run, n) /\ l.mode = "spawn"
    BY DEF SpawnedAgents, SpawnedLeases, BatchIds
  <2>8. ASSUME NEW i \in 0 .. n - 1
        PROVE  /\ \E a \in A : a.id = <<run, i>>
               /\ \E l \in S : l.id = <<run, i>>
    <3>1. [id |-> <<run, i>>, owner |-> path, limits |-> limits,
           createdAt |-> at, usage |-> 0, resumes |-> 0] \in A
      BY DEF SpawnedAgents
    <3>2. [id |-> <<run, i>>, run |-> run, index |-> i, token |-> token + i,
           owner |-> path, proc |-> proc, mode |-> "spawn", at |-> at] \in S
      BY DEF SpawnedLeases
    <3>. HIDE DEF A, S
    <3>. QED BY <3>1, <3>2
  <2>9. \A i \in BatchIds(run, n) : /\ \E a \in A : a.id = i
                                   /\ \E l \in S : l.id = i
    BY <2>8 DEF BatchIds
  <2>3. BatchIds(run, n) \cap AgentIds(L) = {}
    BY <1>2 DEF SpawnAllowed
  <2>. HIDE DEF A, S
  <2>4. AgentIds(M) = AgentIds(L) \cup BatchIds(run, n)
    BY <2>1, <2>2, <2>9 DEF AgentIds
  <2>5. LeasedIds(M) = LeasedIds(L) \cup BatchIds(run, n)
    BY <2>1, <2>2, <2>9 DEF LeasedIds
  <2>6. FreshIds(M) = FreshIds(L) \cup BatchIds(run, n)
    BY <2>1, <2>2, <2>9 DEF FreshIds
  <2>7. AgentIds(M) \ AgentIds(L) = BatchIds(run, n)
    BY <2>3, <2>4
  <2>. QED BY <2>1, <2>4, <2>5, <2>6, <2>7 DEF SlotStep
<1>3. ASSUME NEW path \in Path, NEW limits \in Limits, NEW b \in L.agents,
             NEW run \in Runs, NEW acknowledged \in BOOLEAN, NEW token \in Nat,
             NEW proc \in Procs, NEW at \in Nat,
             ResumeAllowed(L, path, limits, b, run, acknowledged),
             M = AfterResume(L, b, run, token, proc, at)
      PROVE  SlotStep(L, M) /\ M.limits = L.limits
  <2>. DEFINE r == ResumedLease(b, run, token, proc, at)
              d == [b EXCEPT !.resumes = @ + 1]
  <2>1. /\ M.agents = (L.agents \ {b}) \cup {d} /\ M.leases = L.leases \cup {r}
        /\ M.limits = L.limits
    BY <1>0, <1>3 DEF AfterResume, Ledger
  <2>2. r.mode = "resume" /\ r.id = b.id /\ d.id = b.id
    BY <1>0 DEF ResumedLease, Ledger, Agent
  <2>. HIDE DEF r, d
  <2>3. AgentIds(M) = AgentIds(L)
    BY <2>1, <2>2 DEF AgentIds
  <2>4. LeasedIds(M) = LeasedIds(L) \cup {b.id} /\ FreshIds(M) = FreshIds(L)
    BY <2>1, <2>2 DEF LeasedIds, FreshIds
  <2>5. b.id \in AgentIds(L) \ LeasedIds(L)
    BY <1>3 DEF ResumeAllowed, AgentIds
  <2>. QED BY <2>1, <2>3, <2>4, <2>5 DEF SlotStep
<1>4. ASSUME NEW h \in held, NEW run \in Runs, NEW index \in Nat, NEW proc \in Procs,
             M = AfterRebind(L, h, run, index, proc)
      PROVE  SlotStep(L, M) /\ M.limits = L.limits
  <2>. DEFINE moved(l) == [l EXCEPT !.run = run, !.index = index, !.proc = proc]
  <2>1. /\ M.agents = L.agents /\ M.limits = L.limits
        /\ M.leases = (L.leases \ Current(L, h)) \cup
                      {moved(l) : l \in Current(L, h)}
    BY <1>0, <1>4 DEF AfterRebind, Ledger
  <2>2. \A l \in L.leases : moved(l).id = l.id /\ moved(l).mode = l.mode
    BY <1>0 DEF Ledger, Lease
  <2>3. Current(L, h) \subseteq L.leases
    BY DEF Current
  <2>. HIDE DEF moved
  <2>4. LeasedIds(M) = LeasedIds(L)
    BY <2>1, <2>2, <2>3 DEF LeasedIds
  <2>5. FreshIds(M) = FreshIds(L)
    BY <2>1, <2>2, <2>3 DEF FreshIds
  <2>. QED BY <2>1, <2>4, <2>5, SameIdsIdle DEF AgentIds
<1>5. CASE \/ \E h \in held : M = AfterRelease(L, h)
           \/ M = AfterReleaseBatch(L, held)
           \/ M = AfterReclaim(L, held)
  <2>1. /\ M.agents = L.agents /\ M.leases \subseteq L.leases
        /\ M.limits = L.limits
    BY <1>0, <1>5 DEF AfterRelease, AfterReleaseBatch, AfterReclaim, Ledger
  <2>. QED BY <2>1, FewerLeasesRetire
<1>6. CASE RollbackMatches(L, held) /\ M = AfterAbort(L, held)
  <2>. DEFINE ids == HandleIds(held)
  <2>1. /\ M.agents = {a \in L.agents : a.id \notin ids}
        /\ M.leases = {l \in L.leases : l.id \notin ids}
        /\ M.limits = L.limits
    BY <1>0, <1>6 DEF AfterReleaseBatch, AfterAbort, Ledger
  <2>2. \A i \in ids : \E l \in L.leases : l.id = i /\ l.mode = "spawn"
    BY <1>6 DEF RollbackMatches, BatchMatches, Current, HandleIds
  <2>. HIDE DEF ids
  <2>3. ids \subseteq FreshIds(L)
    BY <2>2 DEF FreshIds
  <2>4. ids \subseteq AgentIds(L)
    BY <1>0, <2>2 DEF AgentIds
  <2>5. AgentIds(M) = AgentIds(L) \ ids
    BY <2>1 DEF AgentIds
  <2>6. LeasedIds(M) = LeasedIds(L) \ ids
    BY <2>1 DEF LeasedIds
  <2>7. FreshIds(M) = FreshIds(L) \ ids
    BY <2>1 DEF FreshIds
  <2>8. AgentIds(L) \ AgentIds(M) = ids
    BY <2>4, <2>5
  <2>. QED BY <2>1, <2>3, <2>5, <2>6, <2>7, <2>8 DEF SlotStep
<1>7. ASSUME NEW b \in L.agents, M = AfterWork(L, b, 1)
      PROVE  SlotStep(L, M) /\ M.limits = L.limits
  <2>. DEFINE d == [b EXCEPT !.usage = @ + 1]
  <2>1. /\ M.agents = (L.agents \ {b}) \cup {d} /\ M.leases = L.leases
        /\ M.limits = L.limits
    BY <1>0, <1>7 DEF AfterWork, Ledger
  <2>2. d.id = b.id
    BY <1>0 DEF Ledger, Agent
  <2>. HIDE DEF d
  <2>3. AgentIds(M) = AgentIds(L)
    BY <2>1, <2>2 DEF AgentIds
  <2>. QED BY <2>1, <2>3, SameIdsIdle DEF LeasedIds, FreshIds
<1>8. ASSUME NEW records \in SUBSET HistoricalAgent, M = AfterImport(L, records)
      PROVE  SlotStep(L, M) /\ M.limits = L.limits
  <2>1. /\ L.agents \subseteq M.agents /\ M.leases = L.leases
        /\ M.limits = L.limits
    BY <1>0, <1>8 DEF AfterImport, Ledger
  <2>2. AgentIds(L) \subseteq AgentIds(M)
    BY <2>1 DEF AgentIds
  <2>. QED BY <2>1, <2>2 DEF SlotStep, LeasedIds, FreshIds
<1>. QED BY <1>1, <1>2, <1>3, <1>4, <1>5, <1>6, <1>7, <1>8 DEF Transaction

-----------------------------------------------------------------------------
(* The session *)

LEMMA FirstRunsInit == Init => FirstRuns(ledger)
BY DEF Init, EmptyLedger, FirstRuns

LEMMA FirstRunsNext ==
  IInv /\ FirstRuns(ledger) /\ [Next]_vars => FirstRuns(ledger)'
<1> SUFFICES ASSUME IInv, FirstRuns(ledger), [Next]_vars
             PROVE  FirstRuns(ledger')
  BY DEF FirstRuns
<1>1. CASE UNCHANGED <<created, ledger>>
  BY <1>1
<1>2. ASSUME NEW c \in Clients, Transaction(Loaded(c), ledger', client[c].leases)
      PROVE  FirstRuns(ledger')
  <2>1. FirstRuns(Loaded(c))
    BY LoadedContents DEF FirstRuns
  <2>. QED BY <1>2, <2>1, LoadedSound, FirstRunsKept
<1>. QED BY <1>1, <1>2, StepIsTransaction DEF vars

\* An Agent in the run its launch gave it is untouched by resumes, in every
\* reachable state.
THEOREM FirstRunsAlways == Spec => []FirstRuns(ledger)
BY Invariance, FirstRunsInit, FirstRunsNext, PTL DEF Spec

\* No Agent is recorded with more than the session allows, and a launched one
\* lies within the depth of its limits, for any tree of hosts.
THEOREM LimitsAlwaysRespected == Spec => []LimitsRespected
<1>1. IInv /\ FirstRuns(ledger) => LimitsRespected
  BY DEF IInv, Sound, FirstRuns, LimitsRespected
<1>. QED BY <1>1, Invariance, FirstRunsAlways, PTL

\* A lease disappears only through a client that was told its id: stale
\* reservations, completions and observations of any number of hosts leave
\* the newer lease alone.
THEOREM OthersLeasesStay == Spec => OnlyKnownLeaseRemoved
<1>1. IInv /\ [Next]_vars
        => [Tokens(ledger) \ Tokens(ledger') \subseteq KnownTokens]_vars
  <2> SUFFICES ASSUME IInv, [Next]_vars
               PROVE  Tokens(ledger) \ Tokens(ledger') \subseteq KnownTokens
    OBVIOUS
  <2>1. CASE UNCHANGED <<created, ledger>>
    BY <2>1
  <2>2. ASSUME NEW c \in Clients, Transaction(Loaded(c), ledger', client[c].leases)
        PROVE  Tokens(ledger) \ Tokens(ledger') \subseteq KnownTokens
    <3>1. Tokens(Loaded(c)) \ Tokens(ledger') \subseteq
            {h.token : h \in client[c].leases}
      BY <2>2, LoadedSound, OnlyHeldRemoved
    <3>2. Tokens(Loaded(c)) = Tokens(ledger)
      BY LoadedContents DEF Tokens
    <3>. QED BY <3>1, <3>2 DEF KnownTokens
  <2>. QED BY <2>1, <2>2, StepIsTransaction DEF vars
<1>. QED BY <1>1, Invariance, PTL DEF Spec, OnlyKnownLeaseRemoved

\* No record of an Agent is lost or set back, by any transaction of any
\* client; only the launch that made it, never resumed, can be undone.
THEOREM HistoryAlwaysKept == Spec => HistoryKept
<1>1. IInv /\ FirstRuns(ledger) /\ [Next]_vars =>
        [\A a \in ledger.agents :
           \/ \E b \in ledger'.agents :
                /\ b.id = a.id /\ b.owner = a.owner /\ b.limits = a.limits
                /\ b.createdAt = a.createdAt
                /\ b.usage >= a.usage /\ b.resumes >= a.resumes
           \/ /\ a.resumes = 0
              /\ \E l \in ledger.leases : l.id = a.id /\ l.mode = "spawn"
              /\ ~\E l \in ledger'.leases : l.id = a.id]_vars
  <2> SUFFICES ASSUME IInv, FirstRuns(ledger), Next, NEW a \in ledger.agents
               PROVE  KeptOrUndone(a, ledger, ledger')
    BY DEF KeptOrUndone
  <2>1. CASE UNCHANGED <<created, ledger>>
    <3>1. a.usage >= a.usage /\ a.resumes >= a.resumes
      BY DEF IInv, TypeOK, Ledger, Agent
    <3>. QED BY <2>1, <3>1 DEF KeptOrUndone
  <2>2. ASSUME NEW c \in Clients, Transaction(Loaded(c), ledger', client[c].leases)
        PROVE  KeptOrUndone(a, ledger, ledger')
    <3>1. FirstRuns(Loaded(c)) /\ a \in Loaded(c).agents
      BY LoadedContents DEF FirstRuns
    <3>2. KeptOrUndone(a, Loaded(c), ledger')
      BY <2>2, <3>1, LoadedSound, HistoryKeptByTransaction
    <3>. QED BY <3>2, LoadedContents DEF KeptOrUndone
  <2>. QED BY <2>1, <2>2, StepIsTransaction
<1>. QED BY <1>1, Invariance, FirstRunsAlways, PTL DEF Spec, HistoryKept

\* The ledger, with any number of hosts on it, implements the abstract slots.
THEOREM LedgerImplementsSlots == Spec => ImplementsSlots
<1>1. Init => Slots!Init
  BY DEF Init, EmptyLedger, Slots!Init, AgentIds, LeasedIds, FreshIds
<1>2. IInv /\ IInv' /\ [Next]_vars => [Slots!Next]_(Slots!vars)
  <2> SUFFICES ASSUME IInv, IInv', [Next]_vars
               PROVE  [Slots!Next]_(Slots!vars)
    OBVIOUS
  <2>1. CASE UNCHANGED <<created, ledger>>
    BY <2>1 DEF Slots!vars, AgentIds, LeasedIds, FreshIds
  <2>2. ASSUME NEW c \in Clients, created',
               Transaction(Loaded(c), ledger', client[c].leases)
        PROVE  Slots!Next
    <3>1. SlotStep(Loaded(c), ledger') /\ ledger'.limits = Loaded(c).limits
      BY <2>2, LoadedSound, TransactionIsSlotStep
    <3>2. SlotStep(ledger, ledger')
      BY <3>1, LoadedContents DEF SlotStep, AgentIds, LeasedIds, FreshIds
    <3>3. ledger'.limits.maxRunning \in Nat \ {0}
      BY DEF IInv, TypeOK, Ledger, Limits
    <3>4. Slots!Open
      BY <2>2, <3>1, <3>3 DEF Slots!Open, Loaded, IInv, TypeOK, Ledger, Limits
    <3>5. Cardinality(LeasedIds(ledger')) <= ledger'.limits.maxRunning
      <4>1. /\ IsFiniteSet(ledger'.leases)
            /\ Cardinality(ledger'.leases) <= ledger'.limits.maxRunning
        BY DEF IInv, Sound
      <4>2. /\ IsFiniteSet(LeasedIds(ledger'))
            /\ Cardinality(LeasedIds(ledger')) <= Cardinality(ledger'.leases)
        <5>. DEFINE f == [l \in ledger'.leases |-> l.id]
        <5>1. f \in Surjection(ledger'.leases, LeasedIds(ledger'))
          BY DEF Surjection, LeasedIds
        <5>. QED BY <4>1, <5>1, FS_Surjection
      <4>3. /\ Cardinality(LeasedIds(ledger')) \in Nat
            /\ Cardinality(ledger'.leases) \in Nat
        BY <4>1, <4>2, FS_CardinalityType
      <4>. QED BY <3>3, <4>1, <4>2, <4>3
    <3>7. Slots!Cardinality(LeasedIds(ledger')) = Cardinality(LeasedIds(ledger'))
      BY DEF Slots!Cardinality, Cardinality
    <3>6. Slots!Launch \/ Slots!Resume \/ Slots!Retire \/ Slots!Undo \/ Slots!Enrol
      BY <2>2, <3>2, <3>5, <3>7 DEF SlotStep, Slots!Launch, Slots!Resume,
         Slots!Retire, Slots!Undo, Slots!Enrol, AgentIds, LeasedIds, FreshIds
    <3>. QED BY <3>4, <3>6 DEF Slots!Next
  <2>. QED BY <2>1, <2>2, StepIsTransaction DEF vars
<1>. QED BY <1>1, <1>2, Invariance, PTL DEF Spec, ImplementsSlots, Slots!Spec
=============================================================================
