------------------------ MODULE SessionLedgerProofs ------------------------
(***************************************************************************)
(* What the ledger's transactions preserve, for any ledger and arguments.  *)
(* The modules that hold a ledger cite these lemmas, one per transaction.  *)
(***************************************************************************)
EXTENDS SessionLedger, FiniteSetTheorems, TLAPS

\* A ledger the session can go on with: well-typed and finite, accepted by
\* parseLedger, within the running limit, no Agent above the session's limits.
Sound(L) ==
  /\ L \in Ledger
  /\ IsFiniteSet(L.agents)
  /\ IsFiniteSet(L.leases)
  /\ Parses(L)
  /\ Cardinality(L.leases) <= L.limits.maxRunning
  /\ \A a \in L.agents :
       /\ a.limits.maxDepth <= L.limits.maxDepth
       /\ a.limits.maxRunning <= L.limits.maxRunning

-----------------------------------------------------------------------------

\* An indexed family without repetition has as many members as indexes.
LEMMA IndexedCardinality ==
  ASSUME NEW n \in Nat, NEW f, NEW T,
         f \in [0 .. n - 1 -> T],
         \A i, j \in 0 .. n - 1 : f[i] = f[j] => i = j,
         \A t \in T : \E i \in 0 .. n - 1 : f[i] = t
  PROVE  IsFiniteSet(T) /\ Cardinality(T) = n
<1>1. IsFiniteSet(0 .. n - 1) /\ Cardinality(0 .. n - 1) = n
  <2>1. /\ IsFiniteSet(0 .. n - 1)
        /\ Cardinality(0 .. n - 1) = IF 0 > n - 1 THEN 0 ELSE n - 1 - 0 + 1
    BY FS_Interval
  <2>. QED BY <2>1
<1>2. f \in Bijection(0 .. n - 1, T)
  BY DEF Bijection, Injection, Surjection, IsInjective
<1>3. ExistsBijection(0 .. n - 1, T)
  BY <1>2 DEF ExistsBijection
<1>. QED BY <1>1, <1>3, FS_Bijection

\* The more restrictive of two limits is a limit below both.
LEMMA TightenType ==
  ASSUME NEW p \in Limits, NEW q \in Limits
  PROVE  /\ Tighten(p, q) \in Limits
         /\ Tighten(p, q).maxDepth <= p.maxDepth
         /\ Tighten(p, q).maxRunning <= p.maxRunning
         /\ Tighten(p, q).maxDepth <= q.maxDepth
         /\ Tighten(p, q).maxRunning <= q.maxRunning
BY DEF Tighten, Lesser, Limits

\* Whatever a host is configured with, it reserves within the session's limits.
LEMMA EffectiveLimitsBound ==
  ASSUME NEW L, Sound(L), NEW path \in Path, NEW configured \in Limits,
         path # <<>> => OwnerRegistered(L, path)
  PROVE  /\ EffectiveLimits(L, path, configured) \in Limits
         /\ EffectiveLimits(L, path, configured).maxDepth <= L.limits.maxDepth
         /\ EffectiveLimits(L, path, configured).maxRunning <= L.limits.maxRunning
<1>1. L.limits \in Limits
  BY DEF Sound, Ledger
<1>2. CASE path = <<>>
  BY <1>1, <1>2, TightenType DEF EffectiveLimits
<1>3. CASE path # <<>>
  <2> DEFINE owner == CHOOSE a \in L.agents : PathOf(a) = path
  <2>1. owner \in L.agents
    BY <1>3 DEF OwnerRegistered
  <2>2. /\ owner.limits \in Limits
        /\ owner.limits.maxDepth <= L.limits.maxDepth
        /\ owner.limits.maxRunning <= L.limits.maxRunning
    BY <2>1 DEF Sound, Ledger, Agent
  <2>3. EffectiveLimits(L, path, configured) = Tighten(owner.limits, configured)
    BY <1>3 DEF EffectiveLimits
  <2>4. /\ Tighten(owner.limits, configured) \in Limits
        /\ Tighten(owner.limits, configured).maxDepth <= owner.limits.maxDepth
        /\ Tighten(owner.limits, configured).maxRunning <= owner.limits.maxRunning
    BY <2>2, TightenType
  <2>. HIDE DEF owner
  <2>. QED BY <1>1, <2>2, <2>3, <2>4 DEF Limits
<1>. QED BY <1>2, <1>3

\* A new ledger is sound.
LEMMA EmptySound ==
  ASSUME NEW limits \in Limits
  PROVE  Sound(EmptyLedger(limits))
BY FS_EmptySet DEF Sound, EmptyLedger, Ledger, Parses, UniqueAgents,
   UniqueLeases, UniqueAddresses, LeasesMatchAgents, Limits

-----------------------------------------------------------------------------

\* Removing leases, whichever, keeps a ledger sound.
LEMMA FewerLeasesSound ==
  ASSUME NEW L, Sound(L), NEW kept \in SUBSET L.leases
  PROVE  Sound([L EXCEPT !.leases = kept])
<1> DEFINE M == [L EXCEPT !.leases = kept]
<1>1. /\ M \in Ledger
      /\ M.limits = L.limits /\ M.total = L.total
      /\ M.agents = L.agents /\ M.leases = kept
  BY DEF Sound, Ledger
<1>2. IsFiniteSet(kept) /\ Cardinality(kept) <= Cardinality(L.leases)
  BY FS_Subset DEF Sound
<1>3. Cardinality(kept) <= L.limits.maxRunning
  <2>1. Cardinality(kept) \in Nat /\ Cardinality(L.leases) \in Nat
    BY <1>2, FS_CardinalityType DEF Sound
  <2>. QED BY <1>2, <2>1 DEF Sound, Ledger, Limits
<1>4. Parses(M)
  BY <1>1 DEF Sound, Parses, UniqueAgents, UniqueLeases, UniqueAddresses,
     LeasesMatchAgents
<1>. HIDE DEF M
<1>. QED BY <1>1, <1>2, <1>3, <1>4 DEF Sound, M

-----------------------------------------------------------------------------

\* Reserving a launch that is allowed keeps the ledger sound: n new Agents,
\* n new leases at n free addresses, within the limit.
LEMMA SpawnSound ==
  ASSUME NEW L, Sound(L), NEW path \in Path, NEW limits \in Limits,
         limits.maxDepth <= L.limits.maxDepth,
         limits.maxRunning <= L.limits.maxRunning,
         NEW run \in Runs, NEW n \in Nat, NEW token \in Nat,
         NEW proc \in Procs, NEW at \in Nat,
         SpawnAllowed(L, path, limits, run, n)
  PROVE  /\ Sound(AfterSpawn(L, path, limits, run, n, token, proc, at))
         /\ SpawnedLeases(path, run, n, token, proc, at) \subseteq Lease
<1> DEFINE M == AfterSpawn(L, path, limits, run, n, token, proc, at)
           A == SpawnedAgents(path, limits, run, n, at)
           K == SpawnedLeases(path, run, n, token, proc, at)
<1>1. A \subseteq Agent
  BY DEF SpawnedAgents, Agent, AgentId
<1>2. K \subseteq Lease
  BY DEF SpawnedLeases, Lease, AgentId
<1>3. /\ M \in Ledger
      /\ M.limits = L.limits /\ M.total = L.total + n
      /\ M.agents = L.agents \cup A /\ M.leases = L.leases \cup K
  <2>1. M = [L EXCEPT !.total = L.total + n, !.agents = L.agents \cup A,
                      !.leases = L.leases \cup K]
    BY DEF AfterSpawn
  <2>2. /\ L \in Ledger /\ L.total + n \in Nat
        /\ L.agents \cup A \in SUBSET Agent /\ L.leases \cup K \in SUBSET Lease
    BY <1>1, <1>2 DEF Sound, Ledger
  <2>. HIDE DEF M, A, K
  <2>. QED BY <2>1, <2>2 DEF Ledger
<1>4. IsFiniteSet(A) /\ Cardinality(A) = n
  <2> DEFINE f == [i \in 0 .. n - 1 |->
        [id |-> <<run, i>>, owner |-> path, limits |-> limits, createdAt |-> at,
         usage |-> 0, resumes |-> 0]]
  <2>1. f \in [0 .. n - 1 -> A]
    BY DEF SpawnedAgents
  <2>2. \A i, j \in 0 .. n - 1 : f[i] = f[j] => i = j
    OBVIOUS
  <2>3. \A t \in A : \E i \in 0 .. n - 1 : f[i] = t
    BY DEF SpawnedAgents
  <2>. HIDE DEF f, A
  <2>. QED BY <2>1, <2>2, <2>3, IndexedCardinality
<1>5. IsFiniteSet(K) /\ Cardinality(K) = n
  <2> DEFINE f == [i \in 0 .. n - 1 |->
        [id |-> <<run, i>>, run |-> run, index |-> i, token |-> token + i,
         owner |-> path, proc |-> proc, mode |-> "spawn", at |-> at]]
  <2>1. f \in [0 .. n - 1 -> K]
    BY DEF SpawnedLeases
  <2>2. \A i, j \in 0 .. n - 1 : f[i] = f[j] => i = j
    OBVIOUS
  <2>3. \A t \in K : \E i \in 0 .. n - 1 : f[i] = t
    BY DEF SpawnedLeases
  <2>. HIDE DEF f, K
  <2>. QED BY <2>1, <2>2, <2>3, IndexedCardinality
<1>6. /\ \A a \in A : /\ a.id \in BatchIds(run, n) /\ a.owner = path
                      /\ a.limits = limits
      /\ \A k \in K : /\ k.id \in BatchIds(run, n) /\ k.owner = path
                      /\ k.id = RuntimeAddress(k)
      /\ \A a, b \in A : a.id = b.id => a = b
      /\ \A k, m \in K : k.id = m.id => k = m
      /\ \A k \in K : \E a \in A : a.id = k.id
  <2>1. \A a \in A : /\ a.id \in BatchIds(run, n) /\ a.owner = path
                     /\ a.limits = limits
    BY DEF SpawnedAgents, BatchIds
  <2>2. \A k \in K : /\ k.id \in BatchIds(run, n) /\ k.owner = path
                     /\ k.id = RuntimeAddress(k)
    BY DEF SpawnedLeases, BatchIds, RuntimeAddress
  <2>3. \A a, b \in A : a.id = b.id => a = b
    BY DEF SpawnedAgents
  <2>4. \A k, m \in K : k.id = m.id => k = m
    BY DEF SpawnedLeases
  <2>5. ASSUME NEW k \in K PROVE \E a \in A : a.id = k.id
    <3>1. PICK i \in 0 .. n - 1 : k.id = <<run, i>>
      BY DEF SpawnedLeases
    <3> DEFINE a == [id |-> <<run, i>>, owner |-> path, limits |-> limits,
                     createdAt |-> at, usage |-> 0, resumes |-> 0]
    <3>2. a \in A /\ a.id = k.id
      BY <3>1 DEF SpawnedAgents
    <3>. QED BY <3>2
  <2>. QED BY <2>1, <2>2, <2>3, <2>4, <2>5
<1>7. /\ \A a \in L.agents : a.id \notin BatchIds(run, n)
      /\ \A l \in L.leases : RuntimeAddress(l) \notin BatchIds(run, n)
      /\ Cardinality(L.leases) + n <= limits.maxRunning
  BY DEF SpawnAllowed, AgentIds, AddressesInUse
<1>8. \A l \in L.leases : l.id \notin BatchIds(run, n)
  BY <1>7 DEF Sound, Parses, LeasesMatchAgents
<1>9. /\ IsFiniteSet(M.agents) /\ Cardinality(M.agents) = M.total
  <2>1. L.agents \cap A = {}
    BY <1>6, <1>7
  <2>2. Cardinality(L.agents \cap A) = 0
    BY <2>1, FS_EmptySet
  <2>3. /\ IsFiniteSet(L.agents \cup A)
        /\ Cardinality(L.agents \cup A) =
             Cardinality(L.agents) + Cardinality(A) - Cardinality(L.agents \cap A)
    BY <1>4, FS_Union DEF Sound
  <2>4. L.total = Cardinality(L.agents) /\ L.total \in Nat
    BY DEF Sound, Parses, Ledger
  <2>. HIDE DEF M, A, K
  <2>. QED BY <1>3, <1>4, <2>2, <2>3, <2>4
<1>10. /\ IsFiniteSet(M.leases) /\ Cardinality(M.leases) <= M.limits.maxRunning
  <2>1. /\ IsFiniteSet(L.leases \cup K)
        /\ Cardinality(L.leases \cup K) =
             Cardinality(L.leases) + Cardinality(K) - Cardinality(L.leases \cap K)
    BY <1>5, FS_Union DEF Sound
  <2>2. IsFiniteSet(L.leases \cap K)
    BY <1>5, FS_Subset, L.leases \cap K \in SUBSET K
  <2>3. Cardinality(L.leases \cap K) \in Nat /\ Cardinality(L.leases) \in Nat
    BY <2>2, FS_CardinalityType DEF Sound
  <2>4. limits.maxRunning \in Nat /\ L.limits.maxRunning \in Nat
    BY DEF Sound, Ledger, Limits
  <2>. HIDE DEF M, A, K
  <2>. QED BY <1>3, <1>5, <1>7, <2>1, <2>3, <2>4
<1>11. Parses(M)
  <2>. HIDE DEF M, A, K
  <2>1. UniqueAgents(M)
    BY <1>3, <1>6, <1>7 DEF Sound, Parses, UniqueAgents
  <2>2. UniqueLeases(M)
    BY <1>3, <1>6, <1>8 DEF Sound, Parses, UniqueLeases
  <2>3. UniqueAddresses(M)
    <3>1. \A k, m \in K : RuntimeAddress(k) = RuntimeAddress(m) => k = m
      BY <1>6
    <3>2. \A k \in K, l \in L.leases : RuntimeAddress(k) # RuntimeAddress(l)
      BY <1>6, <1>7
    <3>. QED BY <1>3, <3>1, <3>2 DEF Sound, Parses, UniqueAddresses
  <2>4. LeasesMatchAgents(M)
    <3>1. \A k \in K : \E a \in A : a.id = k.id /\ a.owner = k.owner
      BY <1>6
    <3>. QED BY <1>3, <3>1 DEF Sound, Parses, LeasesMatchAgents
  <2>. QED BY <1>9, <2>1, <2>2, <2>3, <2>4 DEF Parses
<1>12. \A a \in M.agents : /\ a.limits.maxDepth <= M.limits.maxDepth
                           /\ a.limits.maxRunning <= M.limits.maxRunning
  <2>. HIDE DEF M, A, K
  <2>. QED BY <1>3, <1>6 DEF Sound
<1>. HIDE DEF M, A
<1>. QED BY <1>2, <1>3, <1>9, <1>10, <1>11, <1>12 DEF Sound, M

-----------------------------------------------------------------------------

\* Replacing the record of an Agent by one with the same id, owner and limits
\* keeps a ledger sound.
LEMMA SameAgentSound ==
  ASSUME NEW L, Sound(L), NEW a \in L.agents, NEW b \in Agent,
         b.id = a.id, b.owner = a.owner, b.limits = a.limits
  PROVE  Sound([L EXCEPT !.agents = (@ \ {a}) \cup {b}])
<1> DEFINE M == [L EXCEPT !.agents = (@ \ {a}) \cup {b}]
<1>1. /\ M \in Ledger
      /\ M.limits = L.limits /\ M.total = L.total
      /\ M.agents = (L.agents \ {a}) \cup {b} /\ M.leases = L.leases
  BY DEF Sound, Ledger
<1>2. b \notin L.agents \ {a}
  BY DEF Sound, Parses, UniqueAgents
<1>3. IsFiniteSet(M.agents) /\ Cardinality(M.agents) = Cardinality(L.agents)
  <2>1. /\ IsFiniteSet(L.agents \ {a})
        /\ Cardinality(L.agents \ {a}) = Cardinality(L.agents) - 1
    BY FS_RemoveElement DEF Sound
  <2>2. /\ IsFiniteSet((L.agents \ {a}) \cup {b})
        /\ Cardinality((L.agents \ {a}) \cup {b}) = Cardinality(L.agents \ {a}) + 1
    BY <1>2, <2>1, FS_AddElement
  <2>3. Cardinality(L.agents) \in Nat
    BY FS_CardinalityType DEF Sound
  <2>. HIDE DEF M
  <2>. QED BY <1>1, <2>1, <2>2, <2>3
<1>4. Parses(M)
  <2>. HIDE DEF M
  <2>1. UniqueAgents(M)
    BY <1>1 DEF Sound, Parses, UniqueAgents
  <2>2. LeasesMatchAgents(M)
    BY <1>1 DEF Sound, Parses, LeasesMatchAgents
  <2>. QED BY <1>1, <1>3, <2>1, <2>2 DEF Sound, Parses, UniqueLeases, UniqueAddresses
<1>. HIDE DEF M
<1>. QED BY <1>1, <1>3, <1>4 DEF Sound, M

\* Reported work is added to a sound ledger.
LEMMA WorkSound ==
  ASSUME NEW L, Sound(L), NEW a \in L.agents, NEW work \in Nat
  PROVE  Sound(AfterWork(L, a, work))
<1>1. a \in Agent
  BY DEF Sound, Ledger
<1>2. /\ [a EXCEPT !.usage = @ + work] \in Agent
      /\ [a EXCEPT !.usage = @ + work].id = a.id
      /\ [a EXCEPT !.usage = @ + work].owner = a.owner
      /\ [a EXCEPT !.usage = @ + work].limits = a.limits
  BY <1>1 DEF Agent
<1>. QED BY <1>2, SameAgentSound DEF AfterWork

\* A resume that is allowed keeps the ledger sound.
LEMMA ResumeSound ==
  ASSUME NEW L, Sound(L), NEW path \in Path, NEW limits \in Limits,
         limits.maxRunning <= L.limits.maxRunning,
         NEW a \in L.agents, NEW run \in Runs, NEW acknowledged \in BOOLEAN,
         NEW token \in Nat, NEW proc \in Procs, NEW at \in Nat,
         ResumeAllowed(L, path, limits, a, run, acknowledged)
  PROVE  /\ Sound(AfterResume(L, a, run, token, proc, at))
         /\ ResumedLease(a, run, token, proc, at) \in Lease
<1> DEFINE k == ResumedLease(a, run, token, proc, at)
           b == [a EXCEPT !.resumes = @ + 1]
           N == [L EXCEPT !.agents = (@ \ {a}) \cup {b}]
           M == AfterResume(L, a, run, token, proc, at)
<1>1. a \in Agent
  BY DEF Sound, Ledger
<1>2. b \in Agent /\ b.id = a.id /\ b.owner = a.owner /\ b.limits = a.limits
  BY <1>1 DEF Agent
<1>3. Sound(N)
  <2>. HIDE DEF b
  <2>. QED BY <1>2, SameAgentSound
<1>4. /\ k \in Lease /\ k.id = a.id /\ k.owner = a.owner
      /\ RuntimeAddress(k) = <<run, a.id[2]>>
  BY <1>1 DEF ResumedLease, Lease, Agent, AgentId, RuntimeAddress
<1>5. /\ N.limits = L.limits /\ N.total = L.total
      /\ N.agents = (L.agents \ {a}) \cup {b} /\ N.leases = L.leases
  BY DEF Sound, Ledger
<1>6. /\ M \in Ledger
      /\ M.limits = L.limits /\ M.total = L.total
      /\ M.agents = N.agents /\ M.leases = L.leases \cup {k}
  <2>. HIDE DEF k
  <2>. QED BY <1>2, <1>4 DEF Sound, Ledger, AfterResume, k
<1>7. /\ \A l \in L.leases : l.id # k.id
      /\ \A l \in L.leases : RuntimeAddress(l) # RuntimeAddress(k)
      /\ Cardinality(L.leases) < limits.maxRunning
  BY <1>4 DEF ResumeAllowed, LeasedIds, AddressesInUse
<1>. HIDE DEF M, N, k, b
<1>8. IsFiniteSet(M.leases) /\ Cardinality(M.leases) <= M.limits.maxRunning
  <2>1. /\ IsFiniteSet(L.leases \cup {k})
        /\ Cardinality(L.leases \cup {k}) = Cardinality(L.leases) + 1
    BY <1>7, FS_AddElement DEF Sound
  <2>2. Cardinality(L.leases) \in Nat
    BY FS_CardinalityType DEF Sound
  <2>3. limits.maxRunning \in Nat /\ L.limits.maxRunning \in Nat
    BY DEF Sound, Ledger, Limits
  <2>. QED BY <1>6, <1>7, <2>1, <2>2, <2>3
<1>9. Parses(M)
  <2>1. UniqueLeases(M)
    BY <1>6, <1>7 DEF Sound, Parses, UniqueLeases
  <2>2. UniqueAddresses(M)
    BY <1>6, <1>7 DEF Sound, Parses, UniqueAddresses
  <2>3. LeasesMatchAgents(M)
    <3>1. b \in N.agents
      BY <1>5
    <3>. QED BY <1>2, <1>3, <1>4, <1>5, <1>6, <3>1 DEF Sound, Parses, LeasesMatchAgents
  <2>. QED BY <1>3, <1>5, <1>6, <2>1, <2>2, <2>3 DEF Sound, Parses, UniqueAgents
<1>. QED BY <1>3, <1>4, <1>5, <1>6, <1>8, <1>9 DEF Sound, M, k

-----------------------------------------------------------------------------

\* Moving the lease of a handle to a free runtime address keeps the ledger
\* sound.
LEMMA RebindSound ==
  ASSUME NEW L, Sound(L), NEW h \in Lease, NEW run \in Runs,
         NEW index \in Nat, NEW proc \in Procs,
         RebindAllowed(L, h, run, index)
  PROVE  Sound(AfterRebind(L, h, run, index, proc))
<1> DEFINE M == AfterRebind(L, h, run, index, proc)
<1>1. PICK l \in L.leases : Current(L, h) = {l} /\ l.id = h.id
  BY DEF RebindAllowed, Current, Sound, Parses, UniqueLeases
<1> DEFINE m == [l EXCEPT !.run = run, !.index = index, !.proc = proc]
<1>2. l \in Lease
  BY <1>1 DEF Sound, Ledger
<1>3. /\ m \in Lease /\ m.id = l.id /\ m.owner = l.owner
      /\ RuntimeAddress(m) = <<run, index>>
  BY <1>2 DEF Lease, RuntimeAddress
<1>4. M = [L EXCEPT !.leases = (@ \ {l}) \cup {m}]
  BY <1>1 DEF AfterRebind
<1>5. /\ M \in Ledger
      /\ M.limits = L.limits /\ M.total = L.total /\ M.agents = L.agents
      /\ M.leases = (L.leases \ {l}) \cup {m}
  <2>. HIDE DEF m, M
  <2>. QED BY <1>3, <1>4 DEF Sound, Ledger
<1>. HIDE DEF M, m
<1>6. \A k \in L.leases \ {l} : k.id # m.id /\ RuntimeAddress(k) # RuntimeAddress(m)
  BY <1>1, <1>3 DEF RebindAllowed, Sound, Parses, UniqueLeases
<1>7. IsFiniteSet(M.leases) /\ Cardinality(M.leases) = Cardinality(L.leases)
  <2>1. /\ IsFiniteSet(L.leases \ {l})
        /\ Cardinality(L.leases \ {l}) = Cardinality(L.leases) - 1
    BY FS_RemoveElement DEF Sound
  <2>2. m \notin L.leases \ {l}
    BY <1>6
  <2>3. /\ IsFiniteSet((L.leases \ {l}) \cup {m})
        /\ Cardinality((L.leases \ {l}) \cup {m}) = Cardinality(L.leases \ {l}) + 1
    BY <2>1, <2>2, FS_AddElement
  <2>4. Cardinality(L.leases) \in Nat
    BY FS_CardinalityType DEF Sound
  <2>. QED BY <1>5, <2>1, <2>3, <2>4
<1>8. Parses(M)
  <2>1. UniqueLeases(M)
    BY <1>5, <1>6 DEF Sound, Parses, UniqueLeases
  <2>2. UniqueAddresses(M)
    BY <1>5, <1>6 DEF Sound, Parses, UniqueAddresses
  <2>3. LeasesMatchAgents(M)
    BY <1>3, <1>5 DEF Sound, Parses, LeasesMatchAgents
  <2>. QED BY <1>5, <2>1, <2>2, <2>3 DEF Sound, Parses, UniqueAgents
<1>. QED BY <1>5, <1>7, <1>8 DEF Sound, M

\* A release, of one handle or of a batch, keeps the ledger sound.
LEMMA ReleaseSound ==
  ASSUME NEW L, Sound(L), NEW h
  PROVE  Sound(AfterRelease(L, h))
BY FewerLeasesSound DEF AfterRelease

LEMMA ReleaseBatchSound ==
  ASSUME NEW L, Sound(L), NEW handles
  PROVE  Sound(AfterReleaseBatch(L, handles))
BY FewerLeasesSound DEF AfterReleaseBatch

\* So does a reconciliation, however old its observation.
LEMMA ReclaimSound ==
  ASSUME NEW L, Sound(L), NEW observed
  PROVE  Sound(AfterReclaim(L, observed))
BY FewerLeasesSound DEF AfterReclaim

-----------------------------------------------------------------------------

\* Undoing a launch whose leases are all still its own removes one Agent for
\* each id, takes exactly their number off the total, and leaves no lease
\* without its Agent.
LEMMA AbortSound ==
  ASSUME NEW L, Sound(L), NEW handles, RollbackMatches(L, handles)
  PROVE  Sound(AfterAbort(L, handles))
<1> DEFINE ids == HandleIds(handles)
           gone == {a \in L.agents : a.id \in ids}
           kept == {a \in L.agents : a.id \notin ids}
           N == AfterReleaseBatch(L, handles)
           M == AfterAbort(L, handles)
<1>1. Sound(N)
  BY ReleaseBatchSound
<1>2. /\ N.limits = L.limits /\ N.total = L.total /\ N.agents = L.agents
      /\ N.leases = {l \in L.leases : l.id \notin ids}
  BY DEF Sound, Ledger, AfterReleaseBatch
<1>3. \A i \in ids : \E a \in L.agents : a.id = i
  BY DEF RollbackMatches, HandleIds
<1>4. IsFiniteSet(gone) /\ IsFiniteSet(kept)
  <2>1. gone \in SUBSET L.agents /\ kept \in SUBSET L.agents
    OBVIOUS
  <2>. QED BY <2>1, FS_Subset DEF Sound
<1>5. IsFiniteSet(ids) /\ Cardinality(ids) = Cardinality(gone)
  <2> DEFINE f == [a \in gone |-> a.id]
  <2>1. f \in [gone -> ids]
    OBVIOUS
  <2>2. \A a, b \in gone : f[a] = f[b] => a = b
    BY DEF Sound, Parses, UniqueAgents
  <2>3. \A i \in ids : \E a \in gone : f[a] = i
    BY <1>3
  <2>. HIDE DEF f, gone, ids
  <2>4. f \in Bijection(gone, ids)
    BY <2>1, <2>2, <2>3 DEF Bijection, Injection, Surjection, IsInjective
  <2>. QED BY <1>4, <2>4, FS_Bijection DEF ExistsBijection
<1>6. /\ Cardinality(kept) = Cardinality(L.agents) - Cardinality(ids)
      /\ Cardinality(ids) \in Nat /\ Cardinality(kept) \in Nat
      /\ Cardinality(L.agents) \in Nat
  <2>1. gone \cap kept = {} /\ gone \cup kept = L.agents
    OBVIOUS
  <2>2. /\ Cardinality(gone \cup kept) =
             Cardinality(gone) + Cardinality(kept) - Cardinality(gone \cap kept)
        /\ Cardinality(gone) \in Nat /\ Cardinality(kept) \in Nat
    BY <1>4, FS_Union, FS_CardinalityType
  <2>3. Cardinality(gone \cap kept) = 0
    BY <2>1, FS_EmptySet
  <2>4. Cardinality(L.agents) \in Nat
    BY FS_CardinalityType DEF Sound
  <2>. HIDE DEF gone, kept, ids
  <2>. QED BY <1>5, <2>1, <2>2, <2>3, <2>4
<1>7. L.total = Cardinality(L.agents)
  BY DEF Sound, Parses
<1>8. M = [N EXCEPT !.agents = kept, !.total = L.total - Cardinality(ids)]
  <2>1. L.total >= Cardinality(ids)
    <3>. HIDE DEF ids, kept
    <3>. QED BY <1>6, <1>7
  <2>2. M = [N EXCEPT
               !.agents = {a \in @ : a.id \notin ids},
               !.total  = IF @ >= Cardinality(ids) THEN @ - Cardinality(ids) ELSE 0]
    BY DEF AfterAbort
  <2>. HIDE DEF ids, M, N
  <2>. QED BY <1>2, <2>1, <2>2
<1>9. /\ M \in Ledger
      /\ M.limits = L.limits /\ M.total = L.total - Cardinality(ids)
      /\ M.agents = kept /\ M.leases = N.leases
  <2>1. L.total - Cardinality(ids) \in Nat
    <3>. HIDE DEF ids, kept
    <3>. QED BY <1>6, <1>7
  <2>2. kept \in SUBSET Agent
    BY DEF Sound, Ledger
  <2>. HIDE DEF ids, kept, M, N
  <2>. QED BY <1>1, <1>2, <1>8, <2>1, <2>2 DEF Sound, Ledger
<1>10. Parses(M)
  <2>1. \A l \in N.leases : \E a \in kept : a.id = l.id /\ a.owner = l.owner
    BY <1>2 DEF Sound, Parses, LeasesMatchAgents
  <2>2. LeasesMatchAgents(M)
    <3>. HIDE DEF ids, kept, M, N
    <3>. QED BY <1>9, <2>1 DEF LeasesMatchAgents
  <2>3. kept \subseteq L.agents
    OBVIOUS
  <2>. HIDE DEF ids, kept, M, N
  <2>4. M.total = Cardinality(M.agents)
    BY <1>6, <1>7, <1>9
  <2>5. UniqueAgents(M)
    BY <1>9, <2>3 DEF Sound, Parses, UniqueAgents
  <2>. QED BY <1>1, <1>9, <2>2, <2>4, <2>5
       DEF Sound, Parses, UniqueLeases, UniqueAddresses
<1>11. kept \subseteq L.agents
  OBVIOUS
<1>. HIDE DEF ids, kept, gone, M, N
<1>. QED BY <1>1, <1>2, <1>4, <1>9, <1>10, <1>11 DEF Sound, M

-----------------------------------------------------------------------------

\* Importing records of an earlier version keeps the ledger sound and leases
\* nothing.
LEMMA ImportSound ==
  ASSUME NEW L, Sound(L), NEW records,
         records \subseteq [id : AgentId, owner : Path, limits : Limits,
                            createdAt : Nat],
         IsFiniteSet(records), ImportAllowed(L, records)
  PROVE  Sound(AfterImport(L, records))
<1> DEFINE new == {r \in records : r.id \notin AgentIds(L)}
           A == ImportedAgents(L, records)
           M == AfterImport(L, records)
<1>1. L.limits \in Limits
  BY DEF Sound, Ledger
<1>2. ASSUME NEW r \in new
      PROVE  /\ Tighten(L.limits, r.limits) \in Limits
             /\ Tighten(L.limits, r.limits).maxDepth <= L.limits.maxDepth
             /\ Tighten(L.limits, r.limits).maxRunning <= L.limits.maxRunning
  <2>1. r.limits \in Limits
    OBVIOUS
  <2>. QED BY <1>1, <2>1, TightenType
<1>3. A \subseteq Agent
  BY <1>2 DEF ImportedAgents, Agent
<1>4. \A a \in A : /\ a.limits.maxDepth <= L.limits.maxDepth
                   /\ a.limits.maxRunning <= L.limits.maxRunning
  BY <1>2 DEF ImportedAgents
<1>5. \A a, b \in A : a.id = b.id => a = b
  BY DEF ImportedAgents, ImportAllowed
<1>6. \A a \in A : a.id \notin AgentIds(L)
  BY DEF ImportedAgents
<1>7. IsFiniteSet(A)
  <2>1. IsFiniteSet(new)
    BY FS_Subset, new \in SUBSET records
  <2> DEFINE f == [r \in new |->
        [id |-> r.id, owner |-> r.owner, limits |-> Tighten(L.limits, r.limits),
         createdAt |-> r.createdAt, usage |-> 0, resumes |-> 0]]
  <2>2. f \in [new -> A]
    BY DEF ImportedAgents
  <2>3. \A a \in A : \E r \in new : f[r] = a
    BY DEF ImportedAgents
  <2>. HIDE DEF f, A, new
  <2>4. f \in Surjection(new, A)
    BY <2>2, <2>3 DEF Surjection
  <2>. QED BY <2>1, <2>4, FS_Surjection
<1>8. IsFiniteSet(L.agents \cup A) /\ Cardinality(L.agents \cup A) \in Nat
  BY <1>7, FS_Union, FS_CardinalityType DEF Sound
<1> DEFINE all == L.agents \cup A
<1>9. M = [L EXCEPT !.agents = all, !.total = Cardinality(all)]
  BY DEF AfterImport, Sound, Parses, Ledger
<1>10. /\ M \in Ledger
       /\ M.limits = L.limits /\ M.total = Cardinality(all)
       /\ M.agents = all /\ M.leases = L.leases
  <2>1. all \in SUBSET Agent
    BY <1>3 DEF Sound, Ledger
  <2>2. Cardinality(all) \in Nat
    BY <1>8
  <2>. HIDE DEF all, M, A
  <2>. QED BY <1>9, <2>1, <2>2 DEF Sound, Ledger
<1>11. Parses(M)
  <2>. HIDE DEF M, A
  <2>1. UniqueAgents(M)
    BY <1>5, <1>6, <1>10 DEF Sound, Parses, UniqueAgents, AgentIds
  <2>2. LeasesMatchAgents(M)
    BY <1>10 DEF Sound, Parses, LeasesMatchAgents
  <2>. QED BY <1>10, <2>1, <2>2 DEF Sound, Parses, UniqueLeases, UniqueAddresses
<1>12. all \subseteq L.agents \cup A
  OBVIOUS
<1>. HIDE DEF M, A
<1>. QED BY <1>4, <1>8, <1>10, <1>11, <1>12 DEF Sound, M

=============================================================================
