--------------------------- MODULE SessionLedger ---------------------------
(***************************************************************************)
(* The durable ledger of one Agent session and the transactions on it:     *)
(* packages/pi-stuff/src/subagents/src/runtime/session-governor.ts,        *)
(* session-governor-ledger.ts, session-governor-spawn.ts and               *)
(* session-governor-contracts.ts.                                          *)
(*                                                                         *)
(* A ledger is a value.  The callback that the code hands to `transact`    *)
(* becomes a condition on that value (the early returns of the callback)   *)
(* and an operator from ledger to ledger (its assignments); `transact`     *)
(* runs it under a kernel lock and commits by an atomic rename, so each    *)
(* transaction is one step of the modules that hold a ledger.              *)
(*                                                                         *)
(* agents and leases are SETS of records, not functions on ids: that two   *)
(* records never share an id is something parseLedger checks and the       *)
(* transactions have to preserve.                                          *)
(***************************************************************************)
EXTENDS Integers, Sequences, FiniteSets

CONSTANTS
  Runs,       \* run ids (launches and engine-assigned runtime runs)
  Procs,      \* process incarnations (a pid with its start identity)
  CostGuard   \* reported work at which automatic expansion stops

ASSUME CostGuardAssumption == CostGuard \in Nat

-----------------------------------------------------------------------------
(* Data *)

\* `<runId>:<childIndex>`, agentExecutionLogicalId
AgentId == Runs \X Nat

Path == Seq(AgentId)

Limits == [maxDepth : Nat \ {0}, maxRunning : Nat \ {0}]

\* AgentRecord; agentPath is PathOf.  workUsage is its cost-guarded total and
\* the number of resumes.
Agent == [id : AgentId, owner : Path, limits : Limits, createdAt : Nat,
          usage : Nat, resumes : Nat]

\* LeaseRecord; `token` is leaseId, `proc` is pid with processStartIdentity.
Lease == [id : AgentId, run : Runs, index : Nat, token : Nat, owner : Path,
          proc : Procs, mode : {"spawn", "resume"}, at : Nat]

Ledger == [limits : Limits, total : Nat,
           agents : SUBSET Agent, leases : SUBSET Lease]

EmptyLedger(limits) ==
  [limits |-> limits, total |-> 0, agents |-> {}, leases |-> {}]

PathOf(record) == Append(record.owner, record.id)

RuntimeAddress(record) == <<record.run, record.index>>

Lesser(m, n) == IF m <= n THEN m ELSE n

Tighten(parent, child) ==
  [maxDepth   |-> Lesser(parent.maxDepth, child.maxDepth),
   maxRunning |-> Lesser(parent.maxRunning, child.maxRunning)]

AgentIds(L) == {a.id : a \in L.agents}
LeasedIds(L) == {l.id : l \in L.leases}
AddressesInUse(L) == {RuntimeAddress(l) : l \in L.leases}

-----------------------------------------------------------------------------
(* parseLedger: what a ledger must satisfy to be read back *)

UniqueAgents(L) == \A a, b \in L.agents : a.id = b.id => a = b

UniqueLeases(L) == \A l, m \in L.leases : l.id = m.id => l = m

UniqueAddresses(L) ==
  \A l, m \in L.leases : RuntimeAddress(l) = RuntimeAddress(m) => l = m

LeasesMatchAgents(L) ==
  \A l \in L.leases :
    \E a \in L.agents : a.id = l.id /\ a.owner = l.owner

Parses(L) ==
  /\ L.total = Cardinality(L.agents)
  /\ UniqueAgents(L)
  /\ UniqueLeases(L)
  /\ UniqueAddresses(L)
  /\ LeasesMatchAgents(L)

-----------------------------------------------------------------------------
(* Owners *)

OwnerRegistered(L, path) == \E a \in L.agents : PathOf(a) = path

\* resolveOwnerLimits: the root is bounded by the session, a child Agent's
\* host by the record of that Agent; both by what the host is configured with.
EffectiveLimits(L, path, configured) ==
  IF path = <<>>
  THEN Tighten(L.limits, configured)
  ELSE Tighten((CHOOSE a \in L.agents : PathOf(a) = path).limits, configured)

OverBudget(a) == a.usage >= CostGuard

\* acquireSpawnBatch: a child Agent over its own budget may not expand.
MayExpand(L, path) ==
  path # <<>> => \A a \in L.agents : PathOf(a) = path => ~OverBudget(a)

-----------------------------------------------------------------------------
(* reserveSpawnBatch, for the requests AgentExecutionGovernor makes: children
   0 .. n-1 of one launch, each at the runtime address of its own id. *)

BatchIds(run, n) == {<<run, i>> : i \in 0 .. n - 1}

\* A plausible slip, for the mutation runs: capacity is checked for one request of the batch.
SpawnAllowed_OneSlot(L, path, limits, run, n) ==
  /\ BatchIds(run, n) \cap AgentIds(L) = {}
  /\ BatchIds(run, n) \cap AddressesInUse(L) = {}
  /\ Len(path) + 1 <= limits.maxDepth
  /\ Cardinality(L.leases) + 1 <= limits.maxRunning

SpawnAllowed(L, path, limits, run, n) ==
  /\ BatchIds(run, n) \cap AgentIds(L) = {}
  /\ BatchIds(run, n) \cap AddressesInUse(L) = {}
  /\ Len(path) + 1 <= limits.maxDepth
  /\ Cardinality(L.leases) + n <= limits.maxRunning

SpawnedAgents(path, limits, run, n, at) ==
  {[id |-> <<run, i>>, owner |-> path, limits |-> limits, createdAt |-> at,
    usage |-> 0, resumes |-> 0] : i \in 0 .. n - 1}

SpawnedLeases(path, run, n, token, proc, at) ==
  {[id |-> <<run, i>>, run |-> run, index |-> i, token |-> token + i,
    owner |-> path, proc |-> proc, mode |-> "spawn", at |-> at] :
    i \in 0 .. n - 1}

AfterSpawn(L, path, limits, run, n, token, proc, at) ==
  [L EXCEPT !.total = @ + n,
            !.agents = @ \cup SpawnedAgents(path, limits, run, n, at),
            !.leases = @ \cup SpawnedLeases(path, run, n, token, proc, at)]

-----------------------------------------------------------------------------
(* acquireResume, at the address (launch run, child index) that
   AgentExecutionGovernor.reserveResume asks for. *)

ResumeAllowed(L, path, limits, a, run, acknowledged) ==
  /\ a.owner = path
  /\ a.id \notin LeasedIds(L)
  /\ <<run, a.id[2]>> \notin AddressesInUse(L)
  /\ Cardinality(L.leases) < limits.maxRunning
  /\ OverBudget(a) => acknowledged

ResumedLease(a, run, token, proc, at) ==
  [id |-> a.id, run |-> run, index |-> a.id[2], token |-> token,
   owner |-> a.owner, proc |-> proc, mode |-> "resume", at |-> at]

AfterResume(L, a, run, token, proc, at) ==
  [L EXCEPT !.agents = (@ \ {a}) \cup {[a EXCEPT !.resumes = @ + 1]},
            !.leases = @ \cup {ResumedLease(a, run, token, proc, at)}]

-----------------------------------------------------------------------------
(* rebindRuntime, with a lease handle h *)

\* A plausible slip, for the mutation runs: a handle is trusted for its Agent.
Current_SameAgent(L, h) == {l \in L.leases : l.id = h.id}

\* The lease the handle still owns: same Agent, same leaseId.
Current(L, h) == {l \in L.leases : l.id = h.id /\ l.token = h.token}

RebindAllowed(L, h, run, index) ==
  /\ Current(L, h) # {}
  /\ \A l \in L.leases : l.id # h.id => RuntimeAddress(l) # <<run, index>>

AfterRebind(L, h, run, index, proc) ==
  [L EXCEPT !.leases =
     (@ \ Current(L, h)) \cup
     {[l EXCEPT !.run = run, !.index = index, !.proc = proc] :
        l \in Current(L, h)}]

-----------------------------------------------------------------------------
(* release, releaseBatch, abortSpawnBatch *)

AfterRelease(L, h) == [L EXCEPT !.leases = @ \ Current(L, h)]

\* releaseValidatedBatch: any handle that does not match releases none.
BatchMatches(L, handles) == \A h \in handles : Current(L, h) # {}

\* ... with rollbackAgents: the lease and the Agent are the ones created
\* by this spawn.
RollbackMatches(L, handles) ==
  /\ BatchMatches(L, handles)
  /\ \A h \in handles :
       /\ \A l \in Current(L, h) : l.mode = "spawn"
       /\ \E a \in L.agents :
            a.id = h.id /\ a.createdAt = h.at /\ a.owner = h.owner

HandleIds(handles) == {h.id : h \in handles}

AfterReleaseBatch(L, handles) ==
  [L EXCEPT !.leases = {l \in @ : l.id \notin HandleIds(handles)}]

AfterAbort(L, handles) ==
  [AfterReleaseBatch(L, handles) EXCEPT
     !.agents = {a \in @ : a.id \notin HandleIds(handles)},
     !.total  = IF @ >= Cardinality(HandleIds(handles))
                THEN @ - Cardinality(HandleIds(handles))
                ELSE 0]

-----------------------------------------------------------------------------
(* reconcile, second transaction: remove the observed lease ids only *)

\* A plausible slip, for the mutation runs: reclaiming forgets the Agents too.
AfterReclaim_ForgetsAgents(L, observed) ==
  LET dead == {l \in L.leases :
                 \E o \in observed : o.id = l.id /\ o.token = l.token}
      kept == {a \in L.agents : \A l \in dead : l.id # a.id}
  IN  [L EXCEPT !.leases = @ \ dead, !.agents = kept,
                !.total = Cardinality(kept)]

AfterReclaim(L, observed) ==
  [L EXCEPT !.leases =
     {l \in @ : ~\E o \in observed : o.id = l.id /\ o.token = l.token}]

-----------------------------------------------------------------------------
(* recordWorkAttempt *)

AfterWork(L, a, work) ==
  [L EXCEPT !.agents = (@ \ {a}) \cup {[a EXCEPT !.usage = @ + work]}]

-----------------------------------------------------------------------------
(* importHistoricalAgents: the records, in order of depth, are skipped when
   already known and rejected when they contradict the ledger or lack an
   owner; a rejection leaves the ledger as it was. *)

ImportAllowed(L, records) ==
  /\ \A r, s \in records : r.id = s.id => r = s
  /\ \A r \in records : \A a \in L.agents : a.id = r.id => a.owner = r.owner
  /\ \A r \in records :
       (r.id \notin AgentIds(L) /\ r.owner # <<>>) =>
         \/ OwnerRegistered(L, r.owner)
         \/ \E s \in records : PathOf(s) = r.owner

ImportedAgents(L, records) ==
  {[id |-> r.id, owner |-> r.owner, limits |-> Tighten(L.limits, r.limits),
    createdAt |-> r.createdAt, usage |-> 0, resumes |-> 0] :
     r \in {s \in records : s.id \notin AgentIds(L)}}

\* A plausible slip, for the mutation runs: the total is left to the launches.
AfterImport_Uncounted(L, records) ==
  [L EXCEPT !.agents = @ \cup ImportedAgents(L, records)]

AfterImport(L, records) ==
  LET known == L.agents \cup ImportedAgents(L, records)
  IN  [L EXCEPT !.agents = known,
                !.total = IF known = L.agents THEN @ ELSE Cardinality(known)]
=============================================================================
