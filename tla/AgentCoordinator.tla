-------------------------- MODULE AgentCoordinator --------------------------
(***************************************************************************)
(* AgentExecutionCoordinator of one Pi Host: it ties every Agent launch    *)
(* (an invocation) to leases of the session's ledger and to the processes  *)
(* that do the work (agent-execution-coordinator.ts over                   *)
(* agent-execution-governor.ts and durable-agent-operation.ts; the caller  *)
(* is extension/public-agent-execution.ts).                                *)
(*                                                                         *)
(* Every await of the code separates two actions; each ledger transaction  *)
(* is one action.  Settlements and completions are durable operations: a   *)
(* failed attempt starts over after a delay, until the operation finishes. *)
(* The session is away and comes back when generation is odd and even.     *)
(***************************************************************************)
EXTENDS RuntimeProcesses

CONSTANTS
  Invocations,
  Kind,          \* [Invocations -> {"spawn", "resume"}]
  Launch,        \* launchRunId of each invocation
  Runtime,       \* the run the engine starts for it
  Size,          \* children of each invocation
  Foreground,    \* the launches that wait for their children
  Target,        \* the Agent a resume continues
  Openings,      \* the ledgers the Host may find
  NoRun,         \* no AsyncStart is known
  MaxGeneration, \* bound: session changes
  MaxFaults      \* bound: failed transactions and unproven aborts

\* A launch runs under the id of its Tool call (launch-preparation.ts:224); a
\* resume goes to the background (product-executor.ts:31, executor-control.ts:327)
\* under an id of its own.
ASSUME InvocationsAssumption == \A i \in Invocations :
  /\ Kind[i] \in {"spawn", "resume"} /\ Size[i] \in Nat \ {0}
  /\ Launch[i] \in Runs /\ Runtime[i] \in Runs
  /\ Kind[i] = "spawn" => Runtime[i] = Launch[i]
  /\ Kind[i] = "resume" => Size[i] = 1 /\ i \notin Foreground

\* No two launches share a run id.
ASSUME RunIdsAssumption ==
  /\ NoRun \notin Runs
  /\ \A i, j \in Invocations :
       /\ Launch[i] = Launch[j] \/ Runtime[i] = Runtime[j] => i = j
       /\ Launch[i] = Runtime[j] => i = j /\ Kind[i] = "spawn"

\* A ledger that can be read; leaseIds are numbered from 0.
ASSUME OpeningAssumption == \A opening \in Openings :
  /\ opening \in Ledger /\ IsFiniteSet(opening.agents)
  /\ Parses(opening) /\ opening.leases = {}
  /\ \A a \in opening.agents :
       /\ a.limits.maxDepth <= opening.limits.maxDepth
       /\ a.limits.maxRunning <= opening.limits.maxRunning

ASSUME BoundsAssumption == MaxGeneration \in Nat /\ MaxFaults \in Nat

Sweeper == "sweeper"

VARIABLES
  ledger, issued,
  generation,   \* even: bound to this session
  phase,        \* where each invocation is
  bornIn,       \* BoundInvocation.generation, and its session
  held,         \* reservation.leases
  starts,       \* BoundInvocation.starts, by run
  active,       \* the invocations in the active map
  asyncStarts,  \* the runs in the asyncStarts map
  bindings,     \* observeAsyncStarted calls that are rebinding leases
  pending,      \* pendingSettlements
  completions,  \* pendingCompletions
  reported,     \* children whose end was reported to the coordinator
  observed,     \* leases a reconciliation found dead
  faults

memory == <<generation, phase, bornIn, held, starts, active, asyncStarts,
            bindings, pending, completions, reported, observed>>
vars == <<ledger, issued, memory, faults, processVars>>

(* Frames *)
launchVars == <<issued, generation, bornIn, held>>
startVars == <<starts, active, asyncStarts>>
reports == <<completions, reported>>
ends == <<observed, faults, processVars>>

Children(i) == 0 .. Size[i] - 1
AgentOf(i, k) == IF Kind[i] = "spawn" THEN <<Launch[i], k>> ELSE Target[i]
Handle(i, k) == CHOOSE h \in held[i] : h.id = AgentOf(i, k)
BoundHere == generation % 2 = 0

Phases == {"idle", "observed", "reclaimed", "reserved", "called", "started",
           "binding", "foreground", "throwing", "returned", "settled",
           "refused", "lost"}

Init ==
  /\ ProcessesInit
  /\ ledger \in Openings
  /\ issued = 0 /\ generation = 0 /\ faults = 0
  /\ phase = [i \in Invocations |-> "idle"]
  /\ bornIn = [i \in Invocations |-> 0]
  /\ held = [i \in Invocations |-> {}]
  /\ starts = [i \in Invocations |-> {}]
  /\ active = {} /\ asyncStarts = {}
  /\ bindings = {} /\ pending = {} /\ completions = {} /\ reported = {}
  /\ observed = [i \in Invocations \cup {Sweeper} |-> {}]

Goto(i, to) == phase' = [phase EXCEPT ![i] = to]

Fault == faults < MaxFaults /\ faults' = faults + 1

\* What a reconciliation may find dead; an unknown verdict retains the lease.
Findings == SUBSET {l \in ledger.leases : ProvablyDead(l)}

-----------------------------------------------------------------------------
(* prepare: reconcile, reserve, and give the reservation back when the
   session changed meanwhile. *)

PrepareObserve(i) ==
  /\ phase[i] = "idle" /\ BoundHere
  /\ Goto(i, "observed")
  /\ bornIn' = [bornIn EXCEPT ![i] = generation]
  /\ \E found \in Findings : observed' = [observed EXCEPT ![i] = found]
  /\ UNCHANGED <<ledger, issued, generation, held, startVars, bindings,
                 pending, reports, faults, processVars>>

PrepareReclaim(i) ==
  /\ phase[i] = "observed"
  /\ ledger' = AfterReclaim(ledger, observed[i])
  /\ observed' = [observed EXCEPT ![i] = {}]
  /\ Goto(i, IF bornIn[i] = generation THEN "reclaimed" ELSE "refused")
  /\ UNCHANGED <<launchVars, startVars, bindings, pending, reports, faults,
                 processVars>>

ReserveSpawn(i) ==
  /\ SpawnAllowed(ledger, <<>>, ledger.limits, Launch[i], Size[i])
  /\ ledger' = AfterSpawn(ledger, <<>>, ledger.limits, Launch[i], Size[i],
                          issued, host, 0)
  /\ held' = [held EXCEPT ![i] =
                SpawnedLeases(<<>>, Launch[i], Size[i], issued, host, 0)]

ReserveResume(i) == \E a \in ledger.agents :
  /\ a.id = Target[i]
  /\ ResumeAllowed(ledger, <<>>, ledger.limits, a, Launch[i], FALSE)
  /\ ledger' = AfterResume(ledger, a, Launch[i], issued, host, 0)
  /\ held' = [held EXCEPT ![i] = {ResumedLease(a, Launch[i], issued, host, 0)}]

PrepareReserve(i) ==
  /\ phase[i] = "reclaimed"
  /\ IF Kind[i] = "spawn" THEN ReserveSpawn(i) ELSE ReserveResume(i)
  /\ issued' = issued + Size[i]
  /\ Goto(i, "reserved")
  /\ UNCHANGED <<generation, bornIn, startVars, bindings, pending, reports,
                 ends>>

\* The reservation is refused, or the ledger could not be read.
PrepareRefused(i) ==
  /\ phase[i] \in {"observed", "reclaimed"}
  /\ Goto(i, "refused")
  /\ observed' = [observed EXCEPT ![i] = {}]
  /\ UNCHANGED <<ledger, launchVars, startVars, bindings, pending, reports,
                 faults, processVars>>

\* createPendingSettlement.  `terminalChildren` are the foreground children
\* known to be over; `next` is the child an attempt has come to.
Settlement(i, kind, bind, run, start, terminalChildren) ==
  [inv |-> i, owned |-> phase[i] # "reserved", kind |-> kind, bind |-> bind,
   run |-> run, start |-> start, terminalChildren |-> terminalChildren,
   at |-> IF bind THEN "bind" ELSE "settle", next |-> 0]

PrepareReturn(i) ==
  /\ phase[i] = "reserved"
  /\ IF bornIn[i] = generation
     THEN Goto(i, "called") /\ active' = active \cup {i} /\ UNCHANGED pending
     ELSE /\ pending' = pending \cup
               {Settlement(i, "start-error", FALSE, Launch[i], NoRun, {})}
          /\ Goto(i, "returned") /\ UNCHANGED active
  /\ UNCHANGED <<ledger, launchVars, starts, asyncStarts, bindings, reports,
                 ends>>

-----------------------------------------------------------------------------
(* The engine runs.  observeAsyncStarted receives the start of run r *)

Candidates(r) ==
  IF \E i \in active : Launch[i] = r THEN {}
  ELSE {i \in active : Kind[i] = "resume"}

\* The invocation launched under this run id, or the only resume it can be.
StartOwner(r) ==
  LET exact == {i \in active : Launch[i] = r}
  IN  IF exact # {} THEN exact
      ELSE IF Cardinality(Candidates(r)) = 1 THEN Candidates(r) ELSE {}

ObserveAsyncStarted(by, r) ==
  /\ asyncStarts' = asyncStarts \cup {r}
  /\ starts' = [i \in Invocations |->
                  IF i \in Candidates(r) \cup StartOwner(r)
                  THEN starts[i] \cup {r} ELSE starts[i]]
  /\ bindings' = bindings \cup
       {[by |-> by, inv |-> o, run |-> r, next |-> 0] : o \in StartOwner(r)}

\* A detached runner waits behind its gate, or is the debris of a failed
\* launch.  The start event may not reach the coordinator.
StartBackground(i) ==
  LET r == Runtime[i] IN
  /\ phase[i] = "called" /\ i \notin Foreground
  /\ \E state \in {"gated", "doomed"} :
       runner' = [runner EXCEPT ![r] = state]
  /\ \/ BoundHere /\ ObserveAsyncStarted(i, r)
     \/ UNCHANGED <<asyncStarts, starts, bindings>>
  /\ Goto(i, "started")
  /\ UNCHANGED <<ledger, launchVars, active, pending, reports, observed,
                 faults, host, dead, writers, terminal, frames, opened,
                 aborted>>

\* beforeForegroundStart: the children start once the coordinator has bound
\* the frame.
StartForeground(i) ==
  LET r == Runtime[i] IN
  /\ phase[i] = "called" /\ i \in Foreground
  /\ runner' = [runner EXCEPT ![r] = "gated"]
  /\ frames' = frames \cup {r}
  /\ ObserveAsyncStarted(i, r)
  /\ Goto(i, "binding")
  /\ UNCHANGED <<ledger, launchVars, active, pending, reports, observed,
                 faults, host, dead, writers, terminal, opened, aborted>>

RunForeground(i) ==
  /\ phase[i] = "binding"
  /\ ~\E b \in bindings : b.by = i
  /\ OpenGate(Runtime[i])
  /\ Goto(i, "foreground")
  /\ UNCHANGED <<ledger, launchVars, startVars, bindings, pending, reports,
                 observed, faults>>

-----------------------------------------------------------------------------
(* bindReservationRuntime, shared by the start event and the settlement *)

TargetIndex(i, k) == IF Kind[i] = "resume" THEN 0 ELSE k

MayBind(i, k, r) == RebindAllowed(ledger, Handle(i, k), r, TargetIndex(i, k))

\* A plausible slip, for the mutation runs: the lease keeps the process of the Host.
BoundLedger_HostKept(i, k, r, start) ==
  LET proc == (CHOOSE l \in Current(ledger, Handle(i, k)) : TRUE).proc
  IN  AfterRebind(ledger, Handle(i, k), r, TargetIndex(i, k), proc)

\* A start names the run's process; without one only the address moves.
\* Current holds at most one lease.
BoundLedger(i, k, r, start) ==
  LET proc == IF start # NoRun THEN start
              ELSE (CHOOSE l \in Current(ledger, Handle(i, k)) : TRUE).proc
  IN  AfterRebind(ledger, Handle(i, k), r, TargetIndex(i, k), proc)

\* drainPendingCompletions, and every scheduleCompletionRetry: a completion
\* that waited without a timer is attempted again.
Armed(all, cs) ==
  {IF c \in cs /\ c.at = "parked" THEN [c EXCEPT !.at = "check"] ELSE c : c \in all}

Arm(cs) == Armed(completions, cs)

CompletionsOf(i, r) == {c \in completions : c.gen = bornIn[i] /\ c.run = r}

\* acknowledgeStart throws for a run that was aborted, unless the wrapper of
\* the start event remembers that it succeeded before.
GateThrows(i, r) ==
  r \in aborted \ frames /\ ~(r \in opened /\ r \in starts[i])

\* Neither a foreground frame nor debris has an acknowledgeStart.
Acknowledge(r) ==
  IF r # NoRun /\ r \notin frames /\ runner[r] # "doomed"
  THEN OpenGate(r) ELSE UNCHANGED processVars

\* A plausible slip, for the mutation runs: the gate opens before the last child is bound.
AllBound_Early(i, next) == next >= Size[i] - 1

AllBound(i, next) == next = Size[i]

BindStarted(b) ==
  /\ ~AllBound(b.inv, b.next)
  /\ MayBind(b.inv, b.next, b.run)
  /\ ledger' = BoundLedger(b.inv, b.next, b.run, b.run)
  /\ bindings' = (bindings \ {b}) \cup {[b EXCEPT !.next = @ + 1]}
  /\ UNCHANGED <<launchVars, phase, startVars, pending, reports, ends>>

AcknowledgeStarted(b) ==
  /\ AllBound(b.inv, b.next)
  /\ ~GateThrows(b.inv, b.run)
  /\ Acknowledge(b.run)
  /\ completions' = Arm(CompletionsOf(b.inv, b.run))
  /\ bindings' = bindings \ {b}
  /\ UNCHANGED <<ledger, launchVars, phase, startVars, pending, observed,
                 reported, faults>>

\* A rejection or an error ends the start event; a foreground launch that
\* awaits it throws.
StartedFails(b) ==
  /\ \/ ~AllBound(b.inv, b.next) /\ ~MayBind(b.inv, b.next, b.run)
        /\ UNCHANGED faults
     \/ AllBound(b.inv, b.next) /\ GateThrows(b.inv, b.run) /\ UNCHANGED faults
     \/ ~AllBound(b.inv, b.next) /\ Fault
  /\ bindings' = bindings \ {b}
  /\ IF phase[b.by] = "binding" THEN Goto(b.by, "throwing") ELSE UNCHANGED phase
  /\ UNCHANGED <<ledger, launchVars, startVars, pending, reports, observed,
                 processVars>>

-----------------------------------------------------------------------------
(* The engine returns: settle and fail *)

Await(i, settlement) ==
  /\ pending' = pending \cup {settlement}
  /\ Goto(i, "returned")
  /\ UNCHANGED <<ledger, launchVars, startVars, bindings, reports, observed>>

\* settle of a result that names a background run.
SettleStarted(i) ==
  Await(i, Settlement(i, "background-started", TRUE, Runtime[i], Runtime[i], {}))

StartError(i, r) == Await(i, Settlement(i, "start-error", FALSE, r, NoRun, {}))

FailStart(i) ==
  IF Launch[i] \in starts[i] THEN Launch[i]
  ELSE IF Cardinality(starts[i]) = 1 THEN CHOOSE r \in starts[i] : TRUE
  ELSE NoRun

\* fail, when the caller has already aborted the runs `gone`.
Fails(i, gone) ==
  LET r == FailStart(i) IN
  \/ /\ starts[i] = {}
     /\ StartError(i, Launch[i]) /\ Kill(gone) /\ UNCHANGED faults
  \/ /\ starts[i] # {} /\ r = NoRun
     /\ Await(i, Settlement(i, "background-started", FALSE, Launch[i], NoRun, {}))
     /\ Kill(gone) /\ UNCHANGED faults
  \/ /\ r # NoRun /\ (r \in gone \/ Abortable(r))
     /\ StartError(i, r) /\ Kill(gone \cup {r}) /\ UNCHANGED faults
  \/ /\ r # NoRun /\ r \notin gone
     /\ IF Abortable(r) THEN ~NothingAlive(r) /\ Fault ELSE UNCHANGED faults
     /\ Await(i, Settlement(i, "background-started", TRUE, r, r, {}))
     /\ Kill(gone)

SessionChanged(i) == bornIn[i] # generation

\* The engine result names the background run.  A caller whose session
\* changed aborts the run, and fails the invocation when that succeeded.
ReturnStarted(i) ==
  /\ phase[i] = "started"
  /\ \/ ~SessionChanged(i) /\ SettleStarted(i) /\ UNCHANGED <<faults, processVars>>
     \/ SessionChanged(i) /\ Fails(i, {Runtime[i]})
     \/ /\ SessionChanged(i) /\ ~NothingAlive(Runtime[i]) /\ Fault
        /\ SettleStarted(i) /\ UNCHANGED processVars

\* The start that settle finds for run r, of its own invocation or of none.
KnownStart(i, r) == IF r \in starts[i] \cup asyncStarts THEN r ELSE NoRun

\* settle of a result that names no background run and reports no child.
SettleEmpty(i, r) ==
  LET start == KnownStart(i, r) IN
  \/ /\ start = NoRun
     /\ StartError(i, r) /\ UNCHANGED <<faults, processVars>>
  \/ /\ start # NoRun /\ Abortable(r)
     /\ StartError(i, r) /\ Kill({r}) /\ UNCHANGED faults
  \/ /\ start # NoRun
     /\ IF Abortable(r) THEN ~NothingAlive(r) /\ Fault ELSE UNCHANGED faults
     /\ Await(i, Settlement(i, "background-started", TRUE, r, r, {}))
     /\ UNCHANGED processVars

\* The engine result is an error of a launch that started no child.
ReturnFailed(i) ==
  /\ phase[i] \in {"called", "throwing"}
  /\ IF SessionChanged(i) THEN Fails(i, {}) ELSE SettleEmpty(i, Launch[i])

\* The engine throws before it started anything; only a resume does so
\* when another invocation may already have started.
Throw(i) == phase[i] = "called" /\ Fails(i, {})

TerminalChildren(i) == {k \in Children(i) : <<Runtime[i], k>> \in terminal}

\* The foreground result: all children are over, or the frame ended and
\* those that are not over are reported as detached.
ReturnForeground(i) ==
  LET ended == TerminalChildren(i) IN
  /\ phase[i] = "foreground"
  /\ ended = Children(i) \/ runner[Runtime[i]] = "ended"
  /\ Await(i, Settlement(i, "foreground", ended # Children(i), Runtime[i],
                         KnownStart(i, Runtime[i]), ended))
  /\ UNCHANGED <<faults, processVars>>

\* The frame ended and its status can not be read: no child is reported.
ReturnUnreadable(i) ==
  /\ phase[i] = "foreground" /\ runner[Runtime[i]] = "ended"
  /\ SettleEmpty(i, Runtime[i])

\* No result and no child ever started: abortIfUnstarted removed the run.
ReturnUnstarted(i) ==
  /\ phase[i] = "foreground" /\ ~Started(Runtime[i])
  /\ StartError(i, Runtime[i])
  /\ Kill({Runtime[i]}) /\ UNCHANGED faults

-----------------------------------------------------------------------------
(* An attempt of a pending settlement: bind the children, open the gate,
   reconcile what completed meanwhile, apply the settlement. *)

Advance(p, to) == pending' = (pending \ {p}) \cup {[p EXCEPT !.at = to]}

FirstStep(p) == [p EXCEPT !.at = IF p.bind THEN "bind" ELSE "settle", !.next = 0]

\* The attempt failed; it is repeated from its first step.
Retry(p) == pending' = (pending \ {p}) \cup {FirstStep(p)}

\* finishPendingSettlement: the invocation is settled, the completions that
\* waited for it are tried again, and those of a run that never was are dropped.
Finish(p) ==
  LET i == p.inv
      waiting == {c \in completions : p.owned /\ i \in c.candidates}
      dropped == {c \in completions : ~p.bind /\ c.gen = bornIn[i] /\ c.run = p.run}
  IN /\ pending' = pending \ {p}
     /\ completions' = Armed(completions \ dropped, waiting)
     /\ Goto(i, IF p.owned THEN "settled" ELSE "refused")
     /\ active' = active \ {i}
     /\ starts' = [starts EXCEPT ![i] = @ \ {p.run}]
     /\ asyncStarts' = IF p.owned /\ bornIn[i] = generation
                       THEN asyncStarts \ {p.run} ELSE asyncStarts
     /\ UNCHANGED <<launchVars, bindings, reported, observed>>

SettlementBind(p) ==
  LET bound == [p EXCEPT !.next = @ + 1] IN
  /\ p.at = "bind" /\ MayBind(p.inv, p.next, p.run)
  /\ ledger' = BoundLedger(p.inv, p.next, p.run, p.start)
  /\ pending' = (pending \ {p}) \cup
       {IF AllBound(p.inv, bound.next) THEN [bound EXCEPT !.at = "acknowledge", !.next = 0]
        ELSE bound}
  /\ UNCHANGED <<launchVars, phase, startVars, bindings, reports, ends>>

\* A plausible slip, for the mutation runs: a refusal is retried like a failure.
SettlementRejected_Retried(p) ==
  /\ p.at = "bind" /\ ~MayBind(p.inv, p.next, p.run)
  /\ Retry(p)
  /\ UNCHANGED <<ledger, launchVars, phase, startVars, bindings, reports, ends>>

\* The ledger refuses the binding.  Only a run of which nothing is left
\* gives its reservation back.
SettlementRejected(p) ==
  /\ p.at = "bind" /\ ~MayBind(p.inv, p.next, p.run)
  /\ \/ p.start = NoRun /\ Advance(p, "rejected") /\ UNCHANGED <<faults, processVars>>
     \/ p.start # NoRun /\ Abortable(p.start)
        /\ Advance(p, "rejected") /\ Kill({p.start}) /\ UNCHANGED faults
     \/ p.start # NoRun /\ Retry(p) /\ UNCHANGED processVars
        /\ IF Abortable(p.start) THEN ~NothingAlive(p.start) /\ Fault
           ELSE UNCHANGED faults
  /\ UNCHANGED <<ledger, launchVars, phase, startVars, bindings, reports,
                 observed>>

SettlementAcknowledge(p) ==
  /\ p.at = "acknowledge"
  /\ IF p.start # NoRun /\ GateThrows(p.inv, p.start)
     THEN Retry(p) /\ UNCHANGED <<completions, processVars>>
     ELSE /\ Acknowledge(p.start)
          /\ completions' = Arm(CompletionsOf(p.inv, p.run))
          /\ Advance(p, IF p.kind = "background-started" THEN "observe" ELSE "settle")
  /\ UNCHANGED <<ledger, launchVars, phase, startVars, bindings, observed,
                 reported, faults>>

SettlementObserve(p) ==
  /\ p.at = "observe"
  /\ \E found \in Findings : observed' = [observed EXCEPT ![p.inv] = found]
  /\ Advance(p, "reclaim")
  /\ UNCHANGED <<ledger, launchVars, phase, startVars, bindings, reports,
                 faults, processVars>>

SettlementReclaim(p) ==
  /\ p.at = "reclaim"
  /\ ledger' = AfterReclaim(ledger, observed[p.inv])
  /\ observed' = [observed EXCEPT ![p.inv] = {}]
  /\ Advance(p, "settle")
  /\ UNCHANGED <<launchVars, phase, startVars, bindings, reports, faults,
                 processVars>>

\* settle of a start-error: a launch is undone as a whole, a resume released.
WithoutReservation(i) ==
  IF Kind[i] = "spawn"
  THEN IF RollbackMatches(ledger, held[i]) THEN AfterAbort(ledger, held[i]) ELSE ledger
  ELSE AfterRelease(ledger, Handle(i, 0))

NothingStarted(p) == p.at = "rejected" \/ (p.at = "settle" /\ p.kind = "start-error")

SettleStartError(p) ==
  /\ NothingStarted(p)
  /\ ledger' = WithoutReservation(p.inv)
  /\ Finish(p) /\ UNCHANGED <<faults, processVars>>

\* Detached work keeps its leases.
SettleBackground(p) ==
  /\ p.at = "settle" /\ p.kind = "background-started"
  /\ Finish(p) /\ UNCHANGED <<ledger, faults, processVars>>

\* The children that are over are released one by one.
SettleForeground(p) ==
  /\ p.at = "settle" /\ p.kind = "foreground"
  /\ ledger' = IF p.next \in p.terminalChildren
               THEN AfterRelease(ledger, Handle(p.inv, p.next)) ELSE ledger
  /\ IF p.next = Size[p.inv] - 1 THEN Finish(p)
     ELSE /\ pending' = (pending \ {p}) \cup {[p EXCEPT !.next = @ + 1]}
          /\ UNCHANGED <<launchVars, phase, startVars, bindings, reports,
                         observed>>
  /\ UNCHANGED <<faults, processVars>>

\* A ledger transaction of the attempt fails.
SettlementFault(p) ==
  /\ p.at # "acknowledge" /\ Fault /\ Retry(p)
  /\ observed' = [observed EXCEPT ![p.inv] = {}]
  /\ UNCHANGED <<ledger, launchVars, phase, startVars, bindings, reports,
                 processVars>>

-----------------------------------------------------------------------------
(* complete: the runtime reports that child k of run r is over *)

Reported(r, k) == {c \in completions : c.gen = generation /\ c.run = r /\ c.index = k}

Completion(r, k) ==
  [gen |-> generation, run |-> r, index |-> k, at |-> "check", found |-> {},
   candidates |-> {i \in active : Launch[i] = r \/ Kind[i] = "resume"}]

Complete(r, k) ==
  /\ BoundHere /\ <<r, k>> \in terminal
  /\ \A c \in Reported(r, k) : c.at = "parked"
  /\ completions' = IF Reported(r, k) = {} THEN completions \cup {Completion(r, k)}
                    ELSE Arm(Reported(r, k))
  /\ reported' = reported \cup {<<r, k>>}
  /\ UNCHANGED <<ledger, launchVars, phase, startVars, bindings, pending, ends>>

\* findRuntimeLease
LeaseAt(c) == {l \in ledger.leases : RuntimeAddress(l) = <<c.run, c.index>>}

StepCompletion(c, remaining) ==
  /\ completions' = (completions \ {c}) \cup remaining
  /\ UNCHANGED <<launchVars, phase, startVars, bindings, pending, ends,
                 reported>>

\* A report is no proof that the process is gone: a live lease is retained
\* and the report is retried until there is one.
CompletionCheck(c) ==
  /\ c.at = "check" /\ \A l \in LeaseAt(c) : ProvablyDead(l)
  /\ StepCompletion(c, {[c EXCEPT !.at = "find"]})
  /\ UNCHANGED ledger

\* completionMayNeedRuntimeBinding
MayNeedBinding(c) ==
  \/ \E p \in pending : p.bind /\ bornIn[p.inv] = c.gen /\ p.run = c.run
  \/ \E i \in c.candidates : phase[i] # "settled"

\* A plausible slip, for the mutation runs: a report that finds no lease is dropped.
CompletionFind_Dropped(c) ==
  /\ c.at = "find"
  /\ StepCompletion(c, IF LeaseAt(c) # {}
                       THEN {[c EXCEPT !.at = "release", !.found = LeaseAt(c)]}
                       ELSE {})
  /\ UNCHANGED ledger

\* completeRuntime looks the lease up again; without one the report waits
\* for the binding that may still come.
CompletionFind(c) ==
  /\ c.at = "find"
  /\ StepCompletion(c, IF LeaseAt(c) # {}
                       THEN {[c EXCEPT !.at = "release", !.found = LeaseAt(c)]}
                       ELSE IF MayNeedBinding(c) THEN {[c EXCEPT !.at = "parked"]}
                       ELSE {})
  /\ UNCHANGED ledger

CompletionRelease(c) ==
  /\ c.at = "release"
  /\ \E h \in c.found : ledger' = AfterRelease(ledger, h)
  /\ StepCompletion(c, {})

-----------------------------------------------------------------------------
(* reconcileDead and reconcileExisting, on the events of the runtime *)

SweepObserve ==
  /\ BoundHere /\ observed[Sweeper] = {}
  /\ \E found \in Findings \ {{}} : observed' = [observed EXCEPT ![Sweeper] = found]
  /\ UNCHANGED <<ledger, launchVars, phase, startVars, bindings, pending,
                 reports, faults, processVars>>

SweepReclaim ==
  /\ observed[Sweeper] # {}
  /\ ledger' = AfterReclaim(ledger, observed[Sweeper])
  /\ observed' = [observed EXCEPT ![Sweeper] = {}]
  /\ UNCHANGED <<launchVars, phase, startVars, bindings, pending, reports,
                 faults, processVars>>

-----------------------------------------------------------------------------
(* The session changes, the Host dies, processes go on *)

\* bindSession, or dispose on the way out, which wakes no completion.  What is
\* pending keeps the session it began with.
SwitchSession ==
  /\ generation < MaxGeneration
  /\ generation' = generation + 1
  /\ active' = {} /\ asyncStarts' = {}
  /\ \/ completions' = Arm(completions)
     \/ BoundHere /\ UNCHANGED completions
  /\ UNCHANGED <<ledger, issued, phase, bornIn, held, starts, bindings,
                 pending, ends, reported>>

\* A new Host resumes the session with nothing but the ledger.
Crash ==
  /\ RestartHost
  /\ phase' = [i \in Invocations |->
                 IF phase[i] \in {"idle", "settled", "refused"} THEN phase[i] ELSE "lost"]
  /\ generation' = generation + (generation % 2)
  /\ held' = [i \in Invocations |-> {}]
  /\ starts' = [i \in Invocations |-> {}]
  /\ active' = {} /\ asyncStarts' = {}
  /\ bindings' = {} /\ pending' = {} /\ completions' = {} /\ reported' = {}
  /\ observed' = [i \in Invocations \cup {Sweeper} |-> {}]
  /\ UNCHANGED <<ledger, issued, bornIn, faults>>

ProcessStep ==
  /\ \/ \E i \in Invocations : \E k \in Children(i) :
          \/ StartWriter(Runtime[i], k)
          \/ ReportChild(Runtime[i], k)
          \/ ExitWriter(Runtime[i], k)
     \/ \E r \in Runs : ExitRunner(r) \/ EndFrame(r)
  /\ UNCHANGED <<ledger, issued, memory, faults>>

InvocationStep(i) ==
  \/ PrepareObserve(i) \/ PrepareReclaim(i) \/ PrepareReserve(i)
  \/ PrepareRefused(i) \/ PrepareReturn(i)
  \/ StartBackground(i) \/ StartForeground(i) \/ RunForeground(i)
  \/ ReturnStarted(i) \/ ReturnFailed(i) \/ Throw(i)
  \/ ReturnForeground(i) \/ ReturnUnreadable(i) \/ ReturnUnstarted(i)

BindingStep(b) == BindStarted(b) \/ AcknowledgeStarted(b) \/ StartedFails(b)

SettlementStep(p) ==
  \/ SettlementBind(p) \/ SettlementRejected(p) \/ SettlementAcknowledge(p)
  \/ SettlementObserve(p) \/ SettlementReclaim(p)
  \/ SettleStartError(p) \/ SettleBackground(p) \/ SettleForeground(p)

CompletionStep(c) == CompletionCheck(c) \/ CompletionFind(c) \/ CompletionRelease(c)

Next ==
  \/ \E i \in Invocations : InvocationStep(i)
  \/ \E b \in bindings : BindingStep(b)
  \/ \E p \in pending : SettlementStep(p) \/ SettlementFault(p)
  \/ \E c \in completions : CompletionStep(c)
  \/ \E i \in Invocations : \E k \in Children(i) : Complete(Runtime[i], k)
  \/ SweepObserve \/ SweepReclaim
  \/ SwitchSession \/ Crash
  \/ ProcessStep

Spec == Init /\ [][Next]_vars
\* The retry timer repeats an operation until it is done (RETRY_DELAYS_MS has
\* no last attempt), the engine returns, a finished child is reported, and
\* processes come to an end.  Nothing makes the session change or come back.
Fairness ==
  /\ \A i \in Invocations :
       /\ WF_vars(InvocationStep(i))
       /\ WF_vars(\E b \in bindings : b.inv = i /\ BindingStep(b))
       /\ WF_vars(\E p \in pending : p.inv = i /\ SettlementStep(p))
       /\ WF_vars(ExitRunner(Runtime[i]) /\ UNCHANGED <<ledger, issued, memory, faults>>)
       /\ \A k \in Children(i) :
            /\ WF_vars(\E c \in completions :
                         c.run = Runtime[i] /\ c.index = k /\ CompletionStep(c))
            /\ WF_vars(<<Runtime[i], k>> \notin reported /\ Complete(Runtime[i], k))
            /\ WF_vars(ExitWriter(Runtime[i], k) /\ UNCHANGED <<ledger, issued, memory, faults>>)

FairSpec == Spec /\ Fairness

-----------------------------------------------------------------------------
(* Properties *)

TypeOK ==
  /\ ProcessesTypeOK
  /\ ledger \in Ledger
  /\ issued \in Nat /\ generation \in 0 .. MaxGeneration + 1 /\ faults \in 0 .. MaxFaults
  /\ phase \in [Invocations -> Phases]
  /\ bornIn \in [Invocations -> 0 .. MaxGeneration + 1]
  /\ held \in [Invocations -> SUBSET Lease]
  /\ starts \in [Invocations -> SUBSET Runs]
  /\ active \subseteq Invocations /\ asyncStarts \subseteq Runs /\ reported \subseteq terminal
  /\ observed \in [Invocations \cup {Sweeper} -> SUBSET Lease]
  /\ \A b \in bindings : b.next \in 0 .. Size[b.inv] /\ b.run \in Runs
  /\ \A p \in pending : p.next \in Children(p.inv) /\ p.run \in Runs
  /\ \A c \in completions : c.found \subseteq Lease /\ c.candidates \subseteq Invocations

\* An Agent at work always holds a slot of the session: the child of a run
\* whose writer lives and whose step is not over has a lease at its runtime
\* address.  Otherwise the session starts more Agents than its limit allows,
\* and nothing ever reaps this one.
WorkIsLeased ==
  \A w \in writers \ terminal : \E l \in ledger.leases : RuntimeAddress(l) = w

AddressIn(i, k) == <<Runtime[i], TargetIndex(i, k)>>

\* The gate of a detached runner opens only when every child of its
\* invocation is bound to it: a crash right after leaves leases from which
\* the next Host can find, watch and reap all of the run's processes.
GateAfterBinding ==
  [][\A i \in Invocations :
       (Runtime[i] \notin frames /\ runner[Runtime[i]] = "gated"
          /\ runner'[Runtime[i]] = "working")
       => \A k \in Children(i) : \E l \in ledger'.leases :
            RuntimeAddress(l) = AddressIn(i, k) /\ l.proc = Runtime[i]]_vars

\* A lease that names a detached run is removed only when the writer of its
\* child is gone: neither a report that overtook the process, nor a stale
\* observation, nor a late settlement frees the slot of a living Agent.
ReleaseNeedsProof ==
  [][\A l \in ledger.leases :
       (l.proc \in Runs \ frames /\ \A m \in ledger'.leases : m.token # l.token)
       => RuntimeAddress(l) \notin writers']_vars

\* Every settlement comes to an end, also one whose session went away, whose
\* ledger failed for a while or whose binding was refused.
SettlementsFinish ==
  \A i \in Invocations : (\E p \in pending : p.inv = i) ~> ~\E p \in pending : p.inv = i

\* A report that came before the binding is not lost: once a child is over,
\* its slot comes back, in whatever order the start event, the settlement
\* and the report are processed, unless its Host dies or leaves the session
\* (the next reconciliation is then a step of another Host).
EndedIsReleased ==
  \A i \in Invocations : \A k \in Children(i) :
    (AddressIn(i, k) \in terminal)
      ~> \/ \A l \in ledger.leases : RuntimeAddress(l) # AddressIn(i, k)
         \/ dead # {} \/ SessionChanged(i)

\* The comment on observeAsyncStarted: an ambiguous start is attached to every
\* viable resume, and only the invocation whose result names the run consumes
\* it.  (The code of `fail` takes the only start it finds, whosever it is, and
\* aborts that run.)
OwnStartConsumed == \A p \in pending : p.run \in {Launch[p.inv], Runtime[p.inv]}
=============================================================================
