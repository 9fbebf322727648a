----------------------- MODULE AgentCoordinatorProofs -----------------------
(***************************************************************************)
(* Proofs about AgentCoordinator, for any launches, resumes, processes,    *)
(* faults and crashes: every Agent at work holds a lease, a gate opens     *)
(* after the binding, and no lease of a living Agent is given back.        *)
(*                                                                         *)
(* The theorems are about Hosts that satisfy NoStraggler.  Without it      *)
(* WorkIsLeased is false: TLC finds a resume that works without a lease,   *)
(* and a foreground child whose lease is lost in a crash.                  *)
(***************************************************************************)
EXTENDS AgentCoordinator, SessionLedgerProofs

\* The Host never leaves the session; or it waits for no child, and either
\* resumes none or comes back to no session it left.  Otherwise
\*   - a resume called before the Host left may report its start after it came
\*     back, to a map (active) that knows only a later resume: the start is bound
\*     to that one, whose own start is then never bound (observeAsyncStarted);
\*   - a foreground child started while the Host is away is not bound, and a
\*     crash makes its lease look abandoned.
NoStraggler ==
  \/ MaxGeneration = 0
  \/ /\ Foreground = {}
     /\ MaxGeneration <= 1 \/ \A i \in Invocations : Kind[i] = "spawn"

-----------------------------------------------------------------------------
(* The inductive invariant *)

\* Phases of an invocation whose end is not decided.
Underway == {"reserved", "called", "started", "binding", "foreground", "throwing"}

BothResume(i, j) == Kind[i] = "resume" /\ Kind[j] = "resume"

Bound(r, k) == \E l \in ledger.leases : RuntimeAddress(l) = <<r, k>> /\ l.proc = r

\* The gate of r may still open.
MayOpen(r) ==
  /\ runner[r] = "gated"
  /\ \A i \in Invocations : Runtime[i] = r /\ i \in Foreground => phase[i] = "binding"

\* Child k of r works, or will.
Engaged(r, k) ==
  \/ runner[r] = "working" /\ <<r, k>> \notin terminal
  \/ <<r, k>> \in writers /\ (<<r, k>> \in terminal => r \notin frames)

Needed(r, k) == MayOpen(r) \/ Engaged(r, k)

\* Nothing of the invocation's own run works or will.
Void(i) ==
  /\ WritersOf(Runtime[i]) = {}
  /\ \/ runner[Runtime[i]] \in {"none", "gone"}
     \/ i \in Foreground /\ runner[Runtime[i]] = "gated"

HeldAll(i) == \A k \in Children(i) : \E h \in held[i] : h.id = AgentOf(i, k)

\* The run of an invocation, by phase.
RunInv(i) ==
  /\ phase[i] \in {"idle", "observed", "reclaimed", "reserved", "called"} =>
       runner[Runtime[i]] = "none"
  /\ phase[i] \in {"binding", "throwing"} => runner[Runtime[i]] \in {"gated", "gone"}
  /\ phase[i] \in {"binding", "foreground", "throwing"} =>
       i \in Foreground /\ Runtime[i] \in starts[i]
  /\ phase[i] = "started" => i \notin Foreground /\ runner[Runtime[i]] # "none"
  /\ Runtime[i] \in frames => i \in Foreground
  /\ i \in Foreground /\ runner[Runtime[i]] # "none" => Runtime[i] \in frames
  /\ runner[Runtime[i]] \in {"none", "gated", "doomed"} =>
       ~\E w \in writers \cup terminal : w[1] = Runtime[i]

\* What works is bound; so is a frame whose start event was processed.
CoverInv(i) ==
  /\ runner[Runtime[i]] = "working" =>
       \A k \in Children(i) : <<Runtime[i], k>> \in terminal \/ Bound(Runtime[i], k)
  /\ phase[i] = "binding" /\ MayOpen(Runtime[i]) /\ (\A b \in bindings : b.by # i) =>
       \A k \in Children(i) : Bound(Runtime[i], k)

WriterInv ==
  \A w \in writers : Engaged(w[1], w[2]) => Bound(w[1], w[2])

\* Only the runs of invocations are started.
OursInv ==
  /\ \A r \in Runs : runner[r] # "none" => \E j \in Invocations : r = Runtime[j]
  /\ \A r \in frames \cup asyncStarts : runner[r] # "none"

\* The starts an invocation knows: its own, and for a resume those of others.
StartInv(i) ==
  /\ IsFiniteSet(starts[i])
  /\ \A r \in starts[i] :
       /\ runner[r] # "none"
       /\ \E j \in Invocations : r = Runtime[j] /\ (j # i => BothResume(i, j))

LeaseInv == \A l \in ledger.leases :
  /\ l.token < issued
  /\ l.proc \in Runs => l.run = l.proc /\ runner[l.run] # "none"

\* The handles of a reservation.
HeldInv(i) ==
  /\ \A h \in held[i] : h.token < issued /\ \E k \in Children(i) : h.id = AgentOf(i, k)
  /\ \A h, g \in held[i] : h.id = g.id => h = g
  /\ \A j \in Invocations \ {i} : \A h \in held[i], g \in held[j] : h.id = g.id => h.token # g.token
  /\ phase[i] \in {"idle", "observed", "reclaimed"} => held[i] = {}
  /\ phase[i] \in Underway \cup {"returned"} => HeldAll(i)

\* The lease of a child as it was reserved ...
Unbound(i, k, l) ==
  l.proc = host /\ l.run = Launch[i] /\ (Kind[i] = "spawn" => l.index = k)

\* ... and once bound: it moves no more.
BoundTo(i, k, l) ==
  /\ l.proc \in Runs /\ l.index = TargetIndex(i, k)
  /\ Kind[i] = "spawn" => l.run = Runtime[i]
  /\ \A b \in bindings : b.inv = i => b.run = l.run
  /\ \A p \in pending : p.inv = i =>
       (p.bind => p.run = l.run) /\ (l.run # Runtime[i] => p.bind)
  /\ l.run = Runtime[i] /\ phase[i] \in Underway => Runtime[i] \in starts[i]
  /\ l.run # Runtime[i] => phase[i] \in {"returned", "settled"}

HandleInv(i) ==
  \A k \in Children(i) : \A h \in held[i] : \A l \in Current(ledger, h) :
    h.id = AgentOf(i, k) => Unbound(i, k, l) \/ BoundTo(i, k, l)

\* A start event being processed: the run of its own invocation, bound so far.
BindingOK(b) ==
  /\ b.by = b.inv /\ b.run = Runtime[b.inv] /\ HeldAll(b.inv)
  /\ runner[b.run] # "none"
  /\ phase[b.inv] \in {"started", "binding", "foreground", "throwing", "returned", "settled"}
  /\ phase[b.inv] \in Underway => b.run \in starts[b.inv]
  /\ MayOpen(b.run) => \A k \in Children(b.inv) : k < b.next => Bound(b.run, k)

\* A settlement that binds names a run that started: its own, or for a resume
\* that of another resume, and then its own run was never known.
BindsOK(p) ==
  /\ p.start = p.run /\ runner[p.run] # "none"
  /\ \E j \in Invocations : p.run = Runtime[j] /\ (j # p.inv => BothResume(p.inv, j))
  /\ p.run # Runtime[p.inv] => \A b \in bindings : b.inv # p.inv
  /\ MayOpen(p.run) =>
       /\ p.at = "bind" => \A k \in Children(p.inv) : k < p.next => Bound(p.run, k)
       /\ p.at = "acknowledge" => \A k \in Children(p.inv) : Bound(p.run, k)

SettlementOK(p) ==
  /\ phase[p.inv] = "returned"
  /\ \A q \in pending : q.inv = p.inv => q = p
  /\ ~p.owned => ~p.bind /\ runner[Runtime[p.inv]] = "none"
  /\ p.at # "settle" => p.bind
  /\ p.bind => BindsOK(p)
  /\ p.kind = "foreground" =>
       /\ p.inv \in Foreground /\ p.run = Runtime[p.inv] /\ p.run \in frames
       /\ \A k \in p.terminalChildren : <<p.run, k>> \in terminal
  /\ p.kind = "start-error" => ~p.bind /\ Void(p.inv)
  /\ p.at = "rejected" => WritersOf(p.run) = {} /\ runner[p.run] = "gone"

\* A report is about a child that is over; once checked, about one that is gone.
CompletionOK(c) ==
  /\ <<c.run, c.index>> \in terminal
  /\ \E j \in Invocations : c.run = Runtime[j]
  /\ c.at \in {"find", "release"} => <<c.run, c.index>> \notin writers \/ c.run \in frames
  /\ c.at = "release" => \A h \in c.found :
       /\ h.token < issued
       /\ \A l \in Current(ledger, h) : RuntimeAddress(l) = <<c.run, c.index>>

\* Dead for ever: no handle moves such a lease, and nothing revives its run.
Dead(l) ==
  \/ l.proc \in Hosts /\ l.proc # host
  \/ /\ l.proc \in Runs
     /\ \/ NothingAlive(l.proc)
        \/ /\ RuntimeAddress(l) \notin writers
           /\ runner[l.run] = "ended" \/ (RuntimeAddress(l) \in terminal)

ObservationOK(o) ==
  /\ o.token < issued
  /\ \A l \in Current(ledger, o) : Dead(l)

\* An invocation the engine is called for is in the active map.
PresentInv ==
  /\ MaxGeneration = 0 => generation = 0
  /\ generation = MaxGeneration + 1 => generation % 2 = 0
  /\ (Foreground # {} \/ \E j \in Invocations : Kind[j] = "resume") =>
       \A i \in Invocations : phase[i] = "called" /\ BoundHere => i \in active

Binding == [by : Invocations, inv : Invocations, run : Runs, next : Nat]

SettlementType ==
  [inv : Invocations, owned : BOOLEAN, kind : {"start-error", "background-started", "foreground"},
   bind : BOOLEAN, run : Runs, start : Runs \cup {NoRun}, terminalChildren : SUBSET Nat,
   at : {"bind", "acknowledge", "observe", "reclaim", "settle", "rejected"}, next : Nat]

CompletionType ==
  [gen : Nat, run : Runs, index : Nat, at : {"check", "parked", "find", "release"},
   found : SUBSET Lease, candidates : SUBSET Invocations]

Types ==
  /\ TypeOK /\ Sound(ledger) /\ IsFiniteSet(active)
  /\ bindings \subseteq Binding
  /\ pending \subseteq SettlementType
  /\ completions \subseteq CompletionType

Observers == Invocations \cup {Sweeper}

IInv ==
  /\ Types /\ LeaseInv /\ WriterInv /\ OursInv /\ PresentInv
  /\ \A i \in Invocations :
       RunInv(i) /\ CoverInv(i) /\ StartInv(i) /\ HeldInv(i) /\ HandleInv(i)
  /\ \A b \in bindings : BindingOK(b)
  /\ \A p \in pending : SettlementOK(p)
  /\ \A c \in completions : CompletionOK(c)
  /\ \A x \in Observers : \A o \in observed[x] : ObservationOK(o)

-----------------------------------------------------------------------------
(* What ids and handles say *)

LEMMA OwnIds ==
  ASSUME NEW i \in Invocations
  PROVE  /\ Runtime[i] \in Runs /\ Launch[i] \in Runs /\ NoRun \notin Runs
         /\ Kind[i] \in {"spawn", "resume"} /\ Size[i] \in Nat /\ Size[i] >= 1
         /\ Kind[i] = "spawn" => Runtime[i] = Launch[i]
         /\ Kind[i] = "resume" => Size[i] = 1 /\ i \notin Foreground
         /\ \A j \in Invocations :
              /\ Runtime[i] = Runtime[j] => i = j
              /\ Launch[i] = Launch[j] => i = j
              /\ Launch[i] = Runtime[j] => i = j /\ Kind[i] = "spawn"
BY InvocationsAssumption, RunIdsAssumption

LEMMA HostIsNoRun ==
  ASSUME TypeOK
  PROVE  host \notin Runs /\ host \in Procs /\ Runs \subseteq Procs
BY HostsAssumption DEF TypeOK, ProcessesTypeOK

LEMMA ChildIds ==
  ASSUME NEW i \in Invocations, NEW k \in Children(i)
  PROVE  /\ k \in Nat /\ k < Size[i] /\ TargetIndex(i, k) = k
         /\ \A m \in Children(i) : AgentOf(i, k) = AgentOf(i, m) => k = m
         /\ Kind[i] = "resume" => k = 0
<1>1. /\ k \in Nat /\ k < Size[i]
      /\ Kind[i] = "resume" => k = 0 /\ \A m \in Children(i) : m = 0
  BY OwnIds DEF Children
<1>2. TargetIndex(i, k) = k
  BY <1>1 DEF TargetIndex
<1>3. ASSUME NEW m \in Children(i), AgentOf(i, k) = AgentOf(i, m) PROVE k = m
  <2>1. CASE Kind[i] = "spawn"
    BY <1>3, <2>1 DEF AgentOf
  <2>2. CASE Kind[i] = "resume"
    BY <1>1, <2>2
  <2>. QED BY <2>1, <2>2, OwnIds
<1>. QED BY <1>1, <1>2, <1>3

LEMMA HandleFacts ==
  ASSUME IInv, NEW i \in Invocations, NEW k \in Children(i), HeldAll(i)
  PROVE  /\ Handle(i, k) \in held[i] /\ Handle(i, k).id = AgentOf(i, k)
         /\ Handle(i, k) \in Lease
<1>1. \E h \in held[i] : h.id = AgentOf(i, k)
  BY DEF HeldAll
<1>2. Handle(i, k) \in held[i] /\ Handle(i, k).id = AgentOf(i, k)
  BY <1>1 DEF Handle
<1>. QED BY <1>2 DEF IInv, Types, TypeOK

LEMMA CurrentIsOne ==
  ASSUME Sound(ledger), NEW h
  PROVE  \A l, m \in Current(ledger, h) : l = m
BY DEF Sound, Parses, UniqueLeases, Current

\* A lease as an observation, a handle, or a report remembers it.
LEMMA CurrentOfItself ==
  ASSUME Sound(ledger), NEW l \in ledger.leases
  PROVE  /\ Current(ledger, l) = {l}
         /\ l \in Lease
BY DEF Sound, Parses, UniqueLeases, Current, Ledger

-----------------------------------------------------------------------------
(* What one step does, told apart by what it changes.  All steps but a     *)
(* crash make these moves.                                                 *)

RunnerMove(r) ==
  \/ runner'[r] = runner[r]
  \/ /\ runner[r] = "none" /\ runner'[r] \in {"gated", "doomed"}
     /\ \E i \in Invocations :
          /\ Runtime[i] = r /\ phase[i] = "called" /\ phase'[i] \in {"started", "binding"}
          /\ i \in Foreground => runner'[r] = "gated" /\ r \in frames'
  \/ /\ runner[r] = "gated" /\ runner'[r] = "working" /\ MayOpen(r)
     /\ \A i \in Invocations : Runtime[i] = r =>
          /\ \A k \in Children(i) : Bound(r, k)
          /\ i \in Foreground => phase'[i] = "foreground"
  \/ /\ runner[r] # "none" /\ runner'[r] = "gone"
     /\ runner[r] = "ended" => \A w \in writers' : w[1] # r
  \/ runner[r] = "working" /\ runner'[r] = "ended"

ProcessMove ==
  /\ host' = host /\ terminal \subseteq terminal' /\ frames \subseteq frames'
  /\ \A r \in Runs : RunnerMove(r)
  /\ \A w \in writers' \ writers :
       /\ runner[w[1]] = "working" /\ runner'[w[1]] = "working" /\ w \notin terminal'
       /\ \E i \in Invocations : \E k \in Children(i) : w = <<Runtime[i], k>>
  /\ \A w \in terminal' \ terminal : runner[w[1]] \in {"working", "ended", "gone"}
  /\ \A r \in frames' \ frames :
       runner'[r] = "gated" /\ \E i \in Invocations : i \in Foreground /\ r = Runtime[i]

\* The lease m of a handle became l.
Moved(m, l) ==
  /\ l.id = m.id /\ l.token = m.token
  /\ l.proc = l.run /\ l.run \in Runs /\ runner[l.run] # "none"
  /\ m.proc = host \/ m.proc \in Runs
  /\ m.proc \in Runs \/ (\E j \in Invocations : m.run = Runtime[j]) =>
       l.run = m.run /\ l.index = m.index
  /\ \E i \in Invocations : \E k \in Children(i) : \E h \in held[i] :
       h.id = l.id /\ h.token = l.token /\ l.id = AgentOf(i, k) /\ BoundTo(i, k, l)'

LedgerMove ==
  /\ issued <= issued'
  /\ \A l \in ledger'.leases :
       \/ l \in ledger.leases
       \/ issued <= l.token /\ l.token < issued' /\ l.proc = host
       \/ \E m \in ledger.leases : Moved(m, l)
  /\ \A m \in ledger.leases :
       \/ m \in ledger'.leases
       \/ \E l \in ledger'.leases : Moved(m, l)
       \/ m.proc \in Runs => ~Needed(m.run, m.index)

\* An engine call begins to run.
Begins(i) ==
  /\ runner'[Runtime[i]] # "none"
  /\ phase'[i] = "started" => i \notin Foreground
  /\ phase'[i] = "binding" =>
       /\ i \in Foreground /\ runner'[Runtime[i]] = "gated" /\ Runtime[i] \in frames'
       /\ Runtime[i] \in starts'[i] /\ \E b \in bindings' : b.by = i

\* A reservation is granted.
Reserves(i) ==
  /\ phase[i] = "reclaimed" /\ phase'[i] = "reserved" /\ HeldAll(i)'
  /\ \A h \in held'[i] : issued <= h.token /\ h.token < issued' /\
       \E k \in Children(i) : h.id = AgentOf(i, k)
  /\ \A h, g \in held'[i] : h.id = g.id => h = g
  /\ \A k \in Children(i) : \A h \in held'[i] : \A l \in Current(ledger, h)' :
       h.id = AgentOf(i, k) => Unbound(i, k, l)'

HeldMove ==
  /\ \A i \in Invocations : held'[i] = held[i] \/ Reserves(i)
  /\ \A i, j \in Invocations : Reserves(i) /\ Reserves(j) => i = j

Passage(i) ==
  \/ phase[i] = "idle" /\ phase'[i] = "observed"
  \/ phase[i] = "observed" /\ phase'[i] = "reclaimed"
  \/ phase[i] \in {"observed", "reclaimed"} /\ phase'[i] = "refused"
  \/ phase[i] = "reclaimed" /\ phase'[i] = "reserved" /\ Reserves(i)
  \/ phase[i] = "reserved" /\ phase'[i] \in {"called", "returned"}
  \/ phase[i] = "called" /\ phase'[i] \in {"started", "binding"} /\ Begins(i)
  \/ phase[i] = "binding" /\ phase'[i] \in {"foreground", "throwing"}
  \/ phase[i] \in {"called", "started", "foreground", "throwing"} /\ phase'[i] = "returned"
  \/ phase[i] = "returned" /\ phase'[i] = "settled"
  \/ phase[i] = "returned" /\ phase'[i] = "refused" /\ \E p \in pending : p.inv = i /\ ~p.owned

PhaseMove == \A i \in Invocations : phase'[i] = phase[i] \/ Passage(i)

StartsMove ==
  /\ \A i \in Invocations :
       /\ IsFiniteSet(starts'[i])
       /\ \A r \in starts'[i] \ starts[i] :
            /\ runner'[r] # "none"
            /\ \E j \in Invocations : r = Runtime[j] /\ (j # i => BothResume(i, j))
       /\ phase'[i] \in Underway => starts[i] \subseteq starts'[i]
  /\ \A r \in asyncStarts' \ asyncStarts : runner'[r] # "none"

BindingMove ==
  /\ \A b \in bindings' : b \in bindings \/ BindingOK(b)'
  /\ \A b \in bindings' :
       \/ \E c \in bindings : c.inv = b.inv /\ c.run = b.run
       \/ phase[b.inv] = "called" /\ b.run = Runtime[b.inv]
  /\ \A i \in Invocations :
       phase[i] = "binding" /\ phase'[i] = "binding" /\ (\A b \in bindings' : b.by # i) =>
         \/ \A b \in bindings : b.by # i
         \/ MayOpen(Runtime[i]) => \A k \in Children(i) : Bound(Runtime[i], k)

PendingMove ==
  /\ \A p \in pending' : p \in pending \/ SettlementOK(p)'
  /\ \A p \in pending \cap pending' :
       phase'[p.inv] = phase[p.inv] /\ \A q \in pending' : q.inv = p.inv => q = p
  /\ \A p \in pending' :
       \/ \E q \in pending : q.inv = p.inv /\ q.bind = p.bind /\ q.run = p.run
       \/ /\ phase[p.inv] \in Underway
          /\ p.bind /\ Runtime[p.inv] \in starts[p.inv] => p.run = Runtime[p.inv]

CompletionMove == \A c \in completions' : CompletionOK(c)

ObservedMove == \A x \in Observers : \A o \in observed'[x] : ObservationOK(o)

Moves ==
  /\ ProcessMove /\ LedgerMove /\ HeldMove /\ PhaseMove /\ StartsMove
  /\ BindingMove /\ PendingMove /\ CompletionMove /\ ObservedMove

-----------------------------------------------------------------------------
(* What the moves preserve *)

LEMMA StartedStays ==
  ASSUME ProcessMove, NEW r \in Runs, runner[r] # "none"
  PROVE  runner'[r] # "none"
BY DEF ProcessMove, RunnerMove

LEMMA GateMayOpen ==
  ASSUME IInv, ProcessMove, PhaseMove, NEW r \in Runs, runner[r] # "none", MayOpen(r)'
  PROVE  MayOpen(r)
<1>1. runner'[r] = "gated"
  BY DEF MayOpen
<1>2. runner[r] = "gated"
  BY <1>1 DEF ProcessMove, RunnerMove
<1>3. ASSUME NEW i \in Invocations, Runtime[i] = r, i \in Foreground
      PROVE  phase[i] = "binding"
  <2>1. phase'[i] = "binding"
    BY <1>3 DEF MayOpen
  <2>2. phase[i] = "binding" \/ phase[i] = "called"
    BY <2>1 DEF PhaseMove, Passage
  <2>3. phase[i] # "called"
    BY <1>2, <1>3 DEF IInv, RunInv
  <2>. QED BY <2>2, <2>3
<1>. QED BY <1>2, <1>3 DEF MayOpen

LEMMA NeededBefore ==
  ASSUME IInv, ProcessMove, PhaseMove, NEW r \in Runs, NEW k, runner[r] # "none",
         Needed(r, k)'
  PROVE  Needed(r, k)
<1>1. CASE MayOpen(r)'
  BY <1>1, GateMayOpen DEF Needed
<1>2. CASE runner'[r] = "working" /\ <<r, k>> \notin terminal'
  <2>1. <<r, k>> \notin terminal /\ (runner[r] = "working" \/ MayOpen(r))
    BY <1>2 DEF ProcessMove, RunnerMove
  <2>. QED BY <2>1 DEF Needed, Engaged
<1>3. CASE <<r, k>> \in writers' /\ (<<r, k>> \in terminal' => r \notin frames')
  <2>1. <<r, k>> \in terminal => r \notin frames
    BY <1>3 DEF ProcessMove
  <2>2. CASE <<r, k>> \in writers
    BY <2>1, <2>2 DEF Needed, Engaged
  <2>3. CASE <<r, k>> \notin writers
    <3>1. runner[<<r, k>>[1]] = "working" /\ <<r, k>> \notin terminal
      BY <1>3, <2>3 DEF ProcessMove
    <3>. QED BY <3>1 DEF Needed, Engaged
  <2>. QED BY <2>2, <2>3
<1>. QED BY <1>1, <1>2, <1>3 DEF Needed, Engaged

LEMMA BoundKept ==
  ASSUME IInv, LedgerMove, NEW r \in Runs, NEW k, Needed(r, k), Bound(r, k)
  PROVE  Bound(r, k)'
<1>1. PICK m \in ledger.leases : RuntimeAddress(m) = <<r, k>> /\ m.proc = r
  BY DEF Bound
<1>2. m.run = r /\ m.index = k
  BY <1>1 DEF RuntimeAddress
<1>3. CASE m \in ledger'.leases
  BY <1>1, <1>3 DEF Bound
<1>4. CASE \E l \in ledger'.leases : Moved(m, l)
  <2>1. PICK l \in ledger'.leases : Moved(m, l)
    BY <1>4
  <2>2. l.run = r /\ l.index = k /\ l.proc = r
    BY <1>1, <1>2, <2>1 DEF Moved
  <2>. QED BY <2>2 DEF Bound, RuntimeAddress
<1>. QED BY <1>1, <1>2, <1>3, <1>4 DEF LedgerMove

LEMMA NeededStaysBound ==
  ASSUME IInv, ProcessMove, PhaseMove, LedgerMove, NEW r \in Runs, NEW k, runner[r] # "none",
         Needed(r, k)', Bound(r, k)
  PROVE  Bound(r, k)'
BY NeededBefore, BoundKept

LEMMA RunKept ==
  ASSUME IInv, ProcessMove, PhaseMove, StartsMove, NEW i \in Invocations
  PROVE  RunInv(i)'
<1> DEFINE R == Runtime[i]
<1>0. /\ R \in Runs /\ RunInv(i)
      /\ \A j \in Invocations : Runtime[j] = R => j = i
  BY OwnIds DEF IInv
<1>1. RunnerMove(R) /\ (phase'[i] = phase[i] \/ Passage(i))
  BY <1>0 DEF ProcessMove, PhaseMove
<1>2. ASSUME phase'[i] \in {"idle", "observed", "reclaimed", "reserved", "called"}
      PROVE  runner'[R] = "none"
  <2>1. phase[i] \in {"idle", "observed", "reclaimed", "reserved", "called"}
    BY <1>1, <1>2 DEF Passage
  <2>2. runner[R] = "none"
    BY <1>0, <2>1 DEF RunInv
  <2>3. ~\E j \in Invocations :
          Runtime[j] = R /\ phase[j] = "called" /\ phase'[j] \in {"started", "binding"}
    BY <1>0, <1>2
  <2>. QED BY <1>1, <2>2, <2>3 DEF RunnerMove
<1>3. ASSUME phase'[i] \in {"binding", "throwing"} PROVE runner'[R] \in {"gated", "gone"}
  <2>1. CASE phase[i] = "called"
    BY <1>1, <1>3, <2>1 DEF Passage, Begins
  <2>2. CASE phase[i] # "called"
    <3>1. phase[i] \in {"binding", "throwing"}
      BY <1>1, <1>3, <2>2 DEF Passage
    <3>2. runner[R] \in {"gated", "gone"} /\ i \in Foreground
      BY <1>0, <3>1 DEF RunInv
    <3>. QED BY <1>0, <1>1, <1>3, <3>2 DEF RunnerMove
  <2>. QED BY <2>1, <2>2
<1>4. ASSUME phase'[i] \in {"binding", "foreground", "throwing"}
      PROVE  i \in Foreground /\ R \in starts'[i]
  <2>1. CASE phase[i] = "called"
    BY <1>1, <1>4, <2>1 DEF Passage, Begins
  <2>2. CASE phase[i] # "called"
    <3>1. phase[i] \in {"binding", "foreground", "throwing"}
      BY <1>1, <1>4, <2>2 DEF Passage
    <3>2. i \in Foreground /\ R \in starts[i]
      BY <1>0, <3>1 DEF RunInv
    <3>3. starts[i] \subseteq starts'[i]
      BY <1>4 DEF StartsMove, Underway
    <3>. QED BY <3>2, <3>3
  <2>. QED BY <2>1, <2>2
<1>5. ASSUME phase'[i] = "started" PROVE i \notin Foreground /\ runner'[R] # "none"
  <2>1. CASE phase[i] = "called"
    BY <1>1, <1>5, <2>1 DEF Passage, Begins
  <2>2. CASE phase[i] # "called"
    <3>1. phase[i] = "started"
      BY <1>1, <1>5, <2>2 DEF Passage
    <3>. QED BY <1>0, <3>1, StartedStays DEF RunInv
  <2>. QED BY <2>1, <2>2
<1>6. R \in frames' => i \in Foreground
  BY <1>0 DEF ProcessMove, RunInv
<1>7. i \in Foreground /\ runner'[R] # "none" => R \in frames'
  BY <1>0, <1>1 DEF ProcessMove, RunInv, RunnerMove
<1>8. ASSUME runner'[R] \in {"none", "gated", "doomed"}, NEW w \in writers' \cup terminal', w[1] = R
      PROVE  FALSE
  <2>1. runner[R] \in {"none", "gated", "doomed"}
    BY <1>1, <1>8 DEF RunnerMove
  <2>2. w \notin writers \cup terminal
    BY <1>0, <1>8, <2>1 DEF RunInv
  <2>. QED BY <1>8, <2>1, <2>2 DEF ProcessMove
<1>. HIDE DEF R
<1>. QED BY <1>2, <1>3, <1>4, <1>5, <1>6, <1>7, <1>8 DEF RunInv, R

LEMMA OursKept ==
  ASSUME IInv, ProcessMove, StartsMove
  PROVE  OursInv'
<1>1. ASSUME NEW r \in Runs, runner'[r] # "none" PROVE \E j \in Invocations : r = Runtime[j]
  <2>1. runner[r] # "none" \/ \E j \in Invocations : Runtime[j] = r
    BY <1>1 DEF ProcessMove, RunnerMove
  <2>. QED BY <2>1 DEF IInv, OursInv
<1>2. ASSUME NEW r \in frames' \cup asyncStarts' PROVE runner'[r] # "none"
  <2>1. CASE r \in frames \cup asyncStarts
    <3>1. r \in Runs /\ runner[r] # "none"
      BY <2>1 DEF IInv, OursInv, Types, TypeOK, ProcessesTypeOK
    <3>. QED BY <3>1, StartedStays
  <2>2. CASE r \notin frames \cup asyncStarts
    BY <1>2, <2>2 DEF ProcessMove, StartsMove
  <2>. QED BY <2>1, <2>2
<1>. QED BY <1>1, <1>2 DEF OursInv

LEMMA StartKept ==
  ASSUME IInv, ProcessMove, StartsMove, NEW i \in Invocations
  PROVE  StartInv(i)'
<1>1. ASSUME NEW r \in starts'[i]
      PROVE  runner'[r] # "none" /\ \E j \in Invocations : r = Runtime[j] /\ (j # i => BothResume(i, j))
  <2>1. CASE r \in starts[i]
    <3>1. r \in Runs /\ runner[r] # "none"
          /\ \E j \in Invocations : r = Runtime[j] /\ (j # i => BothResume(i, j))
      BY <2>1 DEF IInv, StartInv, Types, TypeOK
    <3>. QED BY <3>1, StartedStays
  <2>2. CASE r \notin starts[i]
    BY <1>1, <2>2 DEF StartsMove
  <2>. QED BY <2>1, <2>2
<1>. QED BY <1>1 DEF StartsMove, StartInv

LEMMA WriterKept ==
  ASSUME IInv, ProcessMove, PhaseMove, LedgerMove
  PROVE  WriterInv'
<1>. SUFFICES ASSUME NEW w \in writers', Engaged(w[1], w[2])' PROVE Bound(w[1], w[2])'
  BY DEF WriterInv
<1> DEFINE r == w[1]
           k == w[2]
<1>1. r \in Runs /\ runner[r] # "none" /\ w = <<r, k>> /\ Bound(r, k)
  <2>1. CASE w \in writers
    <3>1. w \in AgentId
      BY <2>1 DEF IInv, Types, TypeOK, ProcessesTypeOK
    <3>2. r \in Runs /\ w = <<r, k>>
      BY <3>1 DEF AgentId
    <3>3. Engaged(r, k)
      <4>1. w \in terminal => r \notin frames
        BY <3>2 DEF Engaged, ProcessMove
      <4>. QED BY <2>1, <3>2, <4>1 DEF Engaged
    <3>4. Bound(r, k)
      BY <2>1, <3>3 DEF IInv, WriterInv
    <3>5. PICK l \in ledger.leases : RuntimeAddress(l) = <<r, k>> /\ l.proc = r
      BY <3>4 DEF Bound
    <3>6. l.run = r /\ runner[l.run] # "none"
      BY <3>2, <3>5 DEF IInv, LeaseInv
    <3>. QED BY <3>2, <3>4, <3>6
  <2>2. CASE w \notin writers
    <3>0. PICK i \in Invocations : \E m \in Children(i) : w = <<Runtime[i], m>>
      BY <2>2 DEF ProcessMove
    <3>1. PICK m \in Children(i) : w = <<Runtime[i], m>>
      BY <3>0
    <3>2. r = Runtime[i] /\ k = m /\ runner[r] = "working" /\ w \notin terminal
      BY <2>2, <3>1 DEF ProcessMove
    <3>3. Bound(r, k)
      BY <3>1, <3>2 DEF IInv, CoverInv
    <3>. QED BY <3>1, <3>2, <3>3, OwnIds
  <2>. QED BY <2>1, <2>2
<1>2. Needed(r, k)'
  BY DEF Needed
<1>. HIDE DEF r, k
<1>3. Bound(r, k)'
  BY <1>1, <1>2, NeededStaysBound
<1>. QED BY <1>3 DEF r, k

LEMMA CoverKept ==
  ASSUME IInv, ProcessMove, PhaseMove, LedgerMove, BindingMove, NEW i \in Invocations
  PROVE  CoverInv(i)'
<1> DEFINE R == Runtime[i]
<1>0. R \in Runs /\ RunnerMove(R) /\ CoverInv(i)
  BY OwnIds DEF IInv, ProcessMove
<1>1. ASSUME runner'[R] = "working", NEW k \in Children(i), <<R, k>> \notin terminal'
      PROVE  Bound(R, k)'
  <2>1. runner[R] # "none" /\ Bound(R, k)
    <3>1. CASE runner[R] = "working"
      BY <1>0, <1>1, <3>1 DEF ProcessMove, CoverInv
    <3>2. CASE runner[R] # "working"
      BY <1>0, <1>1, <3>2 DEF RunnerMove
    <3>. QED BY <3>1, <3>2
  <2>2. Needed(R, k)'
    BY <1>1 DEF Needed, Engaged
  <2>. QED BY <1>0, <2>1, <2>2, NeededStaysBound
<1>2. ASSUME phase'[i] = "binding", MayOpen(R)', \A b \in bindings' : b.by # i,
             NEW k \in Children(i)
      PROVE  Bound(R, k)'
  <2>1. phase[i] = "binding"
    <3>1. phase[i] = "called" => Begins(i)
      BY <1>2 DEF PhaseMove, Passage
    <3>2. phase[i] # "called"
      BY <1>2, <3>1 DEF Begins
    <3>. QED BY <1>2, <3>2 DEF PhaseMove, Passage
  <2>2. runner[R] # "none"
    BY <2>1 DEF IInv, RunInv
  <2>3. MayOpen(R)
    BY <1>0, <1>2, <2>2, GateMayOpen
  <2>4. Bound(R, k)
    BY <1>0, <1>2, <2>1, <2>3 DEF BindingMove, CoverInv
  <2>5. Needed(R, k)'
    BY <1>2 DEF Needed
  <2>. QED BY <1>0, <2>2, <2>4, <2>5, NeededStaysBound
<1>. HIDE DEF R
<1>. QED BY <1>1, <1>2 DEF CoverInv, R

LEMMA LeaseKept ==
  ASSUME IInv, ProcessMove, LedgerMove, issued \in Nat, issued' \in Nat,
         \A l \in ledger'.leases : l.token \in Nat
  PROVE  LeaseInv'
<1>. SUFFICES ASSUME NEW l \in ledger'.leases
              PROVE  l.token < issued' /\ (l.proc \in Runs => l.run = l.proc /\ runner'[l.run] # "none")
  BY DEF LeaseInv
<1>1. CASE l \in ledger.leases
  <2>1. l.token < issued /\ (l.proc \in Runs => l.run = l.proc /\ runner[l.run] # "none")
    BY <1>1 DEF IInv, LeaseInv
  <2>. QED BY <2>1, StartedStays DEF LedgerMove
<1>2. CASE issued <= l.token /\ l.token < issued' /\ l.proc = host
  BY <1>2, HostIsNoRun DEF IInv, Types
<1>3. CASE \E m \in ledger.leases : Moved(m, l)
  <2>1. PICK m \in ledger.leases : Moved(m, l)
    BY <1>3
  <2>2. m.token < issued
    BY DEF IInv, LeaseInv
  <2>3. l.token = m.token /\ l.proc = l.run /\ l.run \in Runs /\ runner[l.run] # "none"
    BY <2>1 DEF Moved
  <2>. QED BY <2>2, <2>3, StartedStays DEF LedgerMove
<1>. QED BY <1>1, <1>2, <1>3 DEF LedgerMove

LEMMA HeldKept ==
  ASSUME IInv, LedgerMove, HeldMove, PhaseMove, issued \in Nat, issued' \in Nat,
         NEW i \in Invocations, \A j \in Invocations : \A h \in held'[j] : h.token \in Nat
  PROVE  HeldInv(i)'
<1>0. HeldInv(i) /\ (phase'[i] = phase[i] \/ Passage(i))
  BY DEF IInv, PhaseMove
<1>1. ASSUME NEW h \in held'[i]
      PROVE  h.token < issued' /\ \E k \in Children(i) : h.id = AgentOf(i, k)
  <2>1. CASE Reserves(i)
    BY <1>1, <2>1 DEF Reserves
  <2>2. CASE held'[i] = held[i]
    <3>1. h.token < issued /\ \E k \in Children(i) : h.id = AgentOf(i, k)
      BY <1>0, <1>1, <2>2 DEF HeldInv
    <3>. QED BY <1>1, <3>1 DEF LedgerMove
  <2>. QED BY <2>1, <2>2 DEF HeldMove
<1>2. \A h, g \in held'[i] : h.id = g.id => h = g
  BY <1>0 DEF HeldMove, Reserves, HeldInv
<1>3. ASSUME NEW j \in Invocations \ {i}, NEW h \in held'[i], NEW g \in held'[j], h.id = g.id
      PROVE  h.token # g.token
  <2>1. \A x \in Invocations : held'[x] = held[x] => \A f \in held'[x] : f.token < issued
    BY DEF IInv, HeldInv
  <2>2. \A x \in Invocations : Reserves(x) => \A f \in held'[x] : issued <= f.token
    BY DEF Reserves
  <2>3. CASE held'[i] = held[i] /\ held'[j] = held[j]
    BY <1>0, <1>3, <2>3 DEF HeldInv
  <2>4. CASE ~(held'[i] = held[i] /\ held'[j] = held[j])
    <3>1. \/ Reserves(i) /\ held'[j] = held[j]
          \/ Reserves(j) /\ held'[i] = held[i]
      BY <2>4 DEF HeldMove
    <3>2. h.token \in Nat /\ g.token \in Nat
      OBVIOUS
    <3>. QED BY <2>1, <2>2, <3>1, <3>2
  <2>. QED BY <2>3, <2>4
<1>4. phase'[i] \in {"idle", "observed", "reclaimed"} => held'[i] = {}
  BY <1>0 DEF HeldMove, HeldInv, Passage, Reserves
<1>5. ASSUME phase'[i] \in Underway \cup {"returned"} PROVE HeldAll(i)'
  <2>1. CASE Reserves(i)
    BY <2>1 DEF Reserves
  <2>2. CASE ~Reserves(i)
    <3>1. held'[i] = held[i] /\ phase[i] \in Underway \cup {"returned"}
      BY <1>0, <1>5, <2>2 DEF HeldMove, Passage, Underway
    <3>. QED BY <1>0, <3>1 DEF HeldInv, HeldAll
  <2>. QED BY <2>1, <2>2
<1>. QED BY <1>1, <1>2, <1>3, <1>4, <1>5 DEF HeldInv

LEMMA BoundToKept ==
  ASSUME IInv, PhaseMove, StartsMove, BindingMove, PendingMove,
         NEW i \in Invocations, NEW k \in Children(i), NEW l, held[i] # {}, BoundTo(i, k, l)
  PROVE  BoundTo(i, k, l)'
<1>0. /\ phase'[i] = phase[i] \/ Passage(i)
      /\ phase[i] \notin {"idle", "observed", "reclaimed"}
  BY DEF IInv, HeldInv, PhaseMove
<1>1. phase[i] \in Underway => l.run = Runtime[i] /\ Runtime[i] \in starts[i]
  BY DEF BoundTo, Underway
<1>2. ASSUME NEW b \in bindings', b.inv = i PROVE b.run = l.run
  <2>1. CASE \E c \in bindings : c.inv = b.inv /\ c.run = b.run
    BY <1>2, <2>1 DEF BoundTo
  <2>2. CASE phase[b.inv] = "called" /\ b.run = Runtime[b.inv]
    BY <1>1, <1>2, <2>2 DEF Underway
  <2>. QED BY <2>1, <2>2 DEF BindingMove
<1>3. ASSUME NEW p \in pending', p.inv = i
      PROVE  (p.bind => p.run = l.run) /\ (l.run # Runtime[i] => p.bind)
  <2>1. CASE \E q \in pending : q.inv = p.inv /\ q.bind = p.bind /\ q.run = p.run
    BY <1>3, <2>1 DEF BoundTo
  <2>2. CASE /\ phase[p.inv] \in Underway
             /\ p.bind /\ Runtime[p.inv] \in starts[p.inv] => p.run = Runtime[p.inv]
    BY <1>1, <1>3, <2>2
  <2>. QED BY <2>1, <2>2 DEF PendingMove
<1>4. ASSUME l.run = Runtime[i], phase'[i] \in Underway PROVE Runtime[i] \in starts'[i]
  <2>1. phase[i] \in Underway
    BY <1>0, <1>4 DEF Passage, Underway
  <2>. QED BY <1>1, <1>4, <2>1 DEF StartsMove
<1>5. ASSUME l.run # Runtime[i] PROVE phase'[i] \in {"returned", "settled"}
  <2>1. phase[i] \in {"returned", "settled"}
    BY <1>5 DEF BoundTo
  <2>2. \A p \in pending : p.inv = i => p.owned
    BY <1>5 DEF BoundTo, IInv, SettlementOK
  <2>. QED BY <1>0, <2>1, <2>2 DEF Passage
<1>. QED BY <1>2, <1>3, <1>4, <1>5 DEF BoundTo

LEMMA HandleKept ==
  ASSUME IInv, ProcessMove, LedgerMove, HeldMove, PhaseMove, StartsMove, BindingMove, PendingMove,
         issued \in Nat, \A l \in ledger'.leases : l.token \in Nat,
         NEW i \in Invocations
  PROVE  HandleInv(i)'
<1>. SUFFICES ASSUME NEW k \in Children(i), NEW h \in held'[i], NEW l \in Current(ledger, h)',
                     h.id = AgentOf(i, k)
              PROVE  Unbound(i, k, l)' \/ BoundTo(i, k, l)'
  BY DEF HandleInv
<1>0. l \in ledger'.leases /\ l.id = h.id /\ l.token = h.token
  BY DEF Current
<1>1. CASE Reserves(i)
  BY <1>1 DEF Reserves
<1>2. CASE held'[i] = held[i]
  <2>0. h \in held[i] /\ h.token < issued
    BY <1>2 DEF IInv, HeldInv
  <2>1. CASE l \in ledger.leases
    <3>1. l \in Current(ledger, h)
      BY <1>0, <2>1 DEF Current
    <3>2. Unbound(i, k, l) \/ BoundTo(i, k, l)
      BY <2>0, <3>1 DEF IInv, HandleInv
    <3>3. Unbound(i, k, l) => Unbound(i, k, l)'
      BY DEF Unbound, ProcessMove
    <3>4. BoundTo(i, k, l) => BoundTo(i, k, l)'
      BY <2>0, BoundToKept
    <3>. QED BY <3>2, <3>3, <3>4
  <2>2. CASE issued <= l.token
    BY <1>0, <2>0, <2>2
  <2>3. CASE \E m \in ledger.leases : Moved(m, l)
    <3>1. PICK m \in ledger.leases : Moved(m, l)
      BY <2>3
    <3>2. PICK j \in Invocations : \E n \in Children(j) : \E g \in held[j] :
            g.id = l.id /\ g.token = l.token /\ l.id = AgentOf(j, n) /\ BoundTo(j, n, l)'
      BY <3>1 DEF Moved
    <3>3. PICK n \in Children(j) : \E g \in held[j] :
            g.id = l.id /\ g.token = l.token /\ l.id = AgentOf(j, n) /\ BoundTo(j, n, l)'
      BY <3>2
    <3>4. PICK g \in held[j] : g.id = l.id /\ g.token = l.token
      BY <3>3
    <3>5. j = i
      BY <1>0, <2>0, <3>4 DEF IInv, HeldInv
    <3>6. n = k
      BY <1>0, <3>3, <3>5, ChildIds
    <3>. QED BY <3>3, <3>5, <3>6
  <2>. QED BY <1>0, <2>1, <2>2, <2>3 DEF LedgerMove
<1>. QED BY <1>1, <1>2 DEF HeldMove

LEMMA BindingKept ==
  ASSUME IInv, ProcessMove, LedgerMove, HeldMove, PhaseMove, StartsMove, BindingMove,
         NEW b \in bindings'
  PROVE  BindingOK(b)'
<1>. SUFFICES ASSUME b \in bindings PROVE BindingOK(b)'
  BY DEF BindingMove
<1> DEFINE i == b.inv
<1>0. BindingOK(b) /\ i \in Invocations /\ b.run \in Runs
  BY DEF IInv, Types, Binding
<1>1. phase'[i] = phase[i] \/ Passage(i)
  BY <1>0 DEF PhaseMove
<1>2. HeldAll(i)'
  <2>1. held'[i] = held[i]
    BY <1>0 DEF HeldMove, Reserves, BindingOK
  <2>. QED BY <1>0, <2>1 DEF BindingOK, HeldAll
<1>3. runner[b.run] # "none" /\ runner'[b.run] # "none"
  BY <1>0, StartedStays DEF BindingOK
<1>4. phase'[i] \in {"started", "binding", "foreground", "throwing", "returned", "settled"}
  <2>1. \A p \in pending : p.inv = i => p.owned
    BY <1>0, <1>3 DEF IInv, SettlementOK, BindingOK
  <2>. QED BY <1>0, <1>1, <2>1 DEF BindingOK, Passage
<1>5. phase'[i] \in Underway => b.run \in starts'[i]
  <2>1. phase'[i] \in Underway => phase[i] \in Underway
    BY <1>0, <1>1 DEF BindingOK, Passage, Underway
  <2>. QED BY <1>0, <2>1 DEF BindingOK, StartsMove
<1>6. ASSUME MayOpen(b.run)', NEW k \in Children(i), k < b.next PROVE Bound(b.run, k)'
  <2>1. MayOpen(b.run)
    BY <1>0, <1>3, <1>6, GateMayOpen
  <2>2. Bound(b.run, k)
    BY <1>0, <1>6, <2>1 DEF BindingOK
  <2>3. Needed(b.run, k)'
    BY <1>6 DEF Needed
  <2>. QED BY <1>0, <1>3, <2>2, <2>3, NeededStaysBound
<1>. QED BY <1>0, <1>2, <1>3, <1>4, <1>5, <1>6 DEF BindingOK

LEMMA VoidKept ==
  ASSUME IInv, ProcessMove, PhaseMove, NEW i \in Invocations, Void(i),
         phase[i] \in {"returned", "settled"}
  PROVE  Void(i)'
<1> DEFINE R == Runtime[i]
<1>0. R \in Runs /\ RunnerMove(R) /\ \A j \in Invocations : Runtime[j] = R => j = i
  BY OwnIds DEF ProcessMove
<1>1. WritersOf(R)' = {}
  <2>1. ASSUME NEW w \in writers', w[1] = R PROVE FALSE
    <3>1. runner[R] # "working"
      BY DEF Void
    <3>2. w \in writers
      BY <2>1, <3>1 DEF ProcessMove
    <3>. QED BY <2>1, <3>2 DEF Void, WritersOf
  <2>. QED BY <2>1 DEF WritersOf
<1>2. runner'[R] \in {"none", "gone"} \/ (i \in Foreground /\ runner'[R] = "gated")
  <2>1. ~MayOpen(R) \/ i \notin Foreground
    BY DEF MayOpen
  <2>2. runner[R] = "none" => runner'[R] = "none"
    BY <1>0 DEF RunnerMove
  <2>3. runner[R] = "gone" => runner'[R] = "gone"
    BY <1>0 DEF RunnerMove
  <2>4. i \in Foreground /\ runner[R] = "gated" => runner'[R] \in {"gated", "gone"}
    BY <1>0, <2>1 DEF RunnerMove
  <2>. QED BY <2>2, <2>3, <2>4 DEF Void
<1>. QED BY <1>1, <1>2 DEF Void

LEMMA SettlementKept ==
  ASSUME IInv, ProcessMove, LedgerMove, PhaseMove, BindingMove, PendingMove,
         NEW p \in pending'
  PROVE  SettlementOK(p)'
<1>. SUFFICES ASSUME p \in pending PROVE SettlementOK(p)'
  BY DEF PendingMove
<1> DEFINE i == p.inv
<1>0. SettlementOK(p) /\ i \in Invocations /\ p.run \in Runs
  BY DEF IInv, Types, SettlementType
<1>1. /\ phase'[i] = "returned" /\ phase[i] = "returned"
      /\ \A q \in pending' : q.inv = i => q = p
  BY <1>0 DEF PendingMove, SettlementOK
<1>2. ~p.owned => runner'[Runtime[i]] = "none"
  <2>1. RunnerMove(Runtime[i]) /\ \A j \in Invocations : Runtime[j] = Runtime[i] => j = i
    BY <1>0, OwnIds DEF ProcessMove
  <2>. QED BY <1>0, <1>1, <2>1 DEF SettlementOK, RunnerMove
<1>3. ASSUME p.bind PROVE BindsOK(p)'
  <2>1. BindsOK(p) /\ runner[p.run] # "none" /\ runner'[p.run] # "none"
    BY <1>0, <1>3, StartedStays DEF SettlementOK, BindsOK
  <2>2. p.run # Runtime[i] => \A b \in bindings' : b.inv # i
    BY <1>1, <2>1 DEF BindsOK, BindingMove
  <2>3. ASSUME MayOpen(p.run)', NEW k, Bound(p.run, k) PROVE Bound(p.run, k)'
    <3>1. Needed(p.run, k)'
      BY <2>3 DEF Needed
    <3>. QED BY <1>0, <2>1, <2>3, <3>1, NeededStaysBound
  <2>4. MayOpen(p.run)' => MayOpen(p.run)
    BY <1>0, <2>1, GateMayOpen
  <2>. QED BY <2>1, <2>2, <2>3, <2>4 DEF BindsOK
<1>4. p.kind = "start-error" => Void(i)'
  BY <1>0, <1>1, VoidKept DEF SettlementOK
<1>5. ASSUME p.at = "rejected" PROVE WritersOf(p.run)' = {} /\ runner'[p.run] = "gone"
  <2>1. WritersOf(p.run) = {} /\ runner[p.run] = "gone"
    BY <1>0, <1>5 DEF SettlementOK
  <2>2. \A w \in writers' : w[1] # p.run
    BY <2>1 DEF ProcessMove, WritersOf
  <2>3. runner'[p.run] = "gone"
    BY <1>0, <2>1 DEF ProcessMove, RunnerMove
  <2>. QED BY <2>2, <2>3 DEF WritersOf
<1>6. p.kind = "foreground" =>
        /\ i \in Foreground /\ p.run = Runtime[i] /\ p.run \in frames'
        /\ \A k \in p.terminalChildren : <<p.run, k>> \in terminal'
  BY <1>0 DEF SettlementOK, ProcessMove
<1>. QED BY <1>0, <1>1, <1>2, <1>3, <1>4, <1>5, <1>6 DEF SettlementOK

LEMMA CompletionKept ==
  ASSUME IInv, ProcessMove, LedgerMove, issued \in Nat, issued' \in Nat, NEW c, CompletionOK(c),
         \A h \in c.found : h.token \in Nat, \A l \in ledger'.leases : l.token \in Nat
  PROVE  CompletionOK(c)'
<1> DEFINE w == <<c.run, c.index>>
<1>1. w \in terminal' /\ \E j \in Invocations : c.run = Runtime[j]
  BY DEF CompletionOK, ProcessMove
<1>2. c.at \in {"find", "release"} => w \notin writers' \/ c.run \in frames'
  <2>1. w \in writers' => w \in writers
    BY <1>1 DEF ProcessMove
  <2>. QED BY <2>1 DEF CompletionOK, ProcessMove
<1>3. ASSUME c.at = "release", NEW h \in c.found
      PROVE  h.token < issued' /\ \A l \in Current(ledger, h)' : RuntimeAddress(l) = w
  <2>1. h.token < issued /\ \A l \in Current(ledger, h) : RuntimeAddress(l) = w
    BY <1>3 DEF CompletionOK
  <2>2. h.token < issued'
    BY <1>3, <2>1 DEF LedgerMove
  <2>3. ASSUME NEW l \in Current(ledger, h)' PROVE RuntimeAddress(l) = w
    <3>1. l \in ledger'.leases /\ l.id = h.id /\ l.token = h.token
      BY <2>3 DEF Current
    <3>2. CASE l \in ledger.leases
      BY <2>1, <3>1, <3>2 DEF Current
    <3>3. CASE issued <= l.token
      BY <1>3, <2>1, <3>1, <3>3
    <3>4. CASE \E m \in ledger.leases : Moved(m, l)
      <4>1. PICK m \in ledger.leases : Moved(m, l)
        BY <3>4
      <4>2. m \in Current(ledger, h)
        BY <3>1, <4>1 DEF Moved, Current
      <4>3. m.run = c.run /\ m.index = c.index
        BY <2>1, <4>2 DEF RuntimeAddress
      <4>4. l.run = m.run /\ l.index = m.index
        BY <1>1, <4>1, <4>3 DEF Moved
      <4>. QED BY <4>3, <4>4 DEF RuntimeAddress
    <3>. QED BY <3>1, <3>2, <3>3, <3>4 DEF LedgerMove
  <2>. QED BY <2>2, <2>3
<1>. HIDE DEF w
<1>. QED BY <1>1, <1>2, <1>3 DEF CompletionOK, w

LEMMA DeadStays ==
  ASSUME IInv, ProcessMove, NEW l, Dead(l), l.run \in Runs,
         l.proc \in Runs => l.run = l.proc /\ runner[l.run] # "none"
  PROVE  Dead(l)'
<1>1. CASE l.proc \in Hosts /\ l.proc # host
  BY <1>1 DEF Dead, ProcessMove
<1>2. CASE l.proc \in Runs /\ NothingAlive(l.proc)
  <2>1. l.run = l.proc /\ runner[l.proc] = "gone" /\ WritersOf(l.proc) = {}
    BY <1>2 DEF NothingAlive
  <2>2. runner'[l.proc] = "gone"
    BY <1>2, <2>1 DEF ProcessMove, RunnerMove
  <2>3. \A w \in writers' : w[1] # l.proc
    BY <2>1 DEF ProcessMove, WritersOf
  <2>. QED BY <1>2, <2>2, <2>3 DEF Dead, NothingAlive, WritersOf
<1>3. CASE /\ l.proc \in Runs /\ RuntimeAddress(l) \notin writers
           /\ runner[l.run] = "ended" \/ RuntimeAddress(l) \in terminal
  <2>0. l.run = l.proc
    BY <1>3
  <2>1. RuntimeAddress(l) \notin writers'
    <3>1. RuntimeAddress(l)[1] = l.run
      BY DEF RuntimeAddress
    <3>2. ASSUME RuntimeAddress(l) \in writers' PROVE FALSE
      <4>1. runner[l.run] = "working" /\ RuntimeAddress(l) \notin terminal'
        BY <1>3, <3>1, <3>2 DEF ProcessMove
      <4>. QED BY <1>3, <4>1 DEF ProcessMove
    <3>. QED BY <3>2
  <2>2. CASE RuntimeAddress(l) \in terminal
    BY <1>3, <2>1, <2>2 DEF Dead, ProcessMove
  <2>3. CASE runner[l.run] = "ended"
    <3>1. \/ runner'[l.run] = "ended"
          \/ runner'[l.run] = "gone" /\ \A w \in writers' : w[1] # l.run
      BY <2>3 DEF ProcessMove, RunnerMove
    <3>. QED BY <1>3, <2>0, <2>1, <3>1 DEF Dead, NothingAlive, WritersOf
  <2>. QED BY <1>3, <2>2, <2>3
<1>. QED BY <1>1, <1>2, <1>3 DEF Dead

LEMMA ObservationKept ==
  ASSUME IInv, ProcessMove, LedgerMove, issued \in Nat, issued' \in Nat, NEW o, ObservationOK(o), o.token \in Nat,
         \A l \in ledger'.leases : l.token \in Nat
  PROVE  ObservationOK(o)'
<1>1. o.token < issued /\ o.token < issued'
  BY DEF ObservationOK, LedgerMove
<1>2. ASSUME NEW l \in Current(ledger, o)' PROVE Dead(l)'
  <2>1. l \in ledger'.leases /\ l.id = o.id /\ l.token = o.token
    BY <1>2 DEF Current
  <2>2. \A m \in ledger.leases : m.run \in Runs /\ (m.proc \in Runs => m.run = m.proc /\ runner[m.run] # "none")
    BY DEF IInv, Types, Sound, Ledger, Lease, LeaseInv
  <2>3. CASE l \in ledger.leases
    <3>1. Dead(l)
      BY <2>1, <2>3 DEF Current, ObservationOK
    <3>. QED BY <2>2, <2>3, <3>1, DeadStays
  <2>4. CASE issued <= l.token
    BY <1>1, <2>1, <2>4
  <2>5. CASE \E m \in ledger.leases : Moved(m, l)
    <3>1. PICK m \in ledger.leases : Moved(m, l)
      BY <2>5
    <3>2. Dead(m)
      BY <2>1, <3>1 DEF Current, ObservationOK, Moved
    <3>3. Dead(m)'
      BY <2>2, <3>2, DeadStays
    <3>4. m.proc \in Runs
      BY <3>1, <3>2, HostIsNoRun, HostsAssumption DEF Moved, Dead, IInv, Types
    <3>5. l.run = m.run /\ l.index = m.index /\ l.proc = m.proc
      BY <2>2, <3>1, <3>4 DEF Moved
    <3>. QED BY <3>3, <3>5 DEF Dead, RuntimeAddress
  <2>. QED BY <2>1, <2>3, <2>4, <2>5 DEF LedgerMove
<1>. QED BY <1>1, <1>2 DEF ObservationOK

\* The moves preserve the invariant.
LEMMA MovesKeep ==
  ASSUME IInv, Moves, Types', PresentInv'
  PROVE  IInv'
<1>1. /\ issued \in Nat /\ issued' \in Nat
      /\ \A l \in ledger'.leases : l.token \in Nat
      /\ \A j \in Invocations : \A h \in held'[j] : h.token \in Nat
  BY DEF IInv, Types, TypeOK, Sound, Ledger, Lease
<1>2. /\ ProcessMove /\ LedgerMove /\ HeldMove /\ PhaseMove /\ StartsMove
      /\ BindingMove /\ PendingMove /\ CompletionMove /\ ObservedMove
  BY DEF Moves
<1>3. LeaseInv' /\ WriterInv' /\ OursInv'
  BY <1>1, <1>2, LeaseKept, WriterKept, OursKept
<1>4. ASSUME NEW i \in Invocations
      PROVE  /\ RunInv(i)' /\ CoverInv(i)' /\ StartInv(i)'
             /\ HeldInv(i)' /\ HandleInv(i)'
  BY <1>1, <1>2, RunKept, CoverKept, StartKept, HeldKept, HandleKept
<1>5. ASSUME NEW b \in bindings' PROVE BindingOK(b)'
  BY <1>2, BindingKept
<1>6. ASSUME NEW p \in pending' PROVE SettlementOK(p)'
  BY <1>2, SettlementKept
<1>7. ASSUME NEW c \in completions' PROVE CompletionOK(c)'
  <2>1. CompletionOK(c)
    BY <1>2 DEF CompletionMove
  <2>2. \A h \in c.found : h.token \in Nat
    BY DEF Types, CompletionType, Lease
  <2>. QED BY <1>1, <1>2, <2>1, <2>2, CompletionKept
<1>8. ASSUME NEW x \in Observers, NEW o \in observed'[x] PROVE ObservationOK(o)'
  <2>1. ObservationOK(o)
    BY <1>2 DEF ObservedMove
  <2>2. o.token \in Nat
    BY DEF Types, TypeOK, Observers, Lease
  <2>. QED BY <1>1, <1>2, <2>1, <2>2, ObservationKept
<1>. QED BY <1>3, <1>4, <1>5, <1>6, <1>7, <1>8 DEF IInv

-----------------------------------------------------------------------------
(* Steps that leave something alone *)

LEMMA ProcessStays ==
  ASSUME UNCHANGED processVars
  PROVE  ProcessMove
BY DEF ProcessMove, RunnerMove, processVars

LEMMA LedgerStays ==
  ASSUME IInv, UNCHANGED <<ledger, issued>>
  PROVE  LedgerMove
BY DEF LedgerMove, IInv, Types, TypeOK

LEMMA HeldStays ==
  ASSUME IInv, UNCHANGED held
  PROVE  HeldMove
<1>1. ASSUME NEW i \in Invocations, Reserves(i) PROVE FALSE
  <2>1. held[i] = {} /\ 0 \in Children(i)
    BY <1>1, OwnIds DEF Reserves, IInv, HeldInv, Children
  <2>. QED BY <1>1, <2>1 DEF Reserves, HeldAll
<1>. QED BY <1>1 DEF HeldMove

LEMMA StartsStay ==
  ASSUME IInv, UNCHANGED <<starts, asyncStarts>>
  PROVE  StartsMove
BY DEF StartsMove, IInv, StartInv

LEMMA BindingsStay ==
  ASSUME UNCHANGED bindings
  PROVE  BindingMove
BY DEF BindingMove

LEMMA PendingStays ==
  ASSUME IInv, UNCHANGED pending,
         \A i \in Invocations : phase[i] = "returned" => phase'[i] = "returned"
  PROVE  PendingMove
BY DEF PendingMove, IInv, SettlementOK, Types, SettlementType

LEMMA CompletionsStay ==
  ASSUME IInv, UNCHANGED completions
  PROVE  CompletionMove
BY DEF CompletionMove, IInv

\* A reconciliation remembers what it finds dead, or forgets.
LEMMA ObservedStays ==
  ASSUME IInv, \A x \in Observers : observed'[x] \subseteq observed[x]
  PROVE  ObservedMove
BY DEF ObservedMove, IInv

LEMMA FindingsAreDead ==
  ASSUME IInv, NEW found \in Findings, NEW o \in found
  PROVE  ObservationOK(o) /\ o \in Lease
<1>1. o \in ledger.leases /\ ProvablyDead(o)
  BY DEF Findings
<1>2. Current(ledger, o) = {o} /\ o \in Lease
  BY <1>1, CurrentOfItself DEF IInv, Types
<1>3. o.token < issued /\ (o.proc \in Runs => o.run = o.proc /\ runner[o.run] # "none")
  BY <1>1 DEF IInv, LeaseInv
<1>4. o.proc \in Hosts \/ o.proc \in Runs
  BY <1>2, HostsAssumption DEF Lease
<1>5. Dead(o)
  BY <1>1, <1>3, <1>4 DEF ProvablyDead, Dead
<1>. QED BY <1>2, <1>3, <1>5 DEF ObservationOK

LEMMA ObservedFinds ==
  ASSUME IInv, NEW x \in Observers, NEW found \in Findings,
         observed' = [observed EXCEPT ![x] = found]
  PROVE  ObservedMove /\ observed' \in [Observers -> SUBSET Lease]
<1>1. observed \in [Observers -> SUBSET Lease]
  BY DEF IInv, Types, TypeOK, Observers
<1>2. \A o \in found : ObservationOK(o) /\ o \in Lease
  BY FindingsAreDead
<1>3. observed' \in [Observers -> SUBSET Lease]
  BY <1>1, <1>2
<1>4. ASSUME NEW y \in Observers, NEW o \in observed'[y] PROVE ObservationOK(o)
  <2>1. o \in found \/ o \in observed[y]
    BY <1>1, <1>4
  <2>. QED BY <1>2, <2>1 DEF IInv
<1>. QED BY <1>3, <1>4 DEF ObservedMove

LEMMA ObservedForgets ==
  ASSUME IInv, NEW x \in Observers, observed' = [observed EXCEPT ![x] = {}]
  PROVE  ObservedMove /\ observed' \in [Observers -> SUBSET Lease]
<1>1. observed \in [Observers -> SUBSET Lease]
  BY DEF IInv, Types, TypeOK, Observers
<1>2. \A y \in Observers : observed'[y] \subseteq observed[y]
  BY <1>1
<1>. QED BY <1>1, <1>2, ObservedStays

\* An armed completion is one that waited, checked again.
LEMMA ArmedAgain ==
  ASSUME IInv, NEW all \in SUBSET completions, NEW cs, completions' = Armed(all, cs)
  PROVE  CompletionMove /\ completions' \subseteq CompletionType
<1>1. ASSUME NEW c \in completions' PROVE CompletionOK(c) /\ c \in CompletionType
  <2>1. PICK d \in all : c = IF d \in cs /\ d.at = "parked" THEN [d EXCEPT !.at = "check"] ELSE d
    BY <1>1 DEF Armed
  <2>2. d \in CompletionType /\ CompletionOK(d)
    BY DEF IInv, Types
  <2>3. CASE c = d
    BY <2>2, <2>3
  <2>4. CASE c = [d EXCEPT !.at = "check"]
    <3>1. c \in CompletionType /\ c.run = d.run /\ c.index = d.index /\ c.at = "check"
      BY <2>2, <2>4 DEF CompletionType
    <3>. QED BY <2>2, <3>1 DEF CompletionOK
  <2>. QED BY <2>1, <2>3, <2>4
<1>. QED BY <1>1 DEF CompletionMove

LEMMA PhaseGoes ==
  ASSUME IInv, NEW i \in Invocations, NEW to \in Phases, Goto(i, to)
  PROVE  /\ phase' \in [Invocations -> Phases] /\ phase'[i] = to
         /\ \A j \in Invocations \ {i} : phase'[j] = phase[j]
         /\ Passage(i) => PhaseMove
<1>1. phase \in [Invocations -> Phases]
  BY DEF IInv, Types, TypeOK
<1>2. /\ phase' \in [Invocations -> Phases] /\ phase'[i] = to
      /\ \A j \in Invocations \ {i} : phase'[j] = phase[j]
  BY <1>1 DEF Goto
<1>. QED BY <1>2 DEF PhaseMove

LEMMA PhaseStays ==
  ASSUME UNCHANGED phase
  PROVE  PhaseMove
BY DEF PhaseMove

LEMMA PresentStays ==
  ASSUME IInv, UNCHANGED <<generation, active>>,
         \A i \in Invocations : phase'[i] = "called" => phase[i] = "called"
  PROVE  PresentInv'
BY DEF IInv, PresentInv, BoundHere

-----------------------------------------------------------------------------
(* prepare *)

LEMMA PrepareObserveMoves ==
  ASSUME IInv, NEW i \in Invocations, PrepareObserve(i)
  PROVE  Moves /\ Types' /\ PresentInv'
<1>0. /\ phase[i] = "idle" /\ Goto(i, "observed")
      /\ bornIn' = [bornIn EXCEPT ![i] = generation]
      /\ UNCHANGED <<ledger, issued, generation, held, starts, active, asyncStarts, bindings,
                     pending, completions, reported, faults>>
      /\ UNCHANGED processVars
  BY DEF PrepareObserve, startVars, reports
<1>1. PICK found \in Findings : observed' = [observed EXCEPT ![i] = found]
  BY DEF PrepareObserve
<1>2. ObservedMove /\ observed' \in [Observers -> SUBSET Lease]
  BY <1>1, ObservedFinds DEF Observers
<1>3. /\ phase' \in [Invocations -> Phases] /\ phase'[i] = "observed"
      /\ \A j \in Invocations \ {i} : phase'[j] = phase[j]
      /\ Passage(i) => PhaseMove
  BY <1>0, PhaseGoes DEF Phases
<1>4. PhaseMove
  BY <1>0, <1>3 DEF Passage
<1>6. /\ ProcessMove /\ LedgerMove /\ HeldMove /\ StartsMove /\ BindingMove
      /\ PendingMove /\ CompletionMove
  BY <1>0, <1>3, ProcessStays, LedgerStays, HeldStays, StartsStay, BindingsStay, PendingStays,
     CompletionsStay
<1>7. Types'
  BY <1>0, <1>2, <1>3 DEF IInv, Types, TypeOK, ProcessesTypeOK, processVars, Observers
<1>8. PresentInv'
  BY <1>0, <1>3, PresentStays
<1>. QED BY <1>2, <1>4, <1>6, <1>7, <1>8 DEF Moves

LEMMA PrepareRefusedMoves ==
  ASSUME IInv, NEW i \in Invocations, PrepareRefused(i)
  PROVE  Moves /\ Types' /\ PresentInv'
<1>0. /\ phase[i] \in {"observed", "reclaimed"} /\ Goto(i, "refused")
      /\ observed' = [observed EXCEPT ![i] = {}]
      /\ UNCHANGED <<ledger, issued, generation, bornIn, held, starts, active, asyncStarts,
                     bindings, pending, completions, reported, faults>>
      /\ UNCHANGED processVars
  BY DEF PrepareRefused, launchVars, startVars, reports
<1>2. ObservedMove /\ observed' \in [Observers -> SUBSET Lease]
  BY <1>0, ObservedForgets DEF Observers
<1>3. /\ phase' \in [Invocations -> Phases] /\ phase'[i] = "refused"
      /\ \A j \in Invocations \ {i} : phase'[j] = phase[j]
      /\ Passage(i) => PhaseMove
  BY <1>0, PhaseGoes DEF Phases
<1>4. PhaseMove
  BY <1>0, <1>3 DEF Passage
<1>6. /\ ProcessMove /\ LedgerMove /\ HeldMove /\ StartsMove /\ BindingMove
      /\ PendingMove /\ CompletionMove
  BY <1>0, <1>3, ProcessStays, LedgerStays, HeldStays, StartsStay, BindingsStay, PendingStays,
     CompletionsStay
<1>7. Types'
  BY <1>0, <1>2, <1>3 DEF IInv, Types, TypeOK, ProcessesTypeOK, processVars, Observers
<1>8. PresentInv'
  BY <1>0, <1>3, PresentStays
<1>. QED BY <1>2, <1>4, <1>6, <1>7, <1>8 DEF Moves

LEMMA DeadIsNotNeeded ==
  ASSUME IInv, NEW l \in ledger.leases, Dead(l), l.proc \in Runs
  PROVE  ~Needed(l.run, l.index)
<1>0. /\ l.run = l.proc /\ runner[l.run] # "none" /\ l.run \in Runs
      /\ RuntimeAddress(l) = <<l.run, l.index>>
      /\ l.proc \notin Hosts
  BY HostsAssumption DEF IInv, LeaseInv, RuntimeAddress
<1>1. CASE NothingAlive(l.proc)
  BY <1>0, <1>1 DEF NothingAlive, WritersOf, Needed, MayOpen, Engaged
<1>2. CASE /\ RuntimeAddress(l) \notin writers
           /\ runner[l.run] = "ended" \/ RuntimeAddress(l) \in terminal
  <2>1. PICK j \in Invocations : l.run = Runtime[j]
    BY <1>0 DEF IInv, OursInv
  <2>2. RuntimeAddress(l) \in terminal => runner[l.run] # "gated"
    BY <1>0, <2>1 DEF IInv, RunInv
  <2>. QED BY <1>0, <1>2, <2>2 DEF Needed, MayOpen, Engaged
<1>. QED BY <1>0, <1>1, <1>2 DEF Dead

LEMMA LeasesGo ==
  ASSUME IInv, UNCHANGED issued, ledger'.leases \subseteq ledger.leases,
         \A m \in ledger.leases \ ledger'.leases : m.proc \in Runs => ~Needed(m.run, m.index)
  PROVE  LedgerMove
BY DEF LedgerMove, IInv, Types, TypeOK

LEMMA ReclaimMoves ==
  ASSUME IInv, NEW x \in Observers, ledger' = AfterReclaim(ledger, observed[x]), UNCHANGED issued
  PROVE  LedgerMove /\ Sound(ledger)'
<1>1. Sound(ledger)'
  BY ReclaimSound DEF IInv, Types
<1>2. /\ ledger'.leases \subseteq ledger.leases
      /\ \A m \in ledger.leases \ ledger'.leases :
           \E o \in observed[x] : o.id = m.id /\ o.token = m.token
  BY DEF IInv, Types, Sound, Ledger, AfterReclaim
<1>3. ASSUME NEW m \in ledger.leases \ ledger'.leases, m.proc \in Runs
      PROVE  ~Needed(m.run, m.index)
  <2>1. PICK o \in observed[x] : o.id = m.id /\ o.token = m.token
    BY <1>2
  <2>2. m \in Current(ledger, o) /\ ObservationOK(o)
    BY <2>1 DEF Current, IInv
  <2>3. Dead(m)
    BY <2>2 DEF ObservationOK
  <2>. QED BY <1>3, <2>3, DeadIsNotNeeded
<1>. QED BY <1>1, <1>2, <1>3, LeasesGo

LEMMA PrepareReclaimMoves ==
  ASSUME IInv, NEW i \in Invocations, PrepareReclaim(i)
  PROVE  Moves /\ Types' /\ PresentInv'
<1>0. /\ phase[i] = "observed" /\ Goto(i, IF bornIn[i] = generation THEN "reclaimed" ELSE "refused")
      /\ observed' = [observed EXCEPT ![i] = {}]
      /\ ledger' = AfterReclaim(ledger, observed[i])
      /\ UNCHANGED <<issued, generation, bornIn, held, starts, active, asyncStarts,
                     bindings, pending, completions, reported, faults>>
      /\ UNCHANGED processVars
  BY DEF PrepareReclaim, launchVars, startVars, reports
<1>1. LedgerMove /\ Sound(ledger)'
  BY <1>0, ReclaimMoves DEF Observers
<1>2. ObservedMove /\ observed' \in [Observers -> SUBSET Lease]
  BY <1>0, ObservedForgets DEF Observers
<1> DEFINE to == IF bornIn[i] = generation THEN "reclaimed" ELSE "refused"
<1>3. to \in {"reclaimed", "refused"}
  OBVIOUS
<1>. HIDE DEF to
<1>4. /\ phase' \in [Invocations -> Phases] /\ phase'[i] = to
      /\ \A j \in Invocations \ {i} : phase'[j] = phase[j]
      /\ Passage(i) => PhaseMove
  <2>1. to \in Phases /\ Goto(i, to)
    BY <1>0, <1>3 DEF to, Phases
  <2>. QED BY <2>1, PhaseGoes
<1>5. PhaseMove
  BY <1>0, <1>3, <1>4 DEF Passage
<1>6. /\ ProcessMove /\ HeldMove /\ StartsMove /\ BindingMove /\ PendingMove /\ CompletionMove
  BY <1>0, <1>3, <1>4, ProcessStays, HeldStays, StartsStay, BindingsStay, PendingStays, CompletionsStay
<1>7. Types'
  BY <1>0, <1>1, <1>2, <1>4 DEF IInv, Types, TypeOK, ProcessesTypeOK, processVars, Observers, Sound
<1>8. PresentInv'
  BY <1>0, <1>3, <1>4, PresentStays
<1>. QED BY <1>1, <1>2, <1>5, <1>6, <1>7, <1>8 DEF Moves

LEMMA SweepMoves ==
  ASSUME IInv, SweepObserve \/ SweepReclaim
  PROVE  Moves /\ Types' /\ PresentInv'
<1>0. UNCHANGED <<issued, generation, bornIn, held, phase, starts, active, asyncStarts,
                  bindings, pending, completions, reported, faults>>
      /\ UNCHANGED processVars
  BY DEF SweepObserve, SweepReclaim, launchVars, startVars, reports
<1>1. LedgerMove /\ Sound(ledger)'
  <2>1. CASE SweepObserve
    BY <1>0, <2>1, LedgerStays DEF SweepObserve, IInv, Types
  <2>2. CASE SweepReclaim
    BY <1>0, <2>2, ReclaimMoves DEF SweepReclaim, Observers
  <2>. QED BY <2>1, <2>2
<1>2. ObservedMove /\ observed' \in [Observers -> SUBSET Lease]
  <2>1. CASE SweepObserve
    <3>1. PICK found \in Findings : observed' = [observed EXCEPT ![Sweeper] = found]
      BY <2>1 DEF SweepObserve
    <3>. QED BY <3>1, ObservedFinds DEF Observers
  <2>2. CASE SweepReclaim
    BY <2>2, ObservedForgets DEF SweepReclaim, Observers
  <2>. QED BY <2>1, <2>2
<1>3. /\ ProcessMove /\ HeldMove /\ PhaseMove /\ StartsMove /\ BindingMove /\ PendingMove
      /\ CompletionMove
  BY <1>0, ProcessStays, HeldStays, PhaseStays, StartsStay, BindingsStay, PendingStays, CompletionsStay
<1>4. Types'
  BY <1>0, <1>1, <1>2 DEF IInv, Types, TypeOK, ProcessesTypeOK, processVars, Observers, Sound
<1>5. PresentInv'
  BY <1>0, PresentStays
<1>. QED BY <1>1, <1>2, <1>3, <1>4, <1>5 DEF Moves

-----------------------------------------------------------------------------
(* The processes *)

LEMMA ProcessStepMoves ==
  ASSUME IInv, ProcessStep
  PROVE  Moves /\ Types' /\ PresentInv'
<1>0. UNCHANGED <<ledger, issued, generation, bornIn, held, phase, starts, active, asyncStarts,
                  bindings, pending, completions, reported, observed, faults>>
  BY DEF ProcessStep, memory
<1>1. /\ host \in Hosts /\ dead \subseteq Hosts /\ runner \in [Runs -> RunnerState]
      /\ writers \subseteq AgentId /\ terminal \subseteq AgentId
      /\ frames \subseteq Runs /\ opened \subseteq Runs /\ aborted \subseteq Runs
  BY DEF IInv, Types, TypeOK, ProcessesTypeOK
<1>2. ASSUME NEW i \in Invocations, NEW k \in Children(i)
      PROVE  Runtime[i] \in Runs /\ <<Runtime[i], k>> \in AgentId
  <2>1. Runtime[i] \in Runs /\ k \in Nat
    BY OwnIds, ChildIds
  <2>. QED BY <2>1 DEF AgentId
<1>3. ProcessMove /\ ProcessesTypeOK' /\ terminal \subseteq terminal'
  <2>1. ASSUME NEW i \in Invocations, NEW k \in Children(i), StartWriter(Runtime[i], k)
        PROVE  ProcessMove /\ ProcessesTypeOK' /\ terminal \subseteq terminal'
    <3>1. /\ UNCHANGED <<host, dead, runner, terminal, frames, opened, aborted>>
          /\ runner[Runtime[i]] = "working" /\ <<Runtime[i], k>> \notin terminal
          /\ writers' = writers \cup {<<Runtime[i], k>>}
      BY <2>1 DEF StartWriter
    <3>. QED BY <1>1, <1>2, <3>1 DEF ProcessMove, RunnerMove, ProcessesTypeOK
  <2>2. ASSUME NEW i \in Invocations, NEW k \in Children(i), ReportChild(Runtime[i], k)
        PROVE  ProcessMove /\ ProcessesTypeOK' /\ terminal \subseteq terminal'
    BY <1>1, <1>2, <2>2 DEF ReportChild, ProcessMove, RunnerMove, ProcessesTypeOK
  <2>3. ASSUME NEW i \in Invocations, NEW k \in Children(i), ExitWriter(Runtime[i], k)
        PROVE  ProcessMove /\ ProcessesTypeOK' /\ terminal \subseteq terminal'
    BY <1>1, <2>3 DEF ExitWriter, ProcessMove, RunnerMove, ProcessesTypeOK
  <2>4. ASSUME NEW r \in Runs, ExitRunner(r) \/ EndFrame(r)
        PROVE  ProcessMove /\ ProcessesTypeOK' /\ terminal \subseteq terminal'
    <3>1. /\ UNCHANGED <<host, dead, writers, terminal, frames, opened, aborted>>
          /\ \/ runner[r] \in {"gated", "doomed", "working"} /\ runner'[r] = "gone"
             \/ runner[r] = "working" /\ runner'[r] = "ended"
          /\ \A q \in Runs \ {r} : runner'[q] = runner[q]
          /\ runner' \in [Runs -> RunnerState]
      BY <1>1, <2>4 DEF ExitRunner, EndFrame, RunnerState
    <3>2. \A q \in Runs : RunnerMove(q)
      BY <3>1 DEF RunnerMove
    <3>. QED BY <1>1, <3>1, <3>2 DEF ProcessMove, ProcessesTypeOK
  <2>. QED BY <2>1, <2>2, <2>3, <2>4 DEF ProcessStep
<1>4. /\ LedgerMove /\ HeldMove /\ PhaseMove /\ StartsMove /\ BindingMove /\ PendingMove
      /\ CompletionMove /\ ObservedMove
  BY <1>0, LedgerStays, HeldStays, PhaseStays, StartsStay, BindingsStay, PendingStays,
     CompletionsStay, ObservedStays
<1>5. Types'
  <2>1. TypeOK'
    BY <1>0, <1>3 DEF IInv, Types, TypeOK
  <2>. QED BY <1>0, <2>1 DEF IInv, Types
<1>6. PresentInv'
  BY <1>0, PresentStays
<1>. QED BY <1>3, <1>4, <1>5, <1>6 DEF Moves

\* Killing runs that were started is a move of the processes.
LEMMA KillMoves ==
  ASSUME IInv, NEW gone \in SUBSET Runs, Kill(gone), \A r \in gone : runner[r] # "none"
  PROVE  /\ ProcessMove /\ ProcessesTypeOK' /\ terminal' = terminal /\ frames' = frames
         /\ runner' \in [Runs -> RunnerState] /\ host' = host
         /\ \A r \in gone : runner'[r] = "gone" /\ WritersOf(r)' = {}
         /\ \A r \in Runs \ gone : runner'[r] = runner[r]
         /\ writers' \subseteq writers
<1>1. /\ host \in Hosts /\ dead \subseteq Hosts /\ runner \in [Runs -> RunnerState]
      /\ writers \subseteq AgentId /\ terminal \subseteq AgentId
      /\ frames \subseteq Runs /\ opened \subseteq Runs /\ aborted \subseteq Runs
  BY DEF IInv, Types, TypeOK, ProcessesTypeOK
<1>2. /\ UNCHANGED <<host, dead, terminal, frames, opened>>
      /\ \A r \in gone : runner'[r] = "gone" /\ \A w \in writers' : w[1] # r
      /\ \A r \in Runs \ gone : runner'[r] = runner[r]
      /\ runner' \in [Runs -> RunnerState] /\ writers' \subseteq writers
      /\ aborted' \subseteq Runs
  BY <1>1 DEF Kill, RunnerState
<1>3. \A r \in Runs : RunnerMove(r)
  BY <1>2 DEF RunnerMove
<1>4. ProcessMove /\ ProcessesTypeOK'
  BY <1>1, <1>2, <1>3 DEF ProcessMove, ProcessesTypeOK
<1>. QED BY <1>2, <1>4 DEF WritersOf

\* A gate opens for a run whose children are bound.
LEMMA GateMoves ==
  ASSUME IInv, NEW r \in Runs, OpenGate(r),
         runner[r] = "gated" =>
           /\ MayOpen(r)
           /\ \A i \in Invocations : Runtime[i] = r =>
                /\ \A k \in Children(i) : Bound(r, k)
                /\ i \in Foreground => phase'[i] = "foreground"
  PROVE  ProcessMove /\ ProcessesTypeOK' /\ terminal' = terminal
<1>1. /\ host \in Hosts /\ dead \subseteq Hosts /\ runner \in [Runs -> RunnerState]
      /\ writers \subseteq AgentId /\ terminal \subseteq AgentId
      /\ frames \subseteq Runs /\ opened \subseteq Runs /\ aborted \subseteq Runs
  BY DEF IInv, Types, TypeOK, ProcessesTypeOK
<1>2. /\ UNCHANGED <<host, dead, writers, terminal, frames, aborted>>
      /\ runner'[r] = IF runner[r] = "gated" THEN "working" ELSE runner[r]
      /\ \A q \in Runs \ {r} : runner'[q] = runner[q]
      /\ runner' \in [Runs -> RunnerState]
      /\ opened' \subseteq Runs
  BY <1>1 DEF OpenGate, RunnerState
<1>3. RunnerMove(r)
  BY <1>2 DEF RunnerMove
<1>4. \A q \in Runs : RunnerMove(q)
  BY <1>2, <1>3 DEF RunnerMove
<1>. QED BY <1>1, <1>2, <1>4 DEF ProcessMove, ProcessesTypeOK

-----------------------------------------------------------------------------
(* Completions, and the change of session *)

\* A child that is over, and either gone or a frame's own, is not needed.
LEMMA OverIsNotNeeded ==
  ASSUME IInv, NEW j \in Invocations, NEW k, <<Runtime[j], k>> \in terminal,
         <<Runtime[j], k>> \notin writers \/ Runtime[j] \in frames
  PROVE  ~Needed(Runtime[j], k)
<1>1. runner[Runtime[j]] # "gated"
  BY DEF IInv, RunInv
<1>. QED BY <1>1 DEF Needed, MayOpen, Engaged

LEMMA CompletionStepMoves ==
  ASSUME IInv, NEW c \in completions, CompletionStep(c)
  PROVE  Moves /\ Types' /\ PresentInv'
<1>0. /\ UNCHANGED <<issued, generation, bornIn, held, phase, starts, active, asyncStarts,
                     bindings, pending, reported, observed, faults>>
      /\ UNCHANGED processVars
  BY DEF CompletionStep, CompletionCheck, CompletionFind, CompletionRelease, StepCompletion,
         launchVars, startVars, ends
<1>1. CompletionOK(c) /\ c \in CompletionType
  BY DEF IInv, Types
<1>2. LedgerMove /\ Sound(ledger)'
  <2>1. CASE CompletionRelease(c)
    <3>1. PICK h \in c.found : ledger' = AfterRelease(ledger, h)
      BY <2>1 DEF CompletionRelease
    <3>2. c.at = "release"
      BY <2>1 DEF CompletionRelease
    <3>3. Sound(ledger)'
      BY <3>1, ReleaseSound DEF IInv, Types
    <3>4. ledger'.leases = ledger.leases \ Current(ledger, h)
      BY <3>1 DEF AfterRelease, IInv, Types, Sound, Ledger
    <3>5. ASSUME NEW m \in Current(ledger, h) PROVE ~Needed(m.run, m.index)
      <4>1. m.run = c.run /\ m.index = c.index
        BY <1>1, <3>2 DEF CompletionOK, RuntimeAddress
      <4>2. PICK j \in Invocations : c.run = Runtime[j]
        BY <1>1 DEF CompletionOK
      <4>3. ~Needed(Runtime[j], c.index)
        BY <1>1, <3>2, <4>2, OverIsNotNeeded DEF CompletionOK
      <4>. QED BY <4>1, <4>2, <4>3
    <3>. QED BY <1>0, <3>3, <3>4, <3>5, LeasesGo
  <2>2. CASE UNCHANGED ledger
    BY <1>0, <2>2, LedgerStays DEF IInv, Types
  <2>. QED BY <2>1, <2>2 DEF CompletionStep, CompletionCheck, CompletionFind
<1>3. CompletionMove /\ completions' \subseteq CompletionType
  <2>1. \A d \in completions' : d \in completions \/ (CompletionOK(d) /\ d \in CompletionType)
    <3>1. CASE CompletionCheck(c)
      <4> DEFINE d == [c EXCEPT !.at = "find"]
      <4>1. completions' = (completions \ {c}) \cup {d}
            /\ (\A l \in LeaseAt(c) : ProvablyDead(l)) /\ c.at = "check"
        BY <3>1 DEF CompletionCheck, StepCompletion
      <4>2. d \in CompletionType /\ d.run = c.run /\ d.index = c.index /\ d.at = "find"
        BY <1>1 DEF CompletionType
      <4>3. <<c.run, c.index>> \notin writers \/ c.run \in frames
        <5>. SUFFICES ASSUME <<c.run, c.index>> \in writers, c.run \notin frames PROVE FALSE
          OBVIOUS
        <5>1. Engaged(c.run, c.index)
          BY DEF Engaged
        <5>2. Bound(c.run, c.index)
          BY <5>1 DEF IInv, WriterInv
        <5>3. PICK l \in ledger.leases : RuntimeAddress(l) = <<c.run, c.index>> /\ l.proc = c.run
          BY <5>2 DEF Bound
        <5>4. l.run = l.proc /\ l.proc \notin Hosts
          BY <1>1, <5>3, HostsAssumption DEF CompletionType, RuntimeAddress
        <5>5. ProvablyDead(l)
          BY <4>1, <5>3 DEF LeaseAt
        <5>. QED BY <1>1, <5>3, <5>4, <5>5 DEF ProvablyDead, CompletionOK
      <4>4. CompletionOK(d)
        BY <1>1, <4>2, <4>3 DEF CompletionOK
      <4>. QED BY <4>1, <4>2, <4>4
    <3>2. CASE CompletionFind(c)
      <4> DEFINE d == [c EXCEPT !.at = "release", !.found = LeaseAt(c)]
                 e == [c EXCEPT !.at = "parked"]
      <4>1. c.at = "find" /\ \/ completions' = (completions \ {c}) \cup {d}
                             \/ completions' = (completions \ {c}) \cup {e}
                             \/ completions' = (completions \ {c}) \cup {}
        BY <3>2 DEF CompletionFind, StepCompletion
      <4>2. /\ e \in CompletionType /\ e.run = c.run /\ e.index = c.index /\ e.at = "parked"
            /\ d.run = c.run /\ d.index = c.index /\ d.at = "release" /\ d.found = LeaseAt(c)
            /\ (LeaseAt(c) \subseteq Lease => d \in CompletionType)
        BY <1>1 DEF CompletionType
      <4>3. CompletionOK(e)
        BY <1>1, <4>2 DEF CompletionOK
      <4>4. ASSUME NEW h \in LeaseAt(c)
            PROVE  h \in Lease /\ h.token < issued
                   /\ \A l \in Current(ledger, h) : RuntimeAddress(l) = <<c.run, c.index>>
        <5>1. h \in ledger.leases /\ RuntimeAddress(h) = <<c.run, c.index>>
          BY DEF LeaseAt
        <5>2. Current(ledger, h) = {h} /\ h \in Lease
          BY <5>1, CurrentOfItself DEF IInv, Types
        <5>. QED BY <5>1, <5>2 DEF IInv, LeaseInv
      <4>5. CompletionOK(d) /\ d \in CompletionType
        BY <1>1, <4>1, <4>2, <4>4 DEF CompletionOK
      <4>. QED BY <4>1, <4>2, <4>3, <4>5
    <3>3. CASE CompletionRelease(c)
      <4>1. completions' = (completions \ {c}) \cup {}
        BY <3>3 DEF CompletionRelease, StepCompletion
      <4>. QED BY <4>1
    <3>. QED BY <3>1, <3>2, <3>3 DEF CompletionStep
  <2>. QED BY <2>1 DEF CompletionMove, IInv, Types
<1>4. /\ ProcessMove /\ HeldMove /\ PhaseMove /\ StartsMove /\ BindingMove /\ PendingMove
      /\ ObservedMove
  BY <1>0, ProcessStays, HeldStays, PhaseStays, StartsStay, BindingsStay, PendingStays, ObservedStays
<1>5. Types'
  BY <1>0, <1>2, <1>3 DEF IInv, Types, TypeOK, ProcessesTypeOK, processVars, Sound, CompletionType
<1>6. PresentInv'
  BY <1>0, PresentStays
<1>. QED BY <1>2, <1>3, <1>4, <1>5, <1>6 DEF Moves

LEMMA CompleteMoves ==
  ASSUME IInv, NEW i \in Invocations, NEW k \in Children(i), Complete(Runtime[i], k)
  PROVE  Moves /\ Types' /\ PresentInv'
<1> DEFINE r == Runtime[i]
<1>0. /\ UNCHANGED <<ledger, issued, generation, bornIn, held, phase, starts, active, asyncStarts,
                     bindings, pending, observed, faults>>
      /\ UNCHANGED processVars
      /\ <<r, k>> \in terminal /\ reported' = reported \cup {<<r, k>>}
  BY DEF Complete, launchVars, startVars, ends
<1>1. CompletionMove /\ completions' \subseteq CompletionType
  <2>1. CASE completions' = completions \cup {Completion(r, k)}
    <3> DEFINE c == Completion(r, k)
    <3>1. r \in Runs /\ k \in Nat /\ generation \in Nat /\ active \subseteq Invocations
      BY OwnIds, ChildIds, BoundsAssumption DEF IInv, Types, TypeOK
    <3>2. c.run = r /\ c.index = k /\ c.at = "check" /\ c \in CompletionType
      BY <3>1 DEF Completion, CompletionType
    <3>3. CompletionOK(c)
      BY <1>0, <3>2 DEF CompletionOK
    <3>. QED BY <2>1, <3>2, <3>3 DEF CompletionMove, IInv, Types
  <2>2. CASE completions' = Arm(Reported(r, k))
    BY <2>2, ArmedAgain DEF Arm
  <2>. QED BY <2>1, <2>2 DEF Complete
<1>2. /\ ProcessMove /\ LedgerMove /\ HeldMove /\ PhaseMove /\ StartsMove /\ BindingMove
      /\ PendingMove /\ ObservedMove
  BY <1>0, ProcessStays, LedgerStays, HeldStays, PhaseStays, StartsStay, BindingsStay, PendingStays,
     ObservedStays
<1>3. Types'
  BY <1>0, <1>1 DEF IInv, Types, TypeOK, ProcessesTypeOK, processVars, CompletionType
<1>4. PresentInv'
  BY <1>0, PresentStays
<1>. QED BY <1>1, <1>2, <1>3, <1>4 DEF Moves

LEMMA SwitchMoves ==
  ASSUME IInv, NoStraggler, SwitchSession
  PROVE  Moves /\ Types' /\ PresentInv'
<1>0. /\ UNCHANGED <<ledger, issued, bornIn, held, phase, starts, bindings, pending, reported,
                     observed, faults>>
      /\ UNCHANGED processVars
      /\ active' = {} /\ asyncStarts' = {}
      /\ generation < MaxGeneration /\ generation' = generation + 1
  BY DEF SwitchSession, ends
<1>1. generation \in 0 .. MaxGeneration + 1 /\ MaxGeneration \in Nat
  BY BoundsAssumption DEF IInv, Types, TypeOK
<1>2. CompletionMove /\ completions' \subseteq CompletionType
  <2>1. CASE completions' = Arm(completions)
    BY <2>1, ArmedAgain DEF Arm
  <2>2. CASE UNCHANGED completions
    BY <2>2, CompletionsStay DEF IInv, Types
  <2>. QED BY <2>1, <2>2 DEF SwitchSession
<1>3. StartsMove
  BY <1>0 DEF StartsMove, IInv, StartInv
<1>4. /\ ProcessMove /\ LedgerMove /\ HeldMove /\ PhaseMove /\ BindingMove /\ PendingMove
      /\ ObservedMove
  BY <1>0, ProcessStays, LedgerStays, HeldStays, PhaseStays, BindingsStay, PendingStays, ObservedStays
<1>5. Types'
  <2>1. IsFiniteSet(active') /\ generation' \in 0 .. MaxGeneration + 1
    BY <1>0, <1>1, FS_EmptySet
  <2>. QED BY <1>0, <1>2, <2>1 DEF IInv, Types, TypeOK, ProcessesTypeOK, processVars, CompletionType
<1>6. PresentInv'
  <2>1. MaxGeneration # 0 /\ generation' <= MaxGeneration
    BY <1>0, <1>1
  <2>2. ASSUME Foreground # {} \/ \E j \in Invocations : Kind[j] = "resume" PROVE ~BoundHere'
    <3>1. MaxGeneration <= 1
      BY <2>1, <2>2 DEF NoStraggler
    <3>2. generation' = 1
      BY <1>0, <1>1, <3>1
    <3>. QED BY <3>2 DEF BoundHere
  <2>. QED BY <1>1, <2>1, <2>2 DEF PresentInv
<1>. QED BY <1>2, <1>3, <1>4, <1>5, <1>6 DEF Moves

-----------------------------------------------------------------------------
(* The engine returns *)

\* A settlement begins: what it must know of the run it names.
LEMMA AwaitMoves ==
  ASSUME IInv, NEW i \in Invocations, NEW kind \in {"start-error", "background-started", "foreground"},
         NEW bind \in BOOLEAN, NEW r \in Runs, NEW start \in Runs \cup {NoRun}, NEW over \in SUBSET Nat,
         Await(i, Settlement(i, kind, bind, r, start, over)),
         phase[i] \in Underway \ {"binding"},
         ProcessMove, ProcessesTypeOK', faults' \in 0 .. MaxFaults,
         phase[i] = "reserved" => ~bind /\ runner'[Runtime[i]] = "none",
         bind => /\ start = r /\ runner'[r] # "none"
                 /\ \E j \in Invocations : r = Runtime[j] /\ (j # i => BothResume(i, j))
                 /\ r # Runtime[i] => Runtime[i] \notin starts[i] /\ \A b \in bindings : b.inv # i,
         kind = "foreground" =>
           /\ i \in Foreground /\ r = Runtime[i] /\ r \in frames
           /\ \A k \in over : <<r, k>> \in terminal,
         kind = "start-error" => ~bind /\ Void(i)'
  PROVE  Moves /\ Types' /\ PresentInv'
<1>1. PICK s \in SettlementType :
         /\ s = Settlement(i, kind, bind, r, start, over)
         /\ s.inv = i /\ s.owned = (phase[i] # "reserved") /\ s.kind = kind
         /\ s.bind = bind /\ s.run = r /\ s.start = start /\ s.terminalChildren = over
         /\ s.at = (IF bind THEN "bind" ELSE "settle") /\ s.next = 0
  <2>1. Settlement(i, kind, bind, r, start, over) \in SettlementType
    BY DEF Settlement, SettlementType
  <2>. QED BY <2>1 DEF Settlement
<1>0. /\ pending' = pending \cup {s} /\ Goto(i, "returned")
      /\ UNCHANGED <<ledger, issued, generation, bornIn, held, starts, active, asyncStarts, bindings,
                     completions, reported, observed>>
  BY <1>1 DEF Await, launchVars, startVars, reports
<1>2. /\ phase' \in [Invocations -> Phases] /\ phase'[i] = "returned"
      /\ \A j \in Invocations \ {i} : phase'[j] = phase[j]
      /\ PhaseMove
  <2>1. Passage(i) => PhaseMove
    BY <1>0, PhaseGoes DEF Phases
  <2>2. /\ phase' \in [Invocations -> Phases] /\ phase'[i] = "returned"
        /\ \A j \in Invocations \ {i} : phase'[j] = phase[j]
    BY <1>0, PhaseGoes DEF Phases
  <2>. QED BY <2>1, <2>2 DEF Passage, Underway
<1>3. \A p \in pending : p.inv \in Invocations /\ phase[p.inv] = "returned" /\ p.inv # i
  BY DEF IInv, SettlementOK, Underway, Types, SettlementType
<1>4. SettlementOK(s)'
  <2>1. \A q \in pending' : q.inv = i => q = s
    BY <1>0, <1>3
  <2>2. bind => BindsOK(s)'
    BY <1>0, <1>1 DEF BindsOK, Children
  <2>3. /\ phase'[s.inv] = "returned" /\ (s.at # "settle" => s.bind) /\ s.at # "rejected"
        /\ \A q \in pending' : q.inv = s.inv => q = s
        /\ s.bind => BindsOK(s)'
    BY <1>1, <1>2, <2>1, <2>2
  <2>4. ~s.owned => ~s.bind /\ runner'[Runtime[s.inv]] = "none"
    BY <1>1
  <2>5. s.kind = "foreground" =>
          /\ s.inv \in Foreground /\ s.run = Runtime[s.inv] /\ s.run \in frames'
          /\ \A k \in s.terminalChildren : <<s.run, k>> \in terminal'
    BY <1>1 DEF ProcessMove
  <2>6. s.kind = "start-error" => ~s.bind /\ Void(s.inv)'
    BY <1>1
  <2>. QED BY <2>3, <2>4, <2>5, <2>6 DEF SettlementOK
<1>5. PendingMove
  <2>1. \A p \in pending \cap pending' :
          phase'[p.inv] = phase[p.inv] /\ \A q \in pending' : q.inv = p.inv => q = p
    BY <1>0, <1>1, <1>2, <1>3 DEF IInv, SettlementOK
  <2>2. \A p \in pending' : p \in pending \/ p = s
    BY <1>0
  <2>3. /\ phase[s.inv] \in Underway
        /\ s.bind /\ Runtime[s.inv] \in starts[s.inv] => s.run = Runtime[s.inv]
    BY <1>1
  <2>. QED BY <1>4, <2>1, <2>2, <2>3 DEF PendingMove
<1>6. /\ LedgerMove /\ HeldMove /\ StartsMove /\ BindingMove /\ CompletionMove /\ ObservedMove
  BY <1>0, LedgerStays, HeldStays, StartsStay, BindingsStay, CompletionsStay, ObservedStays
<1>7. Types'
  <2>1. 0 \in Children(i)
    BY OwnIds DEF Children
  <2>2. reported' \subseteq terminal'
    BY <1>0 DEF IInv, Types, TypeOK, ProcessMove
  <2>. QED BY <1>0, <1>1, <1>2, <2>1, <2>2 DEF IInv, Types, TypeOK
<1>8. PresentInv'
  BY <1>0, <1>2, PresentStays
<1>. QED BY <1>2, <1>5, <1>6, <1>7, <1>8 DEF Moves

\* A settlement that gives the reservation up, or leaves it to the reports.
LEMMA NoBindMoves ==
  ASSUME IInv, NEW i \in Invocations, NEW kind \in {"start-error", "background-started"},
         NEW r \in Runs, Await(i, Settlement(i, kind, FALSE, r, NoRun, {})),
         phase[i] \in Underway \ {"binding"},
         ProcessMove, ProcessesTypeOK', faults' \in 0 .. MaxFaults,
         phase[i] = "reserved" => runner'[Runtime[i]] = "none",
         kind = "start-error" => Void(i)'
  PROVE  Moves /\ Types' /\ PresentInv'
<1>1. PICK bind \in BOOLEAN : bind = FALSE
  OBVIOUS
<1>2. PICK start \in Runs \cup {NoRun} : start = NoRun
  OBVIOUS
<1>3. PICK over \in SUBSET Nat : over = {}
  OBVIOUS
<1>4. Await(i, Settlement(i, kind, bind, r, start, over))
  BY <1>1, <1>2, <1>3
<1>. QED BY <1>1, <1>4, AwaitMoves

\* A settlement that binds run r of the background.
LEMMA BindMoves ==
  ASSUME IInv, NEW i \in Invocations, NEW r \in Runs,
         Await(i, Settlement(i, "background-started", TRUE, r, r, {})),
         phase[i] \in Underway \ {"binding", "reserved"},
         ProcessMove, ProcessesTypeOK', faults' \in 0 .. MaxFaults,
         runner'[r] # "none",
         \E j \in Invocations : r = Runtime[j] /\ (j # i => BothResume(i, j)),
         r # Runtime[i] => Runtime[i] \notin starts[i] /\ \A b \in bindings : b.inv # i
  PROVE  Moves /\ Types' /\ PresentInv'
<1>1. PICK bind \in BOOLEAN : bind = TRUE
  OBVIOUS
<1>2. PICK kind \in {"start-error", "background-started", "foreground"} : kind = "background-started"
  OBVIOUS
<1>3. PICK over \in SUBSET Nat : over = {}
  OBVIOUS
<1>4. Await(i, Settlement(i, kind, bind, r, r, over))
  BY <1>1, <1>2, <1>3
<1>. QED BY <1>1, <1>2, <1>4, AwaitMoves

\* The start that `fail` consumes: the own one when it is known.
LEMMA FailStartFacts ==
  ASSUME IInv, NEW i \in Invocations
  PROVE  /\ FailStart(i) # NoRun =>
              /\ FailStart(i) \in Runs /\ runner[FailStart(i)] # "none"
              /\ \E j \in Invocations : FailStart(i) = Runtime[j] /\ (j # i => BothResume(i, j))
         /\ FailStart(i) # NoRun /\ Runtime[i] \in starts[i] => FailStart(i) = Runtime[i]
         /\ Kind[i] = "spawn" => starts[i] \subseteq {Runtime[i]}
         /\ Kind[i] = "spawn" /\ starts[i] # {} => FailStart(i) = Runtime[i]
<1>1. /\ IsFiniteSet(starts[i]) /\ starts[i] \subseteq Runs
      /\ \A r \in starts[i] :
           /\ runner[r] # "none"
           /\ \E j \in Invocations : r = Runtime[j] /\ (j # i => BothResume(i, j))
  BY DEF IInv, StartInv, Types, TypeOK
<1>2. Cardinality(starts[i]) = 1 => \E x : starts[i] = {x}
  BY <1>1, FS_Singleton
<1>3. FailStart(i) # NoRun => FailStart(i) \in starts[i] /\ (starts[i] = {FailStart(i)} \/ FailStart(i) = Launch[i])
  BY <1>2 DEF FailStart
<1>4. Kind[i] = "spawn" => starts[i] \subseteq {Runtime[i]}
  BY <1>1 DEF BothResume
<1>5. Kind[i] = "resume" => Launch[i] \notin starts[i]
  BY <1>1, OwnIds
<1>6. Kind[i] = "spawn" /\ starts[i] # {} => FailStart(i) = Runtime[i]
  BY <1>4, OwnIds DEF FailStart
<1>7. FailStart(i) # NoRun /\ Runtime[i] \in starts[i] => FailStart(i) = Runtime[i]
  BY <1>3, <1>5, <1>6, OwnIds
<1>8. FailStart(i) # NoRun =>
              /\ FailStart(i) \in Runs /\ runner[FailStart(i)] # "none"
              /\ \E j \in Invocations : FailStart(i) = Runtime[j] /\ (j # i => BothResume(i, j))
  BY <1>1, <1>3
<1>. QED BY <1>4, <1>6, <1>7, <1>8

\* An invocation whose engine call has not begun to run is void.
LEMMA CalledIsVoid ==
  ASSUME IInv, NEW i \in Invocations, phase[i] \in {"reserved", "called"}
  PROVE  Void(i) /\ runner[Runtime[i]] = "none"
BY DEF IInv, RunInv, Void, WritersOf

LEMMA FailsMoves ==
  ASSUME IInv, NEW i \in Invocations, NEW gone \in SUBSET Runs, Fails(i, gone),
         \/ gone = {} /\ phase[i] \in {"called", "throwing"}
         \/ gone = {Runtime[i]} /\ phase[i] = "started"
  PROVE  Moves /\ Types' /\ PresentInv'
<1> DEFINE r == FailStart(i)
<1>0. /\ phase[i] \in Underway \ {"binding"} /\ phase[i] # "reserved"
      /\ \A x \in gone : runner[x] # "none"
      /\ Launch[i] \in Runs /\ Runtime[i] \in Runs
      /\ faults \in 0 .. MaxFaults
      /\ phase[i] = "throwing" => Runtime[i] \in starts[i]
  <2>1. phase[i] = "started" => runner[Runtime[i]] # "none"
    BY DEF IInv, RunInv
  <2>. QED BY <2>1, OwnIds DEF Underway, IInv, Types, TypeOK, RunInv
<1>1. /\ r # NoRun => r \in Runs /\ runner[r] # "none"
      /\ r # NoRun => \E j \in Invocations : r = Runtime[j] /\ (j # i => BothResume(i, j))
      /\ r # NoRun /\ Runtime[i] \in starts[i] => r = Runtime[i]
  BY FailStartFacts
<1>. HIDE DEF r
<1>2. ASSUME NEW all \in SUBSET Runs, Kill(all), \A x \in all : runner[x] # "none"
      PROVE  /\ ProcessMove /\ ProcessesTypeOK'
             /\ \A x \in Runs \ all : runner'[x] = runner[x]
             /\ Runtime[i] \in all \/ phase[i] = "called" => Void(i)'
  <2>1. /\ ProcessMove /\ ProcessesTypeOK' /\ writers' \subseteq writers
        /\ \A x \in all : runner'[x] = "gone" /\ WritersOf(x)' = {}
        /\ \A x \in Runs \ all : runner'[x] = runner[x]
    BY <1>2, KillMoves
  <2>2. Runtime[i] \in all => Void(i)'
    BY <2>1 DEF Void
  <2>3. ASSUME phase[i] = "called" PROVE Void(i)'
    <3>1. WritersOf(Runtime[i]) = {} /\ runner[Runtime[i]] = "none"
      BY <2>3, CalledIsVoid DEF Void
    <3>2. WritersOf(Runtime[i])' = {} /\ runner'[Runtime[i]] = "none"
      BY <1>0, <1>2, <2>1, <3>1 DEF WritersOf
    <3>. QED BY <3>2 DEF Void
  <2>. QED BY <2>1, <2>2, <2>3
<1>3. CASE starts[i] = {} /\ StartError(i, Launch[i]) /\ Kill(gone) /\ UNCHANGED faults
  <2>1. ProcessMove /\ ProcessesTypeOK' /\ Void(i)'
    BY <1>0, <1>2, <1>3
  <2>. QED BY <1>0, <1>3, <2>1, NoBindMoves DEF StartError
<1>4. CASE /\ Await(i, Settlement(i, "background-started", FALSE, Launch[i], NoRun, {}))
           /\ Kill(gone) /\ UNCHANGED faults
  <2>1. ProcessMove /\ ProcessesTypeOK'
    BY <1>0, <1>2, <1>4
  <2>. QED BY <1>0, <1>4, <2>1, NoBindMoves
<1>5. CASE r # NoRun /\ StartError(i, r) /\ Kill(gone \cup {r}) /\ UNCHANGED faults
  <2>1. ProcessMove /\ ProcessesTypeOK' /\ Void(i)'
    <3>1. gone \cup {r} \in SUBSET Runs /\ \A x \in gone \cup {r} : runner[x] # "none"
      BY <1>0, <1>1, <1>5
    <3>2. Runtime[i] \in gone \cup {r} \/ phase[i] = "called"
      BY <1>0, <1>1, <1>5
    <3>. QED BY <1>2, <1>5, <3>1, <3>2
  <2>. QED BY <1>0, <1>1, <1>5, <2>1, NoBindMoves DEF StartError
<1>6. CASE /\ r # NoRun /\ r \notin gone
           /\ IF Abortable(r) THEN ~NothingAlive(r) /\ Fault ELSE UNCHANGED faults
           /\ Await(i, Settlement(i, "background-started", TRUE, r, r, {}))
           /\ Kill(gone)
  <2>1. ProcessMove /\ ProcessesTypeOK' /\ runner'[r] # "none"
    BY <1>0, <1>1, <1>2, <1>6
  <2>2. faults' \in 0 .. MaxFaults
    BY <1>0, <1>6, BoundsAssumption DEF Fault
  <2>3. r # Runtime[i] => Runtime[i] \notin starts[i] /\ \A b \in bindings : b.inv # i
    BY <1>0, <1>1, <1>6 DEF IInv, BindingOK
  <2>. QED BY <1>0, <1>1, <1>6, <2>1, <2>2, <2>3, BindMoves
<1>. QED BY <1>3, <1>4, <1>5, <1>6 DEF Fails, r

LEMMA FrameFacts ==
  ASSUME IInv, NEW i \in Invocations, phase[i] \in {"binding", "foreground", "throwing"}
  PROVE  /\ i \in Foreground /\ Kind[i] = "spawn" /\ Launch[i] = Runtime[i]
         /\ Runtime[i] \in starts[i] /\ Runtime[i] \in Runs /\ runner[Runtime[i]] # "none"
         /\ Runtime[i] \in frames
<1>1. i \in Foreground /\ Runtime[i] \in starts[i]
  BY DEF IInv, RunInv
<1>2. runner[Runtime[i]] # "none"
  BY <1>1 DEF IInv, StartInv
<1>3. Runtime[i] \in frames
  BY <1>1, <1>2 DEF IInv, RunInv
<1>. QED BY <1>1, <1>2, <1>3, OwnIds

LEMMA SettleEmptyMoves ==
  ASSUME IInv, NEW i \in Invocations, NEW r \in Runs, SettleEmpty(i, r),
         \/ phase[i] \in {"called", "throwing"} /\ r = Launch[i]
         \/ phase[i] = "foreground" /\ r = Runtime[i]
  PROVE  Moves /\ Types' /\ PresentInv'
<1>0. phase[i] \in Underway \ {"binding", "reserved"} /\ faults \in 0 .. MaxFaults
  BY DEF Underway, IInv, Types, TypeOK
<1>1. KnownStart(i, r) = NoRun => phase[i] = "called"
  <2>1. phase[i] # "called" => r \in starts[i] /\ NoRun \notin Runs
    BY FrameFacts, OwnIds
  <2>. QED BY <2>1 DEF KnownStart
<1>2. KnownStart(i, r) # NoRun => r = Runtime[i] /\ runner[r] # "none"
  <2>1. CASE phase[i] = "called"
    <3>1. ASSUME r \in starts[i] \cup asyncStarts PROVE FALSE
      <4>1. runner[r] # "none"
        BY <3>1 DEF IInv, StartInv, OursInv
      <4>2. PICK j \in Invocations : r = Runtime[j]
        BY <4>1 DEF IInv, OursInv
      <4>3. r = Runtime[i]
        BY <2>1, <4>2, OwnIds
      <4>. QED BY <2>1, <4>1, <4>3, CalledIsVoid
    <3>. QED BY <3>1 DEF KnownStart
  <2>2. CASE phase[i] # "called"
    BY <2>2, FrameFacts
  <2>. QED BY <2>1, <2>2
<1>3. CASE KnownStart(i, r) = NoRun /\ StartError(i, r) /\ UNCHANGED <<faults, processVars>>
  <2>1. phase[i] = "called" /\ Void(i)
    BY <1>1, <1>3, CalledIsVoid
  <2>2. Void(i)' /\ ProcessMove /\ ProcessesTypeOK'
    BY <1>3, <2>1, ProcessStays
       DEF processVars, Void, WritersOf, IInv, Types, TypeOK, ProcessesTypeOK
  <2>. QED BY <1>0, <1>3, <2>2, NoBindMoves DEF StartError
<1>4. CASE KnownStart(i, r) # NoRun /\ StartError(i, r) /\ Kill({r}) /\ UNCHANGED faults
  <2>1. ProcessMove /\ ProcessesTypeOK' /\ runner'[r] = "gone" /\ WritersOf(r)' = {}
    <3>1. {r} \in SUBSET Runs /\ \A x \in {r} : runner[x] # "none"
      BY <1>2, <1>4
    <3>. QED BY <1>4, <3>1, KillMoves
  <2>2. Void(i)'
    BY <1>2, <1>4, <2>1 DEF Void
  <2>. QED BY <1>0, <1>4, <2>1, <2>2, NoBindMoves DEF StartError
<1>5. CASE /\ KnownStart(i, r) # NoRun
           /\ IF Abortable(r) THEN ~NothingAlive(r) /\ Fault ELSE UNCHANGED faults
           /\ Await(i, Settlement(i, "background-started", TRUE, r, r, {}))
           /\ UNCHANGED processVars
  <2>1. ProcessMove /\ ProcessesTypeOK' /\ runner'[r] # "none"
    BY <1>2, <1>5, ProcessStays DEF processVars, IInv, Types, TypeOK, ProcessesTypeOK
  <2>2. faults' \in 0 .. MaxFaults
    BY <1>0, <1>5, BoundsAssumption DEF Fault
  <2>. QED BY <1>0, <1>2, <1>5, <2>1, <2>2, BindMoves
<1>. QED BY <1>3, <1>4, <1>5 DEF SettleEmpty

LEMMA ReturnMoves ==
  ASSUME IInv, NEW i \in Invocations,
         \/ ReturnStarted(i) \/ ReturnFailed(i) \/ Throw(i)
         \/ ReturnForeground(i) \/ ReturnUnreadable(i) \/ ReturnUnstarted(i)
  PROVE  Moves /\ Types' /\ PresentInv'
<1>0. Launch[i] \in Runs /\ Runtime[i] \in Runs /\ faults \in 0 .. MaxFaults
  BY OwnIds DEF IInv, Types, TypeOK
<1>1. CASE ReturnStarted(i)
  <2>1. phase[i] = "started" /\ runner[Runtime[i]] # "none"
    BY <1>1 DEF ReturnStarted, IInv, RunInv
  <2>2. CASE Fails(i, {Runtime[i]})
    BY <1>0, <2>1, <2>2, FailsMoves
  <2>3. CASE SettleStarted(i) /\ UNCHANGED processVars /\ (UNCHANGED faults \/ Fault)
    <3>1. ProcessMove /\ ProcessesTypeOK' /\ runner'[Runtime[i]] # "none" /\ faults' \in 0 .. MaxFaults
      BY <1>0, <2>1, <2>3, ProcessStays, BoundsAssumption
         DEF processVars, IInv, Types, TypeOK, ProcessesTypeOK, Fault
    <3>2. phase[i] \in Underway \ {"binding", "reserved"}
      BY <2>1 DEF Underway
    <3>. QED BY <1>0, <2>3, <3>1, <3>2, BindMoves DEF SettleStarted
  <2>. QED BY <1>1, <2>2, <2>3 DEF ReturnStarted
<1>2. CASE ReturnFailed(i) \/ Throw(i)
  BY <1>0, <1>2, FailsMoves, SettleEmptyMoves DEF ReturnFailed, Throw
<1>3. CASE ReturnForeground(i)
  <2>0. phase[i] = "foreground" /\ UNCHANGED processVars /\ UNCHANGED faults
    BY <1>3 DEF ReturnForeground
  <2>1. /\ i \in Foreground /\ Runtime[i] \in starts[i]
        /\ runner[Runtime[i]] # "none" /\ Runtime[i] \in frames
    BY <2>0, FrameFacts
  <2>2. PICK over \in SUBSET Nat : over = TerminalChildren(i)
    <3>1. TerminalChildren(i) \in SUBSET Nat
      BY ChildIds DEF TerminalChildren
    <3>. QED BY <3>1
  <2>3. PICK bind \in BOOLEAN : bind = (over # Children(i))
    OBVIOUS
  <2>4. PICK kind \in {"start-error", "background-started", "foreground"} : kind = "foreground"
    OBVIOUS
  <2>5. Await(i, Settlement(i, kind, bind, Runtime[i], Runtime[i], over))
    BY <1>3, <2>1, <2>2, <2>3, <2>4 DEF ReturnForeground, KnownStart
  <2>6. \A k \in over : <<Runtime[i], k>> \in terminal
    BY <2>2 DEF TerminalChildren
  <2>7. phase[i] \in Underway \ {"binding"} /\ phase[i] # "reserved"
    BY <2>0 DEF Underway
  <2>8. ProcessMove /\ ProcessesTypeOK' /\ faults' \in 0 .. MaxFaults /\ runner'[Runtime[i]] # "none"
    BY <1>0, <2>0, <2>1, ProcessStays DEF processVars, IInv, Types, TypeOK, ProcessesTypeOK
  <2>. QED BY <1>0, <2>1, <2>4, <2>5, <2>6, <2>7, <2>8, AwaitMoves
<1>4. CASE ReturnUnreadable(i)
  BY <1>0, <1>4, SettleEmptyMoves DEF ReturnUnreadable
<1>5. CASE ReturnUnstarted(i)
  <2>0. phase[i] = "foreground" /\ StartError(i, Runtime[i]) /\ Kill({Runtime[i]}) /\ UNCHANGED faults
    BY <1>5 DEF ReturnUnstarted
  <2>1. ProcessMove /\ ProcessesTypeOK' /\ runner'[Runtime[i]] = "gone" /\ WritersOf(Runtime[i])' = {}
    <3>1. {Runtime[i]} \in SUBSET Runs /\ \A x \in {Runtime[i]} : runner[x] # "none"
      BY <1>0, <2>0, FrameFacts
    <3>. QED BY <2>0, <3>1, KillMoves
  <2>2. Void(i)' /\ phase[i] \in Underway \ {"binding"} /\ phase[i] # "reserved"
    BY <2>0, <2>1 DEF Void, Underway
  <2>. QED BY <1>0, <2>0, <2>1, <2>2, NoBindMoves DEF StartError
<1>. QED BY <1>1, <1>2, <1>3, <1>4, <1>5

-----------------------------------------------------------------------------
(* A reservation is granted, and kept or given back *)

\* What both kinds of reservation put into the ledger and the invocation.
Grants(i, new) ==
  /\ \A h \in new :
       /\ issued <= h.token /\ h.token < issued' /\ h.proc = host /\ h.run = Launch[i]
       /\ \E k \in Children(i) : h.id = AgentOf(i, k) /\ (Kind[i] = "spawn" => h.index = k)
  /\ \A h, g \in new : h.id = g.id => h = g
  /\ \A k \in Children(i) : \E h \in new : h.id = AgentOf(i, k)

LEMMA SpawnGrants ==
  ASSUME IInv, NEW i \in Invocations, Kind[i] = "spawn", ReserveSpawn(i), issued' = issued + Size[i]
  PROVE  \E new \in SUBSET Lease :
           /\ ledger'.leases = ledger.leases \cup new /\ held' = [held EXCEPT ![i] = new]
           /\ Sound(ledger)' /\ Grants(i, new)
<1>1. PICK new : new = SpawnedLeases(<<>>, Launch[i], Size[i], issued, host, 0)
  OBVIOUS
<1>2. /\ Sound(ledger) /\ issued \in Nat /\ host \in Procs /\ Launch[i] \in Runs /\ Size[i] \in Nat
      /\ ledger.limits \in Limits /\ ledger.limits.maxDepth <= ledger.limits.maxDepth
      /\ ledger.limits.maxRunning <= ledger.limits.maxRunning /\ <<>> \in Path
  <2>1. ledger.limits \in Limits
    BY DEF IInv, Types, TypeOK, Ledger
  <2>2. <<>> \in Path
    BY DEF Path
  <2>. QED BY <2>1, <2>2, OwnIds, HostIsNoRun DEF IInv, Types, TypeOK, Limits
<1>3. Sound(ledger)' /\ new \subseteq Lease
  <2>1. SpawnAllowed(ledger, <<>>, ledger.limits, Launch[i], Size[i])
        /\ ledger' = AfterSpawn(ledger, <<>>, ledger.limits, Launch[i], Size[i], issued, host, 0)
    BY DEF ReserveSpawn
  <2>2. Sound(AfterSpawn(ledger, <<>>, ledger.limits, Launch[i], Size[i], issued, host, 0))
        /\ SpawnedLeases(<<>>, Launch[i], Size[i], issued, host, 0) \subseteq Lease
    BY <1>2, <2>1, SpawnSound
  <2>. QED BY <1>1, <2>1, <2>2
<1>4. ledger'.leases = ledger.leases \cup new /\ held' = [held EXCEPT ![i] = new]
  BY <1>1, <1>2 DEF ReserveSpawn, AfterSpawn, Sound, Ledger
<1>5. /\ \A h \in new : \E k \in Children(i) :
           /\ h.id = <<Launch[i], k>> /\ h.run = Launch[i] /\ h.index = k
           /\ h.token = issued + k /\ h.proc = host
      /\ \A h, g \in new : h.id = g.id => h = g
      /\ \A k \in Children(i) : \E h \in new : h.id = <<Launch[i], k>>
  <2>1. ASSUME NEW h \in new
        PROVE  \E k \in Children(i) :
                 /\ h.id = <<Launch[i], k>> /\ h.run = Launch[i] /\ h.index = k
                 /\ h.token = issued + k /\ h.proc = host
                 /\ h = [id |-> <<Launch[i], k>>, run |-> Launch[i], index |-> k,
                         token |-> issued + k, owner |-> <<>>, proc |-> host,
                         mode |-> "spawn", at |-> 0]
    BY <1>1 DEF SpawnedLeases, Children
  <2>2. ASSUME NEW h \in new, NEW g \in new, h.id = g.id PROVE h = g
    <3>1. h.index = h.id[2] /\ g.index = g.id[2]
      BY <2>1
    <3>. QED BY <2>1, <2>2, <3>1
  <2>3. ASSUME NEW k \in Children(i) PROVE \E h \in new : h.id = <<Launch[i], k>>
    <3> DEFINE h == [id |-> <<Launch[i], k>>, run |-> Launch[i], index |-> k,
                     token |-> issued + k, owner |-> <<>>, proc |-> host,
                     mode |-> "spawn", at |-> 0]
    <3>1. h \in new
      BY <1>1 DEF SpawnedLeases, Children
    <3>2. h.id = <<Launch[i], k>>
      OBVIOUS
    <3>. QED BY <3>1, <3>2
  <2>. QED BY <2>1, <2>2, <2>3
<1>6. Grants(i, new)
  <2>1. \A k \in Children(i) : /\ k \in Nat /\ k < Size[i] /\ issued <= issued + k
                               /\ issued + k < issued + Size[i] /\ AgentOf(i, k) = <<Launch[i], k>>
    BY <1>2 DEF AgentOf, Children
  <2>. QED BY <1>5, <2>1 DEF Grants
<1>. QED BY <1>3, <1>4, <1>6

LEMMA ResumeGrants ==
  ASSUME IInv, NEW i \in Invocations, Kind[i] = "resume", ReserveResume(i), issued' = issued + Size[i]
  PROVE  \E new \in SUBSET Lease :
           /\ ledger'.leases = ledger.leases \cup new /\ held' = [held EXCEPT ![i] = new]
           /\ Sound(ledger)' /\ Grants(i, new)
<1>1. PICK a \in ledger.agents :
        /\ a.id = Target[i]
        /\ ResumeAllowed(ledger, <<>>, ledger.limits, a, Launch[i], FALSE)
        /\ ledger' = AfterResume(ledger, a, Launch[i], issued, host, 0)
        /\ held' = [held EXCEPT ![i] = {ResumedLease(a, Launch[i], issued, host, 0)}]
  BY DEF ReserveResume
<1>2. /\ Sound(ledger) /\ issued \in Nat /\ host \in Procs /\ Launch[i] \in Runs /\ Size[i] = 1
      /\ ledger.limits \in Limits /\ ledger.limits.maxRunning <= ledger.limits.maxRunning
      /\ <<>> \in Path
  <2>1. ledger.limits \in Limits
    BY DEF IInv, Types, TypeOK, Ledger
  <2>2. <<>> \in Path
    BY DEF Path
  <2>. QED BY <2>1, <2>2, OwnIds, HostIsNoRun DEF IInv, Types, TypeOK, Limits
<1>3. Sound(ledger)' /\ ResumedLease(a, Launch[i], issued, host, 0) \in Lease
  <2>1. /\ Sound(AfterResume(ledger, a, Launch[i], issued, host, 0))
        /\ ResumedLease(a, Launch[i], issued, host, 0) \in Lease
    <3>1. PICK no \in BOOLEAN : no = FALSE
      OBVIOUS
    <3>2. ResumeAllowed(ledger, <<>>, ledger.limits, a, Launch[i], no)
      BY <1>1, <3>1
    <3>. QED BY <1>2, <3>2, ResumeSound
  <2>. QED BY <1>1, <2>1
<1>4. PICK h : h = ResumedLease(a, Launch[i], issued, host, 0)
  OBVIOUS
<1>5. /\ h.id = Target[i] /\ h.run = Launch[i] /\ h.token = issued /\ h.proc = host
  BY <1>1, <1>4 DEF ResumedLease
<1>6. ledger'.leases = ledger.leases \cup {h}
  BY <1>1, <1>2, <1>4 DEF AfterResume, Sound, Ledger
<1>7. Grants(i, {h})
  <2>1. Children(i) = {0} /\ AgentOf(i, 0) = Target[i]
    BY <1>2 DEF Children, AgentOf
  <2>. QED BY <1>2, <1>5, <2>1 DEF Grants
<1>8. {h} \in SUBSET Lease
  BY <1>3, <1>4
<1>. QED BY <1>1, <1>3, <1>4, <1>6, <1>7, <1>8

LEMMA PrepareReserveMoves ==
  ASSUME IInv, NEW i \in Invocations, PrepareReserve(i)
  PROVE  Moves /\ Types' /\ PresentInv'
<1>0. /\ phase[i] = "reclaimed" /\ Goto(i, "reserved") /\ issued' = issued + Size[i]
      /\ UNCHANGED <<generation, bornIn, starts, active, asyncStarts, bindings, pending,
                     completions, reported, observed, faults>>
      /\ UNCHANGED processVars
  BY DEF PrepareReserve, startVars, reports, ends
<1>1. PICK new \in SUBSET Lease :
           /\ ledger'.leases = ledger.leases \cup new /\ held' = [held EXCEPT ![i] = new]
           /\ Sound(ledger)' /\ Grants(i, new)
  <2>1. CASE Kind[i] = "spawn"
    BY <1>0, <2>1, SpawnGrants DEF PrepareReserve
  <2>2. CASE Kind[i] = "resume"
    BY <1>0, <2>2, ResumeGrants DEF PrepareReserve
  <2>. QED BY <2>1, <2>2, OwnIds
<1>2. /\ phase' \in [Invocations -> Phases] /\ phase'[i] = "reserved"
      /\ \A j \in Invocations \ {i} : phase'[j] = phase[j]
      /\ Passage(i) => PhaseMove
  BY <1>0, PhaseGoes DEF Phases
<1>3. /\ held' \in [Invocations -> SUBSET Lease] /\ held'[i] = new
      /\ \A j \in Invocations \ {i} : held'[j] = held[j]
      /\ issued \in Nat /\ issued' \in Nat /\ issued <= issued' /\ host' = host
  BY <1>0, <1>1, OwnIds DEF IInv, Types, TypeOK, processVars
<1>4. Reserves(i)
  <2>1. HeldAll(i)'
    BY <1>1, <1>3 DEF HeldAll, Grants
  <2>2. ASSUME NEW k \in Children(i), NEW h \in new, NEW l \in Current(ledger, h)', h.id = AgentOf(i, k)
        PROVE  Unbound(i, k, l)'
    <3>1. l \in ledger'.leases /\ l.id = h.id /\ l.token = h.token
      BY <2>2 DEF Current
    <3>2. issued <= l.token /\ l.token \in Nat
      BY <1>1, <3>1 DEF Grants, Lease
    <3>3. l \notin ledger.leases
      BY <1>3, <3>2 DEF IInv, LeaseInv
    <3>4. l \in new
      BY <1>1, <3>1, <3>3
    <3>5. PICK m \in Children(i) : l.id = AgentOf(i, m) /\ (Kind[i] = "spawn" => l.index = m)
      BY <1>1, <3>4 DEF Grants
    <3>6. k = m
      BY <2>2, <3>1, <3>5, ChildIds
    <3>. QED BY <1>1, <1>3, <3>4, <3>5, <3>6 DEF Unbound, Grants
  <2>3. \A h \in new : issued <= h.token /\ h.token < issued' /\ \E k \in Children(i) : h.id = AgentOf(i, k)
    BY <1>1 DEF Grants
  <2>4. \A h, g \in new : h.id = g.id => h = g
    BY <1>1 DEF Grants
  <2>. QED BY <1>0, <1>2, <1>3, <2>1, <2>2, <2>3, <2>4 DEF Reserves
<1>5. HeldMove
  <2>1. \A j \in Invocations \ {i} : ~Reserves(j)
    BY <1>2 DEF Reserves
  <2>. QED BY <1>3, <1>4, <2>1 DEF HeldMove
<1>6. PhaseMove
  BY <1>0, <1>2, <1>4 DEF Passage
<1>7. LedgerMove
  BY <1>1, <1>3 DEF LedgerMove, Grants
<1>8. /\ ProcessMove /\ StartsMove /\ BindingMove /\ PendingMove /\ CompletionMove /\ ObservedMove
  BY <1>0, <1>2, ProcessStays, StartsStay, BindingsStay, PendingStays, CompletionsStay, ObservedStays
<1>9. Types'
  BY <1>0, <1>1, <1>2, <1>3 DEF IInv, Types, TypeOK, ProcessesTypeOK, processVars, Sound
<1>10. PresentInv'
  BY <1>0, <1>2, PresentStays
<1>. QED BY <1>5, <1>6, <1>7, <1>8, <1>9, <1>10 DEF Moves

LEMMA PrepareReturnMoves ==
  ASSUME IInv, NEW i \in Invocations, PrepareReturn(i)
  PROVE  Moves /\ Types' /\ PresentInv'
<1>0. /\ phase[i] = "reserved"
      /\ UNCHANGED <<ledger, issued, generation, bornIn, held, starts, asyncStarts, bindings,
                     completions, reported, observed, faults>>
      /\ UNCHANGED processVars
  BY DEF PrepareReturn, launchVars, reports, ends
<1>1. CASE Goto(i, "called") /\ active' = active \cup {i} /\ UNCHANGED pending
  <2>1. /\ phase' \in [Invocations -> Phases] /\ phase'[i] = "called"
        /\ \A j \in Invocations \ {i} : phase'[j] = phase[j]
        /\ Passage(i) => PhaseMove
    BY <1>1, PhaseGoes DEF Phases
  <2>2. PhaseMove
    BY <1>0, <2>1 DEF Passage
  <2>3. /\ ProcessMove /\ LedgerMove /\ HeldMove /\ StartsMove /\ BindingMove /\ PendingMove
        /\ CompletionMove /\ ObservedMove
    BY <1>0, <1>1, <2>1, ProcessStays, LedgerStays, HeldStays, StartsStay, BindingsStay,
       PendingStays, CompletionsStay, ObservedStays
  <2>4. active' \subseteq Invocations /\ IsFiniteSet(active')
    BY <1>1, FS_AddElement DEF IInv, Types, TypeOK
  <2>5. Types'
    BY <1>0, <1>1, <2>1, <2>4 DEF IInv, Types, TypeOK, ProcessesTypeOK, processVars
  <2>6. PresentInv'
    BY <1>0, <1>1, <2>1 DEF IInv, PresentInv, BoundHere
  <2>. QED BY <2>2, <2>3, <2>5, <2>6 DEF Moves
<1>2. CASE /\ pending' = pending \cup {Settlement(i, "start-error", FALSE, Launch[i], NoRun, {})}
           /\ Goto(i, "returned") /\ UNCHANGED active
  <2>1. Await(i, Settlement(i, "start-error", FALSE, Launch[i], NoRun, {}))
    BY <1>0, <1>2 DEF Await, launchVars, startVars, reports
  <2>2. Void(i) /\ runner[Runtime[i]] = "none"
    BY <1>0, CalledIsVoid
  <2>3. Void(i)' /\ runner'[Runtime[i]] = "none" /\ ProcessMove /\ ProcessesTypeOK'
    BY <1>0, <2>2, ProcessStays
       DEF processVars, Void, WritersOf, IInv, Types, TypeOK, ProcessesTypeOK
  <2>4. phase[i] \in Underway \ {"binding"} /\ faults' \in 0 .. MaxFaults /\ Launch[i] \in Runs
    BY <1>0, OwnIds DEF Underway, IInv, Types, TypeOK
  <2>. QED BY <2>1, <2>3, <2>4, NoBindMoves
<1>. QED BY <1>1, <1>2 DEF PrepareReturn

-----------------------------------------------------------------------------
(* A run starts *)

\* Whom observeAsyncStarted takes a start for.
LEMMA StartFacts ==
  ASSUME IInv, NEW j \in Invocations, phase[j] = "called", BoundHere
  PROVE  /\ \A i \in Candidates(Runtime[j]) \cup StartOwner(Runtime[j]) :
              i \in Invocations /\ (j # i => BothResume(i, j))
         /\ StartOwner(Runtime[j]) \subseteq {j}
         /\ j \in Foreground => StartOwner(Runtime[j]) = {j}
<1> DEFINE r == Runtime[j]
           exact == {i \in active : Launch[i] = r}
<1>1. /\ exact \subseteq {j} /\ active \subseteq Invocations
      /\ (Foreground # {} \/ \E i \in Invocations : Kind[i] = "resume") => j \in active
      /\ Kind[j] = "spawn" => Launch[j] = r
      /\ Kind[j] \in {"spawn", "resume"} /\ (j \in Foreground => Kind[j] = "spawn")
  BY OwnIds DEF IInv, Types, TypeOK, PresentInv
<1>2. /\ Candidates(r) = IF exact # {} THEN {} ELSE {i \in active : Kind[i] = "resume"}
      /\ StartOwner(r) = IF exact # {} THEN exact
                         ELSE IF Cardinality(Candidates(r)) = 1 THEN Candidates(r) ELSE {}
  BY DEF Candidates, StartOwner
<1>. HIDE DEF exact
<1>3. exact # {} => exact = {j}
  BY <1>1
<1>4. Candidates(r) # {} => Kind[j] = "resume" /\ j \in Candidates(r)
  <2>. SUFFICES ASSUME NEW i \in Candidates(r) PROVE Kind[j] = "resume" /\ j \in Candidates(r)
    OBVIOUS
  <2>1. exact = {} /\ i \in active /\ Kind[i] = "resume" /\ i \in Invocations
    BY <1>1, <1>2
  <2>2. j \in active
    BY <1>1, <2>1
  <2>3. Kind[j] # "spawn"
    BY <1>1, <2>1, <2>2 DEF exact
  <2>. QED BY <1>1, <1>2, <2>1, <2>2, <2>3
<1>5. \A i \in Candidates(r) : i \in Invocations /\ BothResume(i, j)
  BY <1>1, <1>2, <1>4 DEF BothResume
<1>6. Cardinality(Candidates(r)) = 1 => Candidates(r) = {j}
  <2>. SUFFICES ASSUME Cardinality(Candidates(r)) = 1 PROVE Candidates(r) = {j}
    OBVIOUS
  <2>1. IsFiniteSet(Candidates(r))
    <3>1. Candidates(r) \subseteq active /\ IsFiniteSet(active)
      BY <1>2 DEF IInv, Types
    <3>. QED BY <3>1, FS_Subset
  <2>2. PICK x : Candidates(r) = {x}
    BY <2>1, FS_Singleton
  <2>. QED BY <1>4, <2>2
<1>7. j \in Foreground => exact = {j}
  BY <1>1, <1>3 DEF exact
<1>. HIDE DEF r
<1>8. /\ \A i \in Candidates(r) \cup StartOwner(r) : i \in Invocations /\ (j # i => BothResume(i, j))
      /\ StartOwner(r) \subseteq {j}
      /\ j \in Foreground => StartOwner(r) = {j}
  BY <1>2, <1>3, <1>5, <1>6, <1>7
<1>. QED BY <1>8 DEF r

LEMMA ObservedStartMoves ==
  ASSUME IInv, NEW j \in Invocations, phase[j] = "called", BoundHere,
         ObserveAsyncStarted(j, Runtime[j]), runner'[Runtime[j]] # "none",
         UNCHANGED held,
         phase'[j] \in {"started", "binding"}
  PROVE  /\ StartsMove /\ BindingMove /\ bindings' \subseteq Binding
         /\ starts' \in [Invocations -> SUBSET Runs] /\ asyncStarts' \subseteq Runs
         /\ \A b \in bindings' : b \in bindings \/ b.next = 0
         /\ j \in Foreground => Runtime[j] \in starts'[j] /\ \E b \in bindings' : b.by = j
<1> DEFINE r == Runtime[j]
<1>0. /\ r \in Runs /\ starts \in [Invocations -> SUBSET Runs] /\ asyncStarts \subseteq Runs
      /\ held' = held /\ HeldAll(j)
  BY OwnIds DEF IInv, Types, TypeOK, HeldInv, Underway
<1>1. /\ \A i \in Candidates(r) \cup StartOwner(r) : i \in Invocations /\ (j # i => BothResume(i, j))
      /\ StartOwner(r) \subseteq {j}
      /\ j \in Foreground => StartOwner(r) = {j}
  BY StartFacts
<1>2. /\ asyncStarts' = asyncStarts \cup {r}
      /\ \A i \in Invocations : starts'[i] = IF i \in Candidates(r) \cup StartOwner(r)
                                             THEN starts[i] \cup {r} ELSE starts[i]
      /\ starts' \in [Invocations -> SUBSET Runs]
  BY <1>0 DEF ObserveAsyncStarted
<1>3. \A b \in bindings' : b \in bindings \/
        (/\ b.by = j /\ b.inv = j /\ b.run = r /\ b.next = 0 /\ b \in Binding /\ j \in StartOwner(r))
  <2>1. bindings' = bindings \cup {[by |-> j, inv |-> o, run |-> r, next |-> 0] : o \in StartOwner(r)}
    BY DEF ObserveAsyncStarted
  <2>2. ASSUME NEW b \in {[by |-> j, inv |-> o, run |-> r, next |-> 0] : o \in StartOwner(r)}
        PROVE  b.by = j /\ b.inv = j /\ b.run = r /\ b.next = 0 /\ b \in Binding /\ j \in StartOwner(r)
    <3>1. b = [by |-> j, inv |-> j, run |-> r, next |-> 0] /\ j \in StartOwner(r)
      BY <1>1, <2>2
    <3>2. b \in Binding
      BY <1>0, <3>1 DEF Binding
    <3>. QED BY <3>1, <3>2
  <2>. QED BY <2>1, <2>2
<1>4. j \in Foreground => r \in starts'[j] /\ \E b \in bindings' : b.by = j
  <2>1. ASSUME j \in Foreground PROVE [by |-> j, inv |-> j, run |-> r, next |-> 0] \in bindings'
    BY <1>1, <2>1 DEF ObserveAsyncStarted
  <2>2. [by |-> j, inv |-> j, run |-> r, next |-> 0].by = j
    OBVIOUS
  <2>. QED BY <1>1, <1>2, <2>1, <2>2
<1>. HIDE DEF r
<1>5. StartsMove
  <2>1. ASSUME NEW i \in Invocations
        PROVE  /\ IsFiniteSet(starts'[i]) /\ starts[i] \subseteq starts'[i]
               /\ \A q \in starts'[i] \ starts[i] :
                    /\ runner'[q] # "none"
                    /\ \E m \in Invocations : q = Runtime[m] /\ (m # i => BothResume(i, m))
    <3>1. IsFiniteSet(starts[i]) /\ IsFiniteSet(starts[i] \cup {r})
      BY FS_AddElement DEF IInv, StartInv
    <3>2. IsFiniteSet(starts'[i]) /\ starts[i] \subseteq starts'[i]
      BY <1>2, <3>1
    <3>3. ASSUME NEW q \in starts'[i] \ starts[i]
          PROVE  q = r /\ i \in Candidates(r) \cup StartOwner(r)
      BY <1>2, <3>3
    <3>. QED BY <1>1, <3>2, <3>3 DEF r
  <2>2. \A q \in asyncStarts' \ asyncStarts : runner'[q] # "none"
    BY <1>2 DEF r
  <2>. QED BY <2>1, <2>2 DEF StartsMove
<1>6. BindingMove
  <2>1. ASSUME NEW b \in bindings', b \notin bindings PROVE BindingOK(b)' /\ b.inv = j /\ b.run = r
    <3>1. b.by = j /\ b.inv = j /\ b.run = r /\ b.next = 0 /\ j \in StartOwner(r)
      BY <1>3, <2>1
    <3>2. r \in starts'[j] /\ HeldAll(j)'
      BY <1>0, <1>2, <3>1 DEF HeldAll
    <3>3. \A k \in Children(j) : ~(k < 0)
      BY DEF Children
    <3>. QED BY <3>1, <3>2, <3>3 DEF BindingOK, r
  <2>2. bindings \subseteq bindings'
    BY DEF ObserveAsyncStarted
  <2>. QED BY <2>1, <2>2 DEF BindingMove, r
<1>7. bindings' \subseteq Binding /\ \A b \in bindings' : b \in bindings \/ b.next = 0
  BY <1>3 DEF IInv, Types
<1>. QED BY <1>0, <1>2, <1>4, <1>5, <1>6, <1>7 DEF r

LEMMA StartMoves ==
  ASSUME IInv, NoStraggler, NEW i \in Invocations, StartBackground(i) \/ StartForeground(i)
  PROVE  Moves /\ Types' /\ PresentInv'
<1> DEFINE r == Runtime[i]
<1>0. /\ phase[i] = "called"
      /\ UNCHANGED <<ledger, issued, generation, bornIn, held, active, pending, completions,
                     reported, observed, faults, host, dead, writers, terminal, opened, aborted>>
  BY DEF StartBackground, StartForeground, launchVars, reports
<1>1. /\ r \in Runs /\ runner[r] = "none" /\ runner \in [Runs -> RunnerState] /\ frames \subseteq Runs
      /\ \A j \in Invocations : Runtime[j] = r => j = i
  BY <1>0, OwnIds, CalledIsVoid DEF IInv, Types, TypeOK, ProcessesTypeOK
<1>2. PICK to \in {"started", "binding"} :
        /\ Goto(i, to)
        /\ IF to = "started" THEN i \notin Foreground /\ frames' = frames
           ELSE i \in Foreground /\ frames' = frames \cup {r}
        /\ \E state \in {"gated", "doomed"} :
             runner' = [runner EXCEPT ![r] = state] /\ (to = "binding" => state = "gated")
        /\ \/ BoundHere /\ ObserveAsyncStarted(i, r)
           \/ to = "started" /\ UNCHANGED <<asyncStarts, starts, bindings>>
  <2>1. CASE StartBackground(i)
    BY <2>1 DEF StartBackground
  <2>2. CASE StartForeground(i)
    <3>1. BoundHere
      <4>1. i \in Foreground
        BY <2>2 DEF StartForeground
      <4>2. generation = 0
        BY <4>1 DEF NoStraggler, IInv, PresentInv
      <4>. QED BY <4>2 DEF BoundHere
    <3>. QED BY <2>2, <3>1 DEF StartForeground
  <2>. QED BY <2>1, <2>2
<1>3. /\ runner' \in [Runs -> RunnerState] /\ runner'[r] \in {"gated", "doomed"}
      /\ to = "binding" => runner'[r] = "gated" /\ i \in Foreground /\ r \in frames'
      /\ to = "started" => i \notin Foreground
      /\ \A q \in Runs \ {r} : runner'[q] = runner[q]
      /\ frames' \subseteq Runs /\ frames \subseteq frames'
      /\ \A q \in frames' \ frames : q = r /\ to = "binding"
  BY <1>1, <1>2 DEF RunnerState
<1>4. /\ phase' \in [Invocations -> Phases] /\ phase'[i] = to
      /\ \A j \in Invocations \ {i} : phase'[j] = phase[j]
      /\ Passage(i) => PhaseMove
  <2>1. to \in Phases /\ Goto(i, to)
    BY <1>2 DEF Phases
  <2>. QED BY <2>1, PhaseGoes
<1>5. ProcessMove /\ ProcessesTypeOK'
  <2>1. RunnerMove(r)
    BY <1>0, <1>1, <1>3, <1>4 DEF RunnerMove
  <2>2. \A q \in Runs : RunnerMove(q)
    BY <1>3, <2>1 DEF RunnerMove
  <2>. QED BY <1>0, <1>3, <2>2 DEF ProcessMove, ProcessesTypeOK, IInv, Types, TypeOK
<1>6. /\ StartsMove /\ BindingMove /\ bindings' \subseteq Binding
      /\ starts' \in [Invocations -> SUBSET Runs] /\ asyncStarts' \subseteq Runs
      /\ \A b \in bindings' : b \in bindings \/ b.next = 0
      /\ to = "binding" => r \in starts'[i] /\ \E b \in bindings' : b.by = i
  <2>1. CASE BoundHere /\ ObserveAsyncStarted(i, r)
    <3>1. runner'[r] # "none" /\ phase'[i] \in {"started", "binding"}
      BY <1>3, <1>4
    <3>. QED BY <1>0, <1>3, <2>1, <3>1, ObservedStartMoves
  <2>2. CASE to = "started" /\ UNCHANGED <<asyncStarts, starts, bindings>>
    BY <2>2, StartsStay, BindingsStay DEF IInv, Types, TypeOK
  <2>. QED BY <1>2, <2>1, <2>2
<1>7. PhaseMove
  <2>1. Begins(i)
    BY <1>3, <1>4, <1>6 DEF Begins
  <2>. QED BY <1>0, <1>4, <2>1 DEF Passage
<1>8. /\ LedgerMove /\ HeldMove /\ PendingMove /\ CompletionMove /\ ObservedMove
  BY <1>0, <1>4, LedgerStays, HeldStays, PendingStays, CompletionsStay, ObservedStays
<1>9. Types'
  <2>1. ASSUME NEW b \in bindings' PROVE b.next \in 0 .. Size[b.inv] /\ b.run \in Runs
    <3>1. b \in Binding /\ (b \in bindings => b.next \in 0 .. Size[b.inv])
      BY <1>6 DEF IInv, Types, TypeOK
    <3>2. 0 \in 0 .. Size[b.inv]
      BY <3>1, OwnIds DEF Binding
    <3>. QED BY <1>6, <3>1, <3>2 DEF Binding
  <2>2. TypeOK'
    BY <1>0, <1>4, <1>5, <1>6, <2>1 DEF IInv, Types, TypeOK
  <2>. QED BY <1>0, <1>6, <2>2 DEF IInv, Types
<1>10. PresentInv'
  BY <1>0, <1>4, PresentStays
<1>. QED BY <1>5, <1>6, <1>7, <1>8, <1>9, <1>10 DEF Moves

-----------------------------------------------------------------------------
(* The gate, and the start events *)

LEMMA RunForegroundMoves ==
  ASSUME IInv, NEW i \in Invocations, RunForeground(i)
  PROVE  Moves /\ Types' /\ PresentInv'
<1>0. /\ phase[i] = "binding" /\ Goto(i, "foreground") /\ OpenGate(Runtime[i])
      /\ \A b \in bindings : b.by # i
      /\ UNCHANGED <<ledger, issued, generation, bornIn, held, starts, active, asyncStarts, bindings,
                     pending, completions, reported, observed, faults>>
  BY DEF RunForeground, launchVars, startVars, reports
<1>1. /\ phase' \in [Invocations -> Phases] /\ phase'[i] = "foreground"
      /\ \A j \in Invocations \ {i} : phase'[j] = phase[j]
      /\ Passage(i) => PhaseMove
  BY <1>0, PhaseGoes DEF Phases
<1>2. ProcessMove /\ ProcessesTypeOK' /\ terminal' = terminal
  <2>1. Runtime[i] \in Runs /\ \A j \in Invocations : Runtime[j] = Runtime[i] => j = i
    BY OwnIds
  <2>2. runner[Runtime[i]] = "gated" => MayOpen(Runtime[i])
    BY <1>0, <2>1 DEF MayOpen
  <2>3. runner[Runtime[i]] = "gated" => \A k \in Children(i) : Bound(Runtime[i], k)
    BY <1>0, <2>2 DEF IInv, CoverInv
  <2>. QED BY <1>0, <1>1, <2>1, <2>2, <2>3, GateMoves
<1>3. /\ PhaseMove /\ LedgerMove /\ HeldMove /\ StartsMove /\ BindingMove /\ PendingMove
      /\ CompletionMove /\ ObservedMove
  BY <1>0, <1>1, LedgerStays, HeldStays, StartsStay, BindingsStay, PendingStays, CompletionsStay,
     ObservedStays DEF Passage
<1>4. Types'
  BY <1>0, <1>1, <1>2 DEF IInv, Types, TypeOK
<1>5. PresentInv'
  BY <1>0, <1>1, PresentStays
<1>. QED BY <1>2, <1>3, <1>4, <1>5 DEF Moves

\* acknowledgeStart for a run, all of whose children are bound if it may open.
LEMMA AcknowledgeMoves ==
  ASSUME IInv, NEW i \in Invocations, NEW r \in Runs, r = Runtime[i], Acknowledge(r),
         MayOpen(r) => \A k \in Children(i) : Bound(r, k)
  PROVE  ProcessMove /\ ProcessesTypeOK' /\ terminal' = terminal
<1>1. CASE r \notin frames /\ OpenGate(r)
  <2>1. \A j \in Invocations : Runtime[j] = r => j = i
    BY OwnIds
  <2>2. runner[r] = "gated" => i \notin Foreground
    BY <1>1 DEF IInv, RunInv
  <2>3. runner[r] = "gated" => MayOpen(r)
    BY <2>1, <2>2 DEF MayOpen
  <2>. QED BY <1>1, <2>1, <2>2, <2>3, GateMoves
<1>2. CASE UNCHANGED processVars
  BY <1>2, ProcessStays DEF processVars, IInv, Types, TypeOK, ProcessesTypeOK
<1>. QED BY <1>1, <1>2 DEF Acknowledge

LEMMA AcknowledgeStartedMoves ==
  ASSUME IInv, NEW b \in bindings, AcknowledgeStarted(b)
  PROVE  Moves /\ Types' /\ PresentInv'
<1>0. /\ AllBound(b.inv, b.next) /\ Acknowledge(b.run) /\ completions' = Arm(CompletionsOf(b.inv, b.run))
      /\ bindings' = bindings \ {b}
      /\ UNCHANGED <<ledger, issued, generation, bornIn, held, phase, starts, active, asyncStarts,
                     pending, observed, reported, faults>>
  BY DEF AcknowledgeStarted, launchVars, startVars
<1>1. b \in Binding /\ BindingOK(b)
  BY DEF IInv, Types
<1>2. /\ b.inv \in Invocations /\ b.run \in Runs /\ b.run = Runtime[b.inv] /\ b.by = b.inv
      /\ MayOpen(b.run) => \A k \in Children(b.inv) : Bound(b.run, k)
  <2>1. b.inv \in Invocations /\ b.run \in Runs /\ b.next = Size[b.inv]
    BY <1>0, <1>1 DEF Binding, AllBound
  <2>2. \A k \in Children(b.inv) : k < b.next
    BY <2>1, ChildIds
  <2>. QED BY <1>1, <2>1, <2>2 DEF BindingOK
<1>3. ProcessMove /\ ProcessesTypeOK' /\ terminal' = terminal
  BY <1>0, <1>2, AcknowledgeMoves
<1>4. CompletionMove /\ completions' \subseteq CompletionType
  BY <1>0, ArmedAgain DEF Arm
<1>5. BindingMove
  BY <1>0, <1>2 DEF BindingMove
<1>6. /\ PhaseMove /\ LedgerMove /\ HeldMove /\ StartsMove /\ PendingMove /\ ObservedMove
  BY <1>0, PhaseStays, LedgerStays, HeldStays, StartsStay, PendingStays, ObservedStays
<1>7. Types'
  BY <1>0, <1>3, <1>4 DEF IInv, Types, TypeOK, CompletionType
<1>8. PresentInv'
  BY <1>0, PresentStays
<1>. QED BY <1>3, <1>4, <1>5, <1>6, <1>7, <1>8 DEF Moves

LEMMA StartedFailsMoves ==
  ASSUME IInv, NEW b \in bindings, StartedFails(b)
  PROVE  Moves /\ Types' /\ PresentInv'
<1>0. /\ bindings' = bindings \ {b} /\ (UNCHANGED faults \/ Fault)
      /\ UNCHANGED <<ledger, issued, generation, bornIn, held, starts, active, asyncStarts, pending,
                     completions, reported, observed>>
      /\ UNCHANGED processVars
  BY DEF StartedFails, launchVars, startVars, reports
<1>1. b.by \in Invocations
  BY DEF IInv, Types, Binding
<1>2. /\ phase' \in [Invocations -> Phases] /\ PhaseMove
      /\ \A j \in Invocations : phase'[j] # phase[j] => phase[j] = "binding" /\ phase'[j] = "throwing"
      /\ phase[b.by] = "binding" => phase'[b.by] = "throwing"
  <2>1. CASE phase[b.by] = "binding" /\ Goto(b.by, "throwing")
    <3>1. /\ phase' \in [Invocations -> Phases] /\ phase'[b.by] = "throwing"
          /\ \A j \in Invocations \ {b.by} : phase'[j] = phase[j]
          /\ Passage(b.by) => PhaseMove
      BY <1>1, <2>1, PhaseGoes DEF Phases
    <3>. QED BY <2>1, <3>1 DEF Passage
  <2>2. CASE phase[b.by] # "binding" /\ UNCHANGED phase
    BY <2>2, PhaseStays DEF IInv, Types, TypeOK
  <2>. QED BY <2>1, <2>2 DEF StartedFails
<1>3. BindingMove
  <2>1. ASSUME NEW i \in Invocations, phase[i] = "binding", phase'[i] = "binding", \A c \in bindings' : c.by # i
        PROVE  \A c \in bindings : c.by # i
    BY <1>0, <1>2, <2>1
  <2>. QED BY <1>0, <2>1 DEF BindingMove
<1>4. /\ ProcessMove /\ LedgerMove /\ HeldMove /\ StartsMove /\ PendingMove /\ CompletionMove
      /\ ObservedMove
  BY <1>0, <1>2, ProcessStays, LedgerStays, HeldStays, StartsStay, PendingStays, CompletionsStay,
     ObservedStays
<1>5. Types'
  <2>1. faults' \in 0 .. MaxFaults
    BY <1>0, BoundsAssumption DEF Fault, IInv, Types, TypeOK
  <2>. QED BY <1>0, <1>2, <2>1 DEF IInv, Types, TypeOK, ProcessesTypeOK, processVars
<1>6. PresentInv'
  BY <1>0, <1>2, PresentStays
<1>. QED BY <1>2, <1>3, <1>4, <1>5, <1>6 DEF Moves

-----------------------------------------------------------------------------
(* The attempts of a settlement *)

\* A settlement goes on: it comes to another step of the same attempt, or of a new one.
LEMMA AdvanceMoves ==
  ASSUME IInv, NEW p \in pending, NEW q \in SettlementType, pending' = (pending \ {p}) \cup {q},
         UNCHANGED <<phase, bindings>>, ProcessMove,
         q.inv = p.inv, q.owned = p.owned, q.kind = p.kind, q.bind = p.bind, q.run = p.run,
         q.start = p.start, q.terminalChildren = p.terminalChildren, q.next \in Children(p.inv),
         q.at # "settle" => q.bind,
         q.at = "rejected" => WritersOf(p.run)' = {} /\ runner'[p.run] = "gone",
         q.bind /\ MayOpen(p.run)' =>
           /\ q.at = "bind" => \A k \in Children(p.inv) : k < q.next => Bound(p.run, k)'
           /\ q.at = "acknowledge" => \A k \in Children(p.inv) : Bound(p.run, k)'
  PROVE  /\ PendingMove /\ pending' \subseteq SettlementType
         /\ \A s \in pending' : s.next \in Children(s.inv) /\ s.run \in Runs
<1>1. p \in SettlementType /\ SettlementOK(p) /\ p.inv \in Invocations /\ p.run \in Runs
  BY DEF IInv, Types, SettlementType
<1>2. \A s \in pending : s.inv = p.inv => s = p
  BY <1>1 DEF SettlementOK
<1>3. ~p.owned => ~p.bind /\ runner'[Runtime[p.inv]] = "none"
  <2>1. RunnerMove(Runtime[p.inv]) /\ \A j \in Invocations : Runtime[j] = Runtime[p.inv] => j = p.inv
    BY <1>1, OwnIds DEF ProcessMove
  <2>. QED BY <1>1, <2>1 DEF SettlementOK, RunnerMove
<1>4. q.bind => BindsOK(q)'
  <2>1. p.bind => BindsOK(p) /\ runner'[p.run] # "none"
    BY <1>1, StartedStays DEF SettlementOK, BindsOK
  <2>. QED BY <2>1 DEF BindsOK
<1>5. p.kind = "start-error" => ~p.bind /\ Void(p.inv)'
  BY <1>1, VoidKept, PhaseStays DEF SettlementOK
<1>6. SettlementOK(q)'
  <2>1. \A s \in pending' : s.inv = p.inv => s = q
    BY <1>2
  <2>2. phase'[p.inv] = "returned"
    BY <1>1 DEF SettlementOK
  <2>3. p.kind = "foreground" =>
          /\ p.inv \in Foreground /\ p.run = Runtime[p.inv] /\ p.run \in frames'
          /\ \A k \in p.terminalChildren : <<p.run, k>> \in terminal'
    BY <1>1 DEF SettlementOK, ProcessMove
  <2>4. q.at = "rejected" => WritersOf(q.run)' = {} /\ runner'[q.run] = "gone"
    BY DEF WritersOf
  <2>. QED BY <1>3, <1>4, <1>5, <2>1, <2>2, <2>3, <2>4 DEF SettlementOK
<1>7. PendingMove
  <2>1. \A s \in pending' : s \in pending \/ s = q
    OBVIOUS
  <2>2. ASSUME NEW s \in pending \cap pending'
        PROVE  phase'[s.inv] = phase[s.inv] /\ \A t \in pending' : t.inv = s.inv => t = s
    BY <1>2 DEF IInv, SettlementOK
  <2>3. \A s \in pending' : \E t \in pending : t.inv = s.inv /\ t.bind = s.bind /\ t.run = s.run
    BY <2>1
  <2>. QED BY <1>6, <2>1, <2>2, <2>3 DEF PendingMove
<1>8. \A s \in pending' : s \in SettlementType /\ s.next \in Children(s.inv) /\ s.run \in Runs
  BY <1>1 DEF IInv, Types, TypeOK
<1>. QED BY <1>7, <1>8

\* An attempt that starts over has bound nothing yet.
LEMMA RetryMoves ==
  ASSUME IInv, NEW p \in pending, Retry(p), UNCHANGED <<phase, bindings>>, ProcessMove
  PROVE  /\ PendingMove /\ pending' \subseteq SettlementType
         /\ \A s \in pending' : s.next \in Children(s.inv) /\ s.run \in Runs
<1>1. p \in SettlementType /\ p.inv \in Invocations
  BY DEF IInv, Types, SettlementType
<1>2. PICK q \in SettlementType :
        /\ q = FirstStep(p) /\ q.at = (IF p.bind THEN "bind" ELSE "settle") /\ q.next = 0
        /\ q.inv = p.inv /\ q.owned = p.owned /\ q.kind = p.kind /\ q.bind = p.bind /\ q.run = p.run
        /\ q.start = p.start /\ q.terminalChildren = p.terminalChildren
  <2>1. FirstStep(p) \in SettlementType
    BY <1>1 DEF FirstStep, SettlementType
  <2>. QED BY <1>1, <2>1 DEF FirstStep, SettlementType
<1>3. pending' = (pending \ {p}) \cup {q}
  BY <1>2 DEF Retry
<1>4. 0 \in Children(p.inv) /\ \A k \in Children(p.inv) : ~(k < 0)
  BY <1>1, OwnIds DEF Children
<1>. QED BY <1>2, <1>3, <1>4, AdvanceMoves

\* A step without a binding in it, or the last of the bindings.
LEMMA NextStepMoves ==
  ASSUME IInv, NEW p \in pending, NEW to \in {"observe", "reclaim", "settle", "rejected"}, Advance(p, to),
         UNCHANGED <<phase, bindings>>, ProcessMove, p.at # "settle",
         to = "rejected" => WritersOf(p.run)' = {} /\ runner'[p.run] = "gone"
  PROVE  /\ PendingMove /\ pending' \subseteq SettlementType
         /\ \A s \in pending' : s.next \in Children(s.inv) /\ s.run \in Runs
<1>1. p \in SettlementType /\ p.inv \in Invocations /\ p.bind /\ p.next \in Children(p.inv)
  BY DEF IInv, Types, TypeOK, SettlementOK, SettlementType
<1>2. PICK q \in SettlementType :
        /\ q = [p EXCEPT !.at = to] /\ q.at = to /\ q.next = p.next
        /\ q.inv = p.inv /\ q.owned = p.owned /\ q.kind = p.kind /\ q.bind = p.bind /\ q.run = p.run
        /\ q.start = p.start /\ q.terminalChildren = p.terminalChildren
  <2>1. [p EXCEPT !.at = to] \in SettlementType
    BY <1>1 DEF SettlementType
  <2>. QED BY <1>1, <2>1 DEF SettlementType
<1>3. pending' = (pending \ {p}) \cup {q}
  BY <1>2 DEF Advance
<1>. QED BY <1>1, <1>2, <1>3, AdvanceMoves

LEMMA BindingSettlement ==
  ASSUME IInv, NEW p \in pending, p.at # "settle"
  PROVE  /\ p.inv \in Invocations /\ p.run \in Runs /\ p.bind /\ p.start = p.run /\ p.start # NoRun
         /\ runner[p.run] # "none" /\ phase[p.inv] = "returned" /\ BindsOK(p) /\ SettlementOK(p)
         /\ p.next \in Children(p.inv) /\ HeldAll(p.inv) /\ p \in SettlementType
         /\ Kind[p.inv] = "spawn" => p.run = Runtime[p.inv]
<1>1. /\ p \in SettlementType /\ p.inv \in Invocations /\ p.run \in Runs /\ p.next \in Children(p.inv)
      /\ SettlementOK(p)
  BY DEF IInv, Types, TypeOK, SettlementType
<1>2. p.bind /\ BindsOK(p) /\ phase[p.inv] = "returned"
  BY <1>1 DEF SettlementOK
<1>3. HeldAll(p.inv)
  BY <1>1, <1>2 DEF IInv, HeldInv
<1>. QED BY <1>1, <1>2, <1>3, OwnIds DEF BindsOK, BothResume

LEMMA SettlementRejectedMoves ==
  ASSUME IInv, NEW p \in pending, SettlementRejected(p)
  PROVE  Moves /\ Types' /\ PresentInv'
<1>0. /\ p.at = "bind"
      /\ UNCHANGED <<ledger, issued, generation, bornIn, held, phase, starts, active, asyncStarts,
                     bindings, completions, reported, observed>>
  BY DEF SettlementRejected, launchVars, startVars, reports
<1>1. p.run \in Runs /\ p.start = p.run /\ p.start # NoRun /\ runner[p.run] # "none"
  BY <1>0, BindingSettlement
<1>2. /\ ProcessMove /\ ProcessesTypeOK' /\ PendingMove /\ pending' \subseteq SettlementType
      /\ \A s \in pending' : s.next \in Children(s.inv) /\ s.run \in Runs
  <2>1. CASE Advance(p, "rejected") /\ Kill({p.start})
    <3>1. {p.run} \in SUBSET Runs /\ Kill({p.run}) /\ \A x \in {p.run} : runner[x] # "none"
      BY <1>1, <2>1
    <3>2. /\ ProcessMove /\ ProcessesTypeOK'
          /\ WritersOf(p.run)' = {} /\ runner'[p.run] = "gone"
      BY <3>1, KillMoves
    <3>. QED BY <1>0, <2>1, <3>2, NextStepMoves
  <2>2. CASE Retry(p) /\ UNCHANGED processVars
    <3>1. ProcessMove /\ ProcessesTypeOK'
      BY <2>2, ProcessStays DEF processVars, IInv, Types, TypeOK, ProcessesTypeOK
    <3>. QED BY <1>0, <2>2, <3>1, RetryMoves
  <2>. QED BY <1>1, <2>1, <2>2 DEF SettlementRejected
<1>3. faults' \in 0 .. MaxFaults
  BY BoundsAssumption DEF SettlementRejected, Fault, IInv, Types, TypeOK
<1>4. /\ LedgerMove /\ HeldMove /\ PhaseMove /\ StartsMove /\ BindingMove /\ CompletionMove /\ ObservedMove
  BY <1>0, LedgerStays, HeldStays, PhaseStays, StartsStay, BindingsStay, CompletionsStay, ObservedStays
<1>5. Types'
  <2>1. reported' \subseteq terminal'
    BY <1>0, <1>2 DEF IInv, Types, TypeOK, ProcessMove
  <2>. QED BY <1>0, <1>2, <1>3, <2>1 DEF IInv, Types, TypeOK
<1>6. PresentInv'
  BY <1>0, PresentStays
<1>. QED BY <1>2, <1>4, <1>5, <1>6 DEF Moves

LEMMA SettlementAcknowledgeMoves ==
  ASSUME IInv, NEW p \in pending, SettlementAcknowledge(p)
  PROVE  Moves /\ Types' /\ PresentInv'
<1>0. /\ p.at = "acknowledge"
      /\ UNCHANGED <<ledger, issued, generation, bornIn, held, phase, starts, active, asyncStarts,
                     bindings, observed, reported, faults>>
  BY DEF SettlementAcknowledge, launchVars, startVars
<1>1. p.run \in Runs /\ p.start = p.run /\ p.inv \in Invocations /\ BindsOK(p)
  BY <1>0, BindingSettlement
<1>2. /\ ProcessMove /\ ProcessesTypeOK' /\ PendingMove /\ pending' \subseteq SettlementType
      /\ \A s \in pending' : s.next \in Children(s.inv) /\ s.run \in Runs
      /\ CompletionMove /\ completions' \subseteq CompletionType
  <2>1. CASE Retry(p) /\ UNCHANGED <<completions, processVars>>
    <3>1. ProcessMove /\ ProcessesTypeOK'
      BY <2>1, ProcessStays DEF processVars, IInv, Types, TypeOK, ProcessesTypeOK
    <3>. QED BY <1>0, <2>1, <3>1, RetryMoves, CompletionsStay DEF IInv, Types
  <2>2. CASE /\ Acknowledge(p.start) /\ completions' = Arm(CompletionsOf(p.inv, p.run))
             /\ Advance(p, IF p.kind = "background-started" THEN "observe" ELSE "settle")
    <3>1. PICK j \in Invocations : p.run = Runtime[j] /\ (j # p.inv => BothResume(p.inv, j))
      BY <1>1 DEF BindsOK
    <3>2. MayOpen(p.run) => \A k \in Children(j) : Bound(p.run, k)
      <4>1. Children(j) = Children(p.inv)
        <5>1. j # p.inv => Size[j] = Size[p.inv]
          BY <1>1, <3>1, OwnIds DEF BothResume
        <5>. QED BY <5>1 DEF Children
      <4>. QED BY <1>0, <1>1, <4>1 DEF BindsOK
    <3>3. ProcessMove /\ ProcessesTypeOK'
      BY <1>1, <2>2, <3>1, <3>2, AcknowledgeMoves
    <3>4. PICK to \in {"observe", "reclaim", "settle", "rejected"} :
            /\ to = IF p.kind = "background-started" THEN "observe" ELSE "settle"
            /\ Advance(p, to) /\ to # "rejected"
      BY <2>2
    <3>5. /\ PendingMove /\ pending' \subseteq SettlementType
          /\ \A s \in pending' : s.next \in Children(s.inv) /\ s.run \in Runs
      BY <1>0, <3>3, <3>4, NextStepMoves
    <3>. QED BY <2>2, <3>3, <3>5, ArmedAgain DEF Arm
  <2>. QED BY <2>1, <2>2 DEF SettlementAcknowledge
<1>3. /\ LedgerMove /\ HeldMove /\ PhaseMove /\ StartsMove /\ BindingMove /\ ObservedMove
  BY <1>0, LedgerStays, HeldStays, PhaseStays, StartsStay, BindingsStay, ObservedStays
<1>4. Types'
  <2>1. reported' \subseteq terminal'
    BY <1>0, <1>2 DEF IInv, Types, TypeOK, ProcessMove
  <2>. QED BY <1>0, <1>2, <2>1 DEF IInv, Types, TypeOK, CompletionType
<1>5. PresentInv'
  BY <1>0, PresentStays
<1>. QED BY <1>2, <1>3, <1>4, <1>5 DEF Moves

\* The reconciliation of an attempt, and an attempt that fails.
LEMMA SettlementSweepMoves ==
  ASSUME IInv, NEW p \in pending, SettlementObserve(p) \/ SettlementReclaim(p) \/ SettlementFault(p)
  PROVE  Moves /\ Types' /\ PresentInv'
<1>0. /\ UNCHANGED <<issued, generation, bornIn, held, phase, starts, active, asyncStarts, bindings,
                     completions, reported>>
      /\ UNCHANGED processVars /\ (UNCHANGED faults \/ Fault)
      /\ p.inv \in Observers
  BY DEF SettlementObserve, SettlementReclaim, SettlementFault, launchVars, startVars, reports,
         IInv, Types, SettlementType, Observers
<1>1. ProcessMove /\ ProcessesTypeOK'
  BY <1>0, ProcessStays DEF processVars, IInv, Types, TypeOK, ProcessesTypeOK
<1>2. LedgerMove /\ Sound(ledger)'
  BY <1>0, ReclaimMoves, LedgerStays
     DEF SettlementObserve, SettlementReclaim, SettlementFault, IInv, Types
<1>3. ObservedMove /\ observed' \in [Observers -> SUBSET Lease]
  BY <1>0, ObservedFinds, ObservedForgets DEF SettlementObserve, SettlementReclaim, SettlementFault
<1>4. /\ PendingMove /\ pending' \subseteq SettlementType
      /\ \A s \in pending' : s.next \in Children(s.inv) /\ s.run \in Runs
  BY <1>0, <1>1, NextStepMoves, RetryMoves DEF SettlementObserve, SettlementReclaim, SettlementFault
<1>5. /\ HeldMove /\ PhaseMove /\ StartsMove /\ BindingMove /\ CompletionMove
  BY <1>0, HeldStays, PhaseStays, StartsStay, BindingsStay, CompletionsStay
<1>6. Types'
  <2>1. reported' \subseteq terminal'
    BY <1>0, <1>1 DEF IInv, Types, TypeOK, ProcessMove
  <2>2. faults' \in 0 .. MaxFaults
    BY <1>0, BoundsAssumption DEF Fault, IInv, Types, TypeOK
  <2>. QED BY <1>0, <1>1, <1>2, <1>3, <1>4, <2>1, <2>2 DEF IInv, Types, TypeOK, Observers, Sound
<1>7. PresentInv'
  BY <1>0, PresentStays
<1>. QED BY <1>1, <1>2, <1>3, <1>4, <1>5, <1>7, <1>6 DEF Moves

-----------------------------------------------------------------------------
(* bindReservationRuntime *)

\* Binding child k of i to run r moves its lease there, once and for all.
LEMMA RebindMoves ==
  ASSUME IInv, NEW i \in Invocations, NEW k \in Children(i), NEW r \in Runs, HeldAll(i),
         runner[r] # "none", MayBind(i, k, r), ledger' = BoundLedger(i, k, r, r), UNCHANGED issued,
         Kind[i] = "spawn" => r = Runtime[i],
         \A l \in Current(ledger, Handle(i, k)) : BoundTo(i, k, l) => l.run = r,
         \A l \in Lease : l.run = r /\ l.proc = r /\ l.index = TargetIndex(i, k) => BoundTo(i, k, l)'
  PROVE  LedgerMove /\ Sound(ledger)' /\ Bound(r, k)'
<1>1. PICK h : h = Handle(i, k)
  OBVIOUS
<1>2. h \in held[i] /\ h.id = AgentOf(i, k) /\ h \in Lease
  BY <1>1, HandleFacts
<1>3. /\ TargetIndex(i, k) = k /\ k \in Nat /\ r \in Procs /\ r # NoRun /\ Sound(ledger)
      /\ host \notin Runs
  BY ChildIds, HostIsNoRun, OwnIds DEF IInv, Types
<1>4. ledger' = AfterRebind(ledger, h, r, k, r) /\ RebindAllowed(ledger, h, r, k)
  BY <1>1, <1>3 DEF BoundLedger, MayBind
<1>5. Sound(ledger)'
  <2>1. Sound(AfterRebind(ledger, h, r, k, r))
    BY <1>2, <1>3, <1>4, RebindSound
  <2>. QED BY <1>4, <2>1
<1>6. PICK m \in Current(ledger, h) : Current(ledger, h) = {m}
  BY <1>3, <1>4, CurrentIsOne DEF RebindAllowed
<1>7. m \in ledger.leases /\ m \in Lease /\ m.id = h.id /\ m.token = h.token
  BY <1>3, <1>6 DEF Current, Sound, Ledger
<1>8. PICK l \in Lease :
        /\ l = [m EXCEPT !.run = r, !.index = k, !.proc = r]
        /\ l.id = m.id /\ l.token = m.token /\ l.run = r /\ l.index = k /\ l.proc = r
  <2>1. [m EXCEPT !.run = r, !.index = k, !.proc = r] \in Lease
    BY <1>3, <1>7 DEF Lease
  <2>. QED BY <1>7, <2>1 DEF Lease
<1>9. ledger'.leases = (ledger.leases \ {m}) \cup {l}
  BY <1>3, <1>4, <1>6, <1>8 DEF AfterRebind, Sound, Ledger
<1>10. Moved(m, l)
  <2>1. Unbound(i, k, m) \/ BoundTo(i, k, m)
    BY <1>2, <1>6 DEF IInv, HandleInv
  <2>2. m.proc = host \/ m.proc \in Runs
    BY <2>1 DEF Unbound, BoundTo
  <2>3. BoundTo(i, k, l)'
    BY <1>3, <1>8
  <2>4. ASSUME m.proc \in Runs \/ \E j \in Invocations : m.run = Runtime[j]
        PROVE  l.run = m.run /\ l.index = m.index
    <3>1. CASE BoundTo(i, k, m)
      <4>1. m.run = r
        BY <1>1, <1>6, <3>1
      <4>2. m.index = k
        BY <1>3, <3>1 DEF BoundTo
      <4>. QED BY <1>8, <4>1, <4>2
    <3>2. CASE Unbound(i, k, m)
      <4>1. m.proc \notin Runs /\ m.run = Launch[i] /\ (Kind[i] = "spawn" => m.index = k)
        BY <1>3, <3>2 DEF Unbound
      <4>2. Kind[i] = "spawn" /\ m.run = Runtime[i]
        BY <2>4, <4>1, OwnIds
      <4>. QED BY <1>8, <4>1, <4>2
    <3>. QED BY <2>1, <3>1, <3>2
  <2>5. \E h1 \in held[i] : h1.id = l.id /\ h1.token = l.token /\ l.id = AgentOf(i, k) /\ BoundTo(i, k, l)'
    BY <1>2, <1>7, <1>8, <2>3
  <2>. QED BY <1>8, <2>2, <2>4, <2>5 DEF Moved
<1>11. LedgerMove
  <2>1. issued <= issued'
    BY DEF IInv, Types, TypeOK
  <2>2. \A x \in ledger'.leases : x \in ledger.leases \/ \E y \in ledger.leases : Moved(y, x)
    BY <1>7, <1>9, <1>10
  <2>3. \A y \in ledger.leases : y \in ledger'.leases \/ \E x \in ledger'.leases : Moved(y, x)
    BY <1>9, <1>10
  <2>. QED BY <2>1, <2>2, <2>3 DEF LedgerMove
<1>12. Bound(r, k)'
  BY <1>8, <1>9 DEF Bound, RuntimeAddress
<1>. QED BY <1>5, <1>11, <1>12

LEMMA BindStartedMoves ==
  ASSUME IInv, NEW b \in bindings, BindStarted(b)
  PROVE  Moves /\ Types' /\ PresentInv'
<1> DEFINE i == b.inv
           k == b.next
           r == b.run
<1>0. /\ ~AllBound(i, k) /\ MayBind(i, k, r) /\ ledger' = BoundLedger(i, k, r, r)
      /\ bindings' = (bindings \ {b}) \cup {[b EXCEPT !.next = @ + 1]}
      /\ UNCHANGED <<issued, generation, bornIn, held, phase, starts, active, asyncStarts, pending,
                     completions, reported, observed, faults>>
      /\ UNCHANGED processVars
  BY DEF BindStarted, launchVars, startVars, reports, ends
<1>1. /\ b \in Binding /\ BindingOK(b) /\ i \in Invocations /\ r \in Runs /\ r = Runtime[i] /\ HeldAll(i)
      /\ runner[r] # "none" /\ k \in 0 .. Size[i] /\ Size[i] \in Nat
  BY OwnIds DEF IInv, Types, TypeOK, Binding, BindingOK
<1>2. k \in Children(i) /\ k \in Nat /\ k + 1 \in 0 .. Size[i]
  BY <1>0, <1>1 DEF Children, AllBound
<1>3. PICK c \in Binding : c = [b EXCEPT !.next = @ + 1] /\ c.by = b.by /\ c.inv = i /\ c.run = r /\ c.next = k + 1
  <2>1. [b EXCEPT !.next = @ + 1] \in Binding
    BY <1>1, <1>2 DEF Binding
  <2>. QED BY <1>1, <2>1 DEF Binding
<1>4. bindings' = (bindings \ {b}) \cup {c}
  BY <1>0, <1>3
<1>5. \A d \in bindings' : d.inv = i => d.run = r
  BY <1>1, <1>3, <1>4 DEF IInv, BindingOK
<1>. HIDE DEF i, k, r
<1>6. LedgerMove /\ Sound(ledger)' /\ Bound(r, k)'
  <2>1. ASSUME NEW l \in Current(ledger, Handle(i, k)), BoundTo(i, k, l) PROVE l.run = r
    BY <2>1 DEF BoundTo, i, r
  <2>2. ASSUME NEW l \in Lease, l.run = r, l.proc = r, l.index = TargetIndex(i, k)
        PROVE  BoundTo(i, k, l)'
    <3>1. \A p \in pending : p.inv = i => (p.bind => p.run = r)
      BY <1>1 DEF IInv, SettlementOK, BindsOK, i
    <3>2. phase[i] \in Underway => r \in starts[i]
      BY <1>1 DEF BindingOK, i, r
    <3>. QED BY <1>0, <1>1, <1>5, <2>2, <3>1, <3>2 DEF BoundTo
  <2>. QED BY <1>0, <1>1, <1>2, <2>1, <2>2, RebindMoves
<1>7. BindingOK(c)'
  <2>1. ASSUME MayOpen(r), NEW m \in Children(i), m < k + 1 PROVE Bound(r, m)'
    <3>1. CASE m = k
      BY <1>6, <3>1
    <3>2. CASE m # k
      <4>1. m < k
        BY <1>2, <2>1, <3>2 DEF Children
      <4>2. Bound(r, m)
        BY <1>1, <2>1, <4>1 DEF BindingOK, i, k, r
      <4>3. Needed(r, m)
        BY <2>1 DEF Needed
      <4>. QED BY <1>1, <1>6, <4>2, <4>3, BoundKept
    <3>. QED BY <3>1, <3>2
  <2>2. MayOpen(r)' => MayOpen(r)
    BY <1>0 DEF MayOpen, processVars
  <2>3. /\ HeldAll(i)' /\ runner'[r] # "none" /\ b.by = i
        /\ phase'[i] \in {"started", "binding", "foreground", "throwing", "returned", "settled"}
        /\ phase'[i] \in Underway => r \in starts'[i]
    BY <1>0, <1>1 DEF BindingOK, processVars, HeldAll, i, r
  <2>. QED BY <1>1, <1>3, <2>1, <2>2, <2>3 DEF BindingOK
<1>8. BindingMove
  <2>1. \A d \in bindings' : d \in bindings \/ d = c
    BY <1>4
  <2>2. \A d \in bindings' : \E e \in bindings : e.inv = d.inv /\ e.run = d.run
    BY <1>3, <2>1 DEF i, r
  <2>3. \A j \in Invocations : (\A d \in bindings' : d.by # j) => \A d \in bindings : d.by # j
    BY <1>3, <1>4
  <2>. QED BY <1>7, <2>1, <2>2, <2>3 DEF BindingMove
<1>9. /\ ProcessMove /\ HeldMove /\ PhaseMove /\ StartsMove /\ PendingMove /\ CompletionMove /\ ObservedMove
  BY <1>0, ProcessStays, HeldStays, PhaseStays, StartsStay, PendingStays, CompletionsStay, ObservedStays
<1>10. Types'
  <2>1. \A d \in bindings' : d \in Binding /\ d.next \in 0 .. Size[d.inv] /\ d.run \in Runs
    BY <1>1, <1>2, <1>3, <1>4 DEF IInv, Types, TypeOK
  <2>. QED BY <1>0, <1>6, <2>1 DEF IInv, Types, TypeOK, ProcessesTypeOK, processVars, Sound
<1>11. PresentInv'
  BY <1>0, PresentStays
<1>. QED BY <1>6, <1>8, <1>9, <1>10, <1>11 DEF Moves

LEMMA SettlementBindMoves ==
  ASSUME IInv, NEW p \in pending, SettlementBind(p)
  PROVE  Moves /\ Types' /\ PresentInv'
<1> DEFINE i == p.inv
           k == p.next
           r == p.run
<1>1. /\ i \in Invocations /\ r \in Runs /\ p.bind /\ p.start = r /\ runner[r] # "none"
      /\ phase[i] = "returned" /\ BindsOK(p) /\ k \in Children(i) /\ HeldAll(i) /\ p \in SettlementType
      /\ Kind[i] = "spawn" => r = Runtime[i]
      /\ p.at = "bind" /\ \A q \in pending : q.inv = i => q = p
  <2>1. p.at = "bind"
    BY DEF SettlementBind
  <2>2. SettlementOK(p)
    BY DEF IInv
  <2>. QED BY <2>1, <2>2, BindingSettlement DEF SettlementOK
<1>0. /\ MayBind(i, k, r) /\ ledger' = BoundLedger(i, k, r, r)
      /\ pending' = (pending \ {p}) \cup
           {IF AllBound(i, k + 1) THEN [p EXCEPT !.at = "acknowledge", !.next = 0]
            ELSE [p EXCEPT !.next = k + 1]}
      /\ UNCHANGED <<issued, generation, bornIn, held, phase, starts, active, asyncStarts, bindings,
                     completions, reported, observed, faults>>
      /\ UNCHANGED processVars
  <2>1. k \in Nat
    BY <1>1, ChildIds
  <2>2. /\ [p EXCEPT !.next = @ + 1].next = k + 1
        /\ [[p EXCEPT !.next = @ + 1] EXCEPT !.at = "acknowledge", !.next = 0]
             = [p EXCEPT !.at = "acknowledge", !.next = 0]
    BY <1>1, <2>1 DEF SettlementType
  <2>. QED BY <1>1, <2>2 DEF SettlementBind, launchVars, startVars, reports, ends
<1>2. PICK q \in SettlementType :
        /\ pending' = (pending \ {p}) \cup {q}
        /\ q.inv = i /\ q.owned = p.owned /\ q.kind = p.kind /\ q.bind = p.bind /\ q.run = r
        /\ q.start = p.start /\ q.terminalChildren = p.terminalChildren
        /\ \/ k + 1 = Size[i] /\ q.at = "acknowledge" /\ q.next = 0
           \/ k + 1 # Size[i] /\ q.at = "bind" /\ q.next = k + 1
  <2>1. k + 1 \in Nat
    BY <1>1, ChildIds
  <2>2. CASE k + 1 = Size[i]
    <3>1. PICK q \in SettlementType : q = [p EXCEPT !.at = "acknowledge", !.next = 0]
      BY <1>1 DEF SettlementType
    <3>. QED BY <1>0, <1>1, <2>2, <3>1 DEF AllBound, SettlementType
  <2>3. CASE k + 1 # Size[i]
    <3>1. PICK q \in SettlementType : q = [p EXCEPT !.next = k + 1]
      BY <1>1, <2>1 DEF SettlementType
    <3>. QED BY <1>0, <1>1, <2>3, <3>1 DEF AllBound, SettlementType
  <2>. QED BY <2>2, <2>3
<1>3. ProcessMove /\ HeldMove /\ PhaseMove /\ StartsMove /\ BindingMove /\ CompletionMove /\ ObservedMove
  BY <1>0, ProcessStays, HeldStays, PhaseStays, StartsStay, BindingsStay, CompletionsStay, ObservedStays
<1>. HIDE DEF i, k, r
<1>4. LedgerMove /\ Sound(ledger)' /\ Bound(r, k)'
  <2>1. ASSUME NEW l \in Current(ledger, Handle(i, k)), BoundTo(i, k, l) PROVE l.run = r
    BY <1>1, <2>1 DEF BoundTo, i, r
  <2>2. ASSUME NEW l \in Lease, l.run = r, l.proc = r, l.index = TargetIndex(i, k)
        PROVE  BoundTo(i, k, l)'
    <3>1. \A s \in pending' : s.inv = i => s = q
      BY <1>1, <1>2
    <3>2. \A b \in bindings' : b.inv = i => b.run = r
      BY <1>0, <1>1 DEF BindsOK, IInv, BindingOK, i, r
    <3>3. phase'[i] \notin Underway
      BY <1>0, <1>1 DEF Underway
    <3>. QED BY <1>0, <1>1, <1>2, <2>2, <3>1, <3>2, <3>3 DEF BoundTo
  <2>. QED BY <1>0, <1>1, <2>1, <2>2, RebindMoves
<1>5. ASSUME MayOpen(r)', NEW m \in Children(i), m < k + 1 PROVE Bound(r, m)'
  <2>1. CASE m = k
    BY <1>4, <2>1
  <2>2. CASE m # k
    <3>1. m < k /\ MayOpen(r)
      BY <1>0, <1>1, <1>5, <2>2 DEF Children, MayOpen, processVars
    <3>2. Bound(r, m)
      BY <1>1, <3>1 DEF BindsOK, i, k, r
    <3>3. Needed(r, m)
      BY <3>1 DEF Needed
    <3>. QED BY <1>1, <1>4, <3>2, <3>3, BoundKept
  <2>. QED BY <2>1, <2>2
<1>6. /\ PendingMove /\ pending' \subseteq SettlementType
      /\ \A s \in pending' : s.next \in Children(s.inv) /\ s.run \in Runs
  <2>1. q.next \in Children(i)
    BY <1>1, <1>2, OwnIds DEF Children
  <2>2. MayOpen(r)' =>
           /\ q.at = "bind" => \A m \in Children(i) : m < q.next => Bound(r, m)'
           /\ q.at = "acknowledge" => \A m \in Children(i) : Bound(r, m)'
    <3>1. k + 1 = Size[i] => \A m \in Children(i) : m < k + 1
      BY <1>1, ChildIds
    <3>. QED BY <1>2, <1>5, <3>1
  <2>3. q.bind /\ q.at # "settle" /\ q.at # "rejected"
    BY <1>1, <1>2
  <2>. QED BY <1>0, <1>1, <1>2, <1>3, <2>1, <2>2, <2>3, AdvanceMoves DEF i, r
<1>7. Types'
  BY <1>0, <1>4, <1>6 DEF IInv, Types, TypeOK, ProcessesTypeOK, processVars, Sound
<1>8. PresentInv'
  BY <1>0, PresentStays
<1>. QED BY <1>3, <1>4, <1>6, <1>7, <1>8 DEF Moves

-----------------------------------------------------------------------------
(* The end of a settlement *)

LEMMA FinishMoves ==
  ASSUME IInv, NEW p \in pending, Finish(p), UNCHANGED processVars
  PROVE  /\ ProcessMove /\ HeldMove /\ PhaseMove /\ StartsMove /\ BindingMove /\ PendingMove
         /\ CompletionMove /\ ObservedMove
         /\ ledger' \in Ledger /\ Sound(ledger)' /\ UNCHANGED faults => Types'
         /\ PresentInv'
<1> DEFINE i == p.inv
<1>0. /\ pending' = pending \ {p} /\ Goto(i, IF p.owned THEN "settled" ELSE "refused")
      /\ active' = active \ {i} /\ starts' = [starts EXCEPT ![i] = @ \ {p.run}]
      /\ asyncStarts' \subseteq asyncStarts
      /\ UNCHANGED <<issued, generation, bornIn, held, bindings, reported, observed>>
  BY DEF Finish, launchVars
<1>1. i \in Invocations /\ phase[i] = "returned" /\ \A q \in pending : q.inv = i => q = p
  BY DEF IInv, SettlementOK, Types, SettlementType
<1>2. PICK to \in {"settled", "refused"} : to = IF p.owned THEN "settled" ELSE "refused"
  OBVIOUS
<1>3. /\ phase' \in [Invocations -> Phases] /\ phase'[i] = to
      /\ \A j \in Invocations \ {i} : phase'[j] = phase[j]
      /\ PhaseMove
  <2>1. to \in Phases /\ Goto(i, to)
    BY <1>0, <1>2 DEF Phases
  <2>2. Passage(i) => PhaseMove
    BY <1>1, <2>1, PhaseGoes
  <2>3. /\ phase' \in [Invocations -> Phases] /\ phase'[i] = to
        /\ \A j \in Invocations \ {i} : phase'[j] = phase[j]
    BY <1>1, <2>1, PhaseGoes
  <2>. QED BY <1>1, <1>2, <2>2, <2>3 DEF Passage
<1>4. PendingMove
  <2>1. \A q \in pending' : q \in pending /\ q.inv # i /\ q.inv \in Invocations
    BY <1>0, <1>1 DEF IInv, Types, SettlementType
  <2>2. ASSUME NEW q \in pending \cap pending'
        PROVE  phase'[q.inv] = phase[q.inv] /\ \A s \in pending' : s.inv = q.inv => s = q
    BY <1>3, <2>1 DEF IInv, SettlementOK
  <2>. QED BY <2>1, <2>2 DEF PendingMove
<1>5. /\ StartsMove /\ starts' \in [Invocations -> SUBSET Runs]
  <2>1. /\ starts' \in [Invocations -> SUBSET Runs]
        /\ \A j \in Invocations : starts'[j] \subseteq starts[j] /\ (j # i => starts'[j] = starts[j])
    BY <1>0 DEF IInv, Types, TypeOK
  <2>2. \A j \in Invocations : IsFiniteSet(starts'[j])
    BY <2>1, FS_Subset DEF IInv, StartInv
  <2>3. phase'[i] \notin Underway
    BY <1>3 DEF Underway
  <2>. QED BY <1>0, <2>1, <2>2, <2>3 DEF StartsMove
<1>6. CompletionMove /\ completions' \subseteq CompletionType
  <2>1. PICK all \in SUBSET completions : \E cs : completions' = Armed(all, cs)
    BY DEF Finish
  <2>2. PICK cs : completions' = Armed(all, cs)
    BY <2>1
  <2>. QED BY <2>2, ArmedAgain
<1>7. ProcessMove /\ HeldMove /\ BindingMove /\ ObservedMove
  BY <1>0, ProcessStays, HeldStays, BindingsStay, ObservedStays
<1>8. ASSUME ledger' \in Ledger, Sound(ledger)', UNCHANGED faults PROVE Types'
  <2>1. IsFiniteSet(active') /\ active' \subseteq Invocations
    BY <1>0, FS_Subset DEF IInv, Types, TypeOK
  <2>. QED BY <1>0, <1>3, <1>5, <1>6, <1>8, <2>1
           DEF IInv, Types, TypeOK, ProcessesTypeOK, processVars, CompletionType
<1>9. PresentInv'
  BY <1>0, <1>3 DEF IInv, PresentInv, BoundHere
<1>. QED BY <1>3, <1>4, <1>5, <1>6, <1>7, <1>8, <1>9

\* Of an invocation whose run never was, or is gone, no lease is needed.
LEMMA NothingNeeded ==
  ASSUME IInv, NEW p \in pending, NothingStarted(p), NEW h \in held[p.inv], NEW m \in Current(ledger, h),
         m.proc \in Runs
  PROVE  ~Needed(m.run, m.index)
<1>1. p.inv \in Invocations /\ SettlementOK(p) /\ HeldInv(p.inv) /\ HandleInv(p.inv)
  BY DEF IInv, Types, SettlementType
<1>2. PICK k \in Children(p.inv) : h.id = AgentOf(p.inv, k)
  BY <1>1 DEF HeldInv
<1>3. BoundTo(p.inv, k, m)
  <2>1. ~Unbound(p.inv, k, m)
    BY HostIsNoRun DEF Unbound, IInv, Types
  <2>. QED BY <1>1, <1>2, <2>1 DEF HandleInv
<1>4. CASE p.at = "rejected"
  <2>1. p.bind /\ WritersOf(p.run) = {} /\ runner[p.run] = "gone"
    BY <1>1, <1>4 DEF SettlementOK
  <2>2. m.run = p.run
    BY <1>3, <2>1 DEF BoundTo
  <2>. QED BY <2>1, <2>2 DEF Needed, MayOpen, Engaged, WritersOf
<1>5. CASE p.kind = "start-error"
  <2>1. ~p.bind /\ Void(p.inv) /\ phase[p.inv] = "returned"
    BY <1>1, <1>5 DEF SettlementOK
  <2>2. m.run = Runtime[p.inv]
    BY <1>3, <2>1 DEF BoundTo
  <2>. QED BY <1>1, <2>1, <2>2 DEF Needed, MayOpen, Engaged, Void, WritersOf
<1>. QED BY <1>4, <1>5 DEF NothingStarted

LEMMA SettleStartErrorMoves ==
  ASSUME IInv, NEW p \in pending, SettleStartError(p)
  PROVE  Moves /\ Types' /\ PresentInv'
<1> DEFINE i == p.inv
<1>0. /\ NothingStarted(p) /\ ledger' = WithoutReservation(i) /\ Finish(p)
      /\ UNCHANGED faults /\ UNCHANGED processVars /\ UNCHANGED issued
  BY DEF SettleStartError, Finish, launchVars
<1>1. /\ i \in Invocations /\ HeldInv(i) /\ HeldAll(i) /\ Sound(ledger)
      /\ Kind[i] \in {"spawn", "resume"} /\ 0 \in Children(i)
  <2>1. i \in Invocations /\ phase[i] = "returned"
    BY DEF IInv, SettlementOK, Types, SettlementType
  <2>. QED BY <2>1, OwnIds DEF IInv, Types, HeldInv, Children
<1>2. /\ Sound(ledger)' /\ ledger'.leases \subseteq ledger.leases
      /\ \A m \in ledger.leases \ ledger'.leases : \E h \in held[i] : m \in Current(ledger, h)
  <2>1. CASE Kind[i] = "spawn" /\ RollbackMatches(ledger, held[i])
    <3>1. ledger' = AfterAbort(ledger, held[i])
      BY <1>0, <2>1 DEF WithoutReservation
    <3>2. Sound(ledger)'
      <4>1. Sound(AfterAbort(ledger, held[i]))
        BY <1>1, <2>1, AbortSound
      <4>. QED BY <3>1, <4>1
    <3>3. ledger'.leases = {l \in ledger.leases : l.id \notin HandleIds(held[i])}
      BY <1>1, <3>1 DEF AfterAbort, AfterReleaseBatch, Sound, Ledger
    <3>4. ASSUME NEW m \in ledger.leases \ ledger'.leases
          PROVE  \E h \in held[i] : m \in Current(ledger, h)
      <4>1. PICK h \in held[i] : m.id = h.id
        BY <3>3, <3>4 DEF HandleIds
      <4>2. PICK l \in ledger.leases : l.id = h.id /\ l.token = h.token
        BY <2>1 DEF RollbackMatches, BatchMatches, Current
      <4>3. l = m
        BY <1>1, <4>1, <4>2 DEF Sound, Parses, UniqueLeases
      <4>. QED BY <4>2, <4>3 DEF Current
    <3>. QED BY <3>2, <3>3, <3>4
  <2>2. CASE Kind[i] = "spawn" /\ ~RollbackMatches(ledger, held[i])
    BY <1>0, <1>1, <2>2 DEF WithoutReservation
  <2>3. CASE Kind[i] = "resume"
    <3>1. ledger' = AfterRelease(ledger, Handle(i, 0))
      BY <1>0, <2>3 DEF WithoutReservation
    <3>2. Sound(ledger)'
      <4>1. Sound(AfterRelease(ledger, Handle(i, 0)))
        BY <1>1, ReleaseSound
      <4>. QED BY <3>1, <4>1
    <3>3. ledger'.leases = ledger.leases \ Current(ledger, Handle(i, 0))
      BY <1>1, <3>1 DEF AfterRelease, Sound, Ledger
    <3>4. Handle(i, 0) \in held[i]
      BY <1>1, HandleFacts
    <3>. QED BY <3>2, <3>3, <3>4
  <2>. QED BY <1>1, <2>1, <2>2, <2>3
<1>3. LedgerMove
  <2>1. \A m \in ledger.leases \ ledger'.leases : m.proc \in Runs => ~Needed(m.run, m.index)
    BY <1>0, <1>2, NothingNeeded
  <2>. QED BY <1>0, <1>2, <2>1, LeasesGo
<1>4. ledger' \in Ledger
  BY <1>2 DEF Sound
<1>. QED BY <1>0, <1>2, <1>3, <1>4, FinishMoves DEF Moves

LEMMA SettleBackgroundMoves ==
  ASSUME IInv, NEW p \in pending, SettleBackground(p)
  PROVE  Moves /\ Types' /\ PresentInv'
<1>1. /\ Finish(p) /\ UNCHANGED <<ledger, issued>> /\ UNCHANGED faults /\ UNCHANGED processVars
  BY DEF SettleBackground, Finish, launchVars
<1>2. LedgerMove /\ ledger' \in Ledger /\ Sound(ledger)'
  BY <1>1, LedgerStays DEF IInv, Types, Sound
<1>. QED BY <1>1, <1>2, FinishMoves DEF Moves

LEMMA SettleForegroundMoves ==
  ASSUME IInv, NEW p \in pending, SettleForeground(p)
  PROVE  Moves /\ Types' /\ PresentInv'
<1> DEFINE i == p.inv
           k == p.next
<1>0. /\ p.at = "settle" /\ p.kind = "foreground"
      /\ ledger' = IF k \in p.terminalChildren THEN AfterRelease(ledger, Handle(i, k)) ELSE ledger
      /\ UNCHANGED faults /\ UNCHANGED processVars /\ UNCHANGED issued
  BY DEF SettleForeground, Finish, launchVars
<1>1. /\ i \in Invocations /\ SettlementOK(p) /\ HeldInv(i) /\ HandleInv(i) /\ HeldAll(i) /\ Sound(ledger)
      /\ k \in Children(i) /\ i \in Foreground /\ Kind[i] = "spawn" /\ p.run = Runtime[i]
      /\ p.run \in frames /\ p \in SettlementType
  <2>1. i \in Invocations /\ phase[i] = "returned" /\ SettlementOK(p) /\ k \in Children(i) /\ p \in SettlementType
    BY DEF IInv, SettlementOK, Types, SettlementType, TypeOK
  <2>. QED BY <1>0, <2>1, OwnIds DEF IInv, Types, HeldInv, SettlementOK
<1>2. LedgerMove /\ ledger' \in Ledger /\ Sound(ledger)'
  <2>1. CASE k \in p.terminalChildren
    <3>1. PICK h : h = Handle(i, k)
      OBVIOUS
    <3>2. h \in held[i] /\ h.id = AgentOf(i, k) /\ ledger' = AfterRelease(ledger, h)
      BY <1>0, <1>1, <2>1, <3>1, HandleFacts
    <3>3. Sound(ledger)'
      <4>1. Sound(AfterRelease(ledger, h))
        BY <1>1, ReleaseSound
      <4>. QED BY <3>2, <4>1
    <3>4. ledger'.leases = ledger.leases \ Current(ledger, h)
      BY <1>1, <3>2 DEF AfterRelease, Sound, Ledger
    <3>5. ASSUME NEW m \in Current(ledger, h), m.proc \in Runs PROVE ~Needed(m.run, m.index)
      <4>1. BoundTo(i, k, m)
        <5>1. ~Unbound(i, k, m)
          BY <3>5, HostIsNoRun DEF Unbound, IInv, Types
        <5>. QED BY <1>1, <3>2, <5>1 DEF HandleInv
      <4>2. m.run = Runtime[i] /\ m.index = k
        BY <1>1, <4>1, ChildIds DEF BoundTo
      <4>3. <<Runtime[i], k>> \in terminal /\ Runtime[i] \in frames
        BY <1>0, <1>1, <2>1 DEF SettlementOK
      <4>. QED BY <1>1, <4>2, <4>3, OverIsNotNeeded
    <3>. QED BY <1>0, <3>3, <3>4, <3>5, LeasesGo DEF Sound
  <2>2. CASE k \notin p.terminalChildren
    <3>1. UNCHANGED <<ledger, issued>>
      BY <1>0, <2>2
    <3>. QED BY <3>1, LedgerStays DEF IInv, Types, Sound
  <2>. QED BY <2>1, <2>2
<1>3. CASE Finish(p)
  BY <1>0, <1>2, <1>3, FinishMoves DEF Moves
<1>4. CASE /\ k # Size[i] - 1 /\ pending' = (pending \ {p}) \cup {[p EXCEPT !.next = @ + 1]}
           /\ UNCHANGED <<launchVars, phase, startVars, bindings, reports, observed>>
  <2>0. UNCHANGED <<generation, bornIn, held, phase, starts, active, asyncStarts, bindings,
                    completions, reported, observed>>
    BY <1>4 DEF launchVars, startVars, reports
  <2>1. k + 1 \in Children(i) /\ k + 1 \in Nat
    BY <1>1, <1>4, OwnIds DEF Children
  <2>2. PICK q \in SettlementType :
          /\ pending' = (pending \ {p}) \cup {q}
          /\ q.inv = i /\ q.owned = p.owned /\ q.kind = p.kind /\ q.bind = p.bind /\ q.run = p.run
          /\ q.start = p.start /\ q.terminalChildren = p.terminalChildren
          /\ q.at = "settle" /\ q.next = k + 1
    <3>1. [p EXCEPT !.next = @ + 1] \in SettlementType
      BY <1>1, <2>1 DEF SettlementType
    <3>. QED BY <1>0, <1>1, <1>4, <3>1 DEF SettlementType
  <2>3. ProcessMove /\ HeldMove /\ PhaseMove /\ StartsMove /\ BindingMove /\ CompletionMove /\ ObservedMove
    BY <1>0, <2>0, ProcessStays, HeldStays, PhaseStays, StartsStay, BindingsStay, CompletionsStay,
       ObservedStays
  <2>4. /\ PendingMove /\ pending' \subseteq SettlementType
        /\ \A s \in pending' : s.next \in Children(s.inv) /\ s.run \in Runs
    BY <2>0, <2>1, <2>2, <2>3, AdvanceMoves
  <2>5. Types'
    BY <1>0, <1>2, <2>0, <2>4 DEF IInv, Types, TypeOK, ProcessesTypeOK, processVars
  <2>6. PresentInv'
    BY <2>0, PresentStays
  <2>. QED BY <1>2, <2>3, <2>4, <2>5, <2>6 DEF Moves
<1>. QED BY <1>3, <1>4 DEF SettleForeground

-----------------------------------------------------------------------------
(* A crash: what was in memory is lost, the frames of the Host end *)

LEMMA CrashKeeps ==
  ASSUME IInv, Crash
  PROVE  IInv'
<1>1. PICK h \in Hosts : host' = h
  BY DEF Crash, RestartHost
<1>2. /\ dead' = dead \cup {host}
      /\ UNCHANGED <<writers, terminal, frames, opened, aborted, ledger, issued, bornIn, faults>>
      /\ generation' = generation + (generation % 2)
      /\ held' = [i \in Invocations |-> {}] /\ starts' = [i \in Invocations |-> {}]
      /\ active' = {} /\ asyncStarts' = {} /\ bindings' = {} /\ pending' = {}
      /\ completions' = {} /\ reported' = {}
      /\ observed' = [x \in Observers |-> {}]
  BY DEF Crash, RestartHost, Observers
<1>3. /\ phase' \in [Invocations -> Phases]
      /\ \A i \in Invocations : /\ phase'[i] \in {"idle", "settled", "refused", "lost"}
                                /\ phase'[i] = "idle" => phase[i] = "idle"
  <2>1. phase \in [Invocations -> Phases]
    BY DEF IInv, Types, TypeOK
  <2>2. phase' = [i \in Invocations |->
                    IF phase[i] \in {"idle", "settled", "refused"} THEN phase[i] ELSE "lost"]
    BY DEF Crash
  <2>. QED BY <2>1, <2>2 DEF Phases
<1>4. /\ runner' \in [Runs -> RunnerState]
      /\ \A r \in Runs :
           /\ runner'[r] = runner[r] \/ (r \in frames /\ runner'[r] = "gone")
           /\ runner'[r] = "none" <=> runner[r] = "none"
  <2>1. \A r \in frames : runner[r] # "none"
    BY DEF IInv, OursInv
  <2>2. runner \in [Runs -> RunnerState]
    BY DEF IInv, Types, TypeOK, ProcessesTypeOK
  <2>3. runner' = [r \in Runs |-> IF r \in frames /\ runner[r] # "ended" THEN "gone" ELSE runner[r]]
    BY DEF Crash, RestartHost
  <2>. QED BY <2>1, <2>2, <2>3 DEF RunnerState
<1>5. /\ generation' \in 0 .. MaxGeneration + 1 /\ generation' % 2 = 0
      /\ MaxGeneration = 0 => generation' = 0
  <2>1. /\ generation \in 0 .. MaxGeneration + 1 /\ MaxGeneration \in Nat
        /\ generation = MaxGeneration + 1 => generation % 2 = 0
        /\ MaxGeneration = 0 => generation = 0
    BY BoundsAssumption DEF IInv, Types, TypeOK, PresentInv
  <2>2. generation \in Nat /\ generation % 2 \in {0, 1}
    BY <2>1
  <2>. QED BY <1>2, <2>1, <2>2
<1>6. Types'
  <2>1. IsFiniteSet({})
    BY FS_EmptySet
  <2>2. /\ held' \in [Invocations -> SUBSET Lease] /\ starts' \in [Invocations -> SUBSET Runs]
        /\ observed' \in [Observers -> SUBSET Lease]
    BY <1>2
  <2>3. ProcessesTypeOK'
    BY <1>1, <1>2, <1>4 DEF IInv, Types, TypeOK, ProcessesTypeOK
  <2>4. TypeOK'
    BY <1>2, <1>3, <1>5, <2>2, <2>3 DEF IInv, Types, TypeOK, Observers
  <2>. QED BY <1>2, <2>1, <2>4 DEF IInv, Types
<1>7. ASSUME NEW r \in Runs, NEW k, Engaged(r, k)' PROVE Engaged(r, k)
  BY <1>2, <1>4, <1>7 DEF Engaged
<1>8. ASSUME NEW r, NEW k, Bound(r, k) PROVE Bound(r, k)'
  BY <1>2, <1>8 DEF Bound
<1>9. LeaseInv'
  <2>1. \A l \in ledger.leases : l.run \in Runs
    BY DEF IInv, Types, Sound, Ledger, Lease
  <2>. QED BY <1>2, <1>4, <2>1 DEF IInv, LeaseInv
<1>10. WriterInv'
  <2>1. ASSUME NEW w \in writers, Engaged(w[1], w[2])' PROVE Bound(w[1], w[2])'
    <3>1. w[1] \in Runs
      BY DEF IInv, Types, TypeOK, ProcessesTypeOK, AgentId
    <3>2. Engaged(w[1], w[2])
      BY <1>7, <2>1, <3>1
    <3>3. Bound(w[1], w[2])
      BY <3>2 DEF IInv, WriterInv
    <3>. QED BY <1>8, <3>3
  <2>. QED BY <1>2, <2>1 DEF WriterInv
<1>11. OursInv'
  BY <1>2, <1>4 DEF IInv, OursInv, Types, TypeOK, ProcessesTypeOK
<1>12. PresentInv'
  BY <1>3, <1>5 DEF PresentInv
<1>13. ASSUME NEW i \in Invocations
       PROVE  RunInv(i)' /\ CoverInv(i)' /\ StartInv(i)' /\ HeldInv(i)' /\ HandleInv(i)'
  <2>1. Runtime[i] \in Runs /\ RunInv(i) /\ CoverInv(i)
    BY OwnIds DEF IInv
  <2>2. RunInv(i)'
    BY <1>2, <1>3, <1>4, <2>1 DEF RunInv
  <2>3. CoverInv(i)'
    <3>1. ASSUME runner'[Runtime[i]] = "working", NEW k \in Children(i)
          PROVE  <<Runtime[i], k>> \in terminal \/ Bound(Runtime[i], k)'
      <4>1. runner[Runtime[i]] = "working"
        BY <1>4, <2>1, <3>1
      <4>. QED BY <1>8, <2>1, <4>1 DEF CoverInv
    <3>. QED BY <1>2, <1>3, <3>1 DEF CoverInv
  <2>4. StartInv(i)'
    BY <1>2, FS_EmptySet DEF StartInv
  <2>5. HeldInv(i)' /\ HandleInv(i)'
    <3>1. \A j \in Invocations : held'[j] = {}
      BY <1>2
    <3>2. phase'[i] \notin Underway \cup {"returned"}
      BY <1>3 DEF Underway
    <3>. QED BY <3>1, <3>2 DEF HeldInv, HandleInv
  <2>. QED BY <2>2, <2>3, <2>4, <2>5
<1>14. \A x \in Observers : observed'[x] = {}
  BY <1>2
<1>. QED BY <1>2, <1>6, <1>9, <1>10, <1>11, <1>12, <1>13, <1>14 DEF IInv

-----------------------------------------------------------------------------
(* Every step *)

LEMMA StepMoves ==
  ASSUME IInv, NoStraggler, Next, ~Crash
  PROVE  Moves /\ Types' /\ PresentInv'
<1>1. ASSUME NEW i \in Invocations, InvocationStep(i) PROVE Moves /\ Types' /\ PresentInv'
  BY <1>1, PrepareObserveMoves, PrepareReclaimMoves, PrepareReserveMoves, PrepareRefusedMoves,
     PrepareReturnMoves, StartMoves, RunForegroundMoves, ReturnMoves DEF InvocationStep
<1>2. ASSUME NEW b \in bindings, BindingStep(b) PROVE Moves /\ Types' /\ PresentInv'
  BY <1>2, BindStartedMoves, AcknowledgeStartedMoves, StartedFailsMoves DEF BindingStep
<1>3. ASSUME NEW p \in pending, SettlementStep(p) \/ SettlementFault(p)
      PROVE  Moves /\ Types' /\ PresentInv'
  BY <1>3, SettlementBindMoves, SettlementRejectedMoves, SettlementAcknowledgeMoves,
     SettlementSweepMoves, SettleStartErrorMoves, SettleBackgroundMoves, SettleForegroundMoves
     DEF SettlementStep
<1>4. ASSUME NEW c \in completions, CompletionStep(c) PROVE Moves /\ Types' /\ PresentInv'
  BY <1>4, CompletionStepMoves
<1>5. ASSUME NEW i \in Invocations, NEW k \in Children(i), Complete(Runtime[i], k)
      PROVE  Moves /\ Types' /\ PresentInv'
  BY <1>5, CompleteMoves
<1>6. CASE SweepObserve \/ SweepReclaim
  BY <1>6, SweepMoves
<1>7. CASE SwitchSession
  BY <1>7, SwitchMoves
<1>8. CASE ProcessStep
  BY <1>8, ProcessStepMoves
<1>. QED BY <1>1, <1>2, <1>3, <1>4, <1>5, <1>6, <1>7, <1>8 DEF Next

LEMMA InitInvariant ==
  ASSUME Init
  PROVE  IInv
<1>1. /\ host \in Hosts /\ dead = {} /\ runner = [r \in Runs |-> "none"]
      /\ writers = {} /\ terminal = {} /\ frames = {} /\ opened = {} /\ aborted = {}
      /\ ledger \in Openings /\ issued = 0 /\ generation = 0 /\ faults = 0
      /\ phase = [i \in Invocations |-> "idle"] /\ bornIn = [i \in Invocations |-> 0]
      /\ held = [i \in Invocations |-> {}] /\ starts = [i \in Invocations |-> {}]
      /\ active = {} /\ asyncStarts = {} /\ bindings = {} /\ pending = {}
      /\ completions = {} /\ reported = {} /\ observed = [x \in Observers |-> {}]
  BY DEF Init, ProcessesInit, Observers
<1>2. IsFiniteSet({}) /\ Cardinality({}) = 0
  BY FS_EmptySet
<1>3. Sound(ledger)
  <2>1. /\ ledger \in Ledger /\ IsFiniteSet(ledger.agents) /\ Parses(ledger) /\ ledger.leases = {}
        /\ \A a \in ledger.agents :
             /\ a.limits.maxDepth <= ledger.limits.maxDepth
             /\ a.limits.maxRunning <= ledger.limits.maxRunning
    BY <1>1, OpeningAssumption
  <2>2. Cardinality(ledger.leases) <= ledger.limits.maxRunning
    BY <1>2, <2>1 DEF Ledger, Limits
  <2>. QED BY <1>1, <1>2, <2>1, <2>2 DEF Sound
<1>4. Types
  <2>1. ProcessesTypeOK
    BY <1>1 DEF ProcessesTypeOK, RunnerState
  <2>2. ledger \in Ledger /\ MaxGeneration \in Nat /\ MaxFaults \in Nat
    BY <1>3, BoundsAssumption DEF Sound
  <2>3. TypeOK
    BY <1>1, <2>1, <2>2 DEF TypeOK, Phases, Observers
  <2>. QED BY <1>1, <1>2, <1>3, <2>3 DEF Types
<1>5. LeaseInv /\ WriterInv /\ OursInv
  BY <1>1, OpeningAssumption DEF LeaseInv, WriterInv, OursInv
<1>6. PresentInv
  BY <1>1, BoundsAssumption DEF PresentInv
<1>7. ASSUME NEW i \in Invocations
      PROVE  RunInv(i) /\ CoverInv(i) /\ StartInv(i) /\ HeldInv(i) /\ HandleInv(i)
  <2>1. Runtime[i] \in Runs
    BY OwnIds
  <2>2. RunInv(i) /\ CoverInv(i)
    BY <1>1, <2>1 DEF RunInv, CoverInv
  <2>3. StartInv(i)
    BY <1>1, <1>2 DEF StartInv
  <2>4. HeldInv(i) /\ HandleInv(i)
    BY <1>1 DEF HeldInv, HandleInv, Underway
  <2>. QED BY <2>2, <2>3, <2>4
<1>8. \A x \in Observers : observed[x] = {}
  BY <1>1
<1>. QED BY <1>1, <1>4, <1>5, <1>6, <1>7, <1>8 DEF IInv

LEMMA StutterMoves ==
  ASSUME IInv, UNCHANGED vars
  PROVE  Moves /\ Types' /\ PresentInv'
<1>1. /\ UNCHANGED <<ledger, issued, generation, bornIn, held, phase, starts, active, asyncStarts,
                     bindings, pending, completions, reported, observed, faults>>
      /\ UNCHANGED processVars
  BY DEF vars, memory
<1>2. Moves
  BY <1>1, ProcessStays, LedgerStays, HeldStays, PhaseStays, StartsStay, BindingsStay, PendingStays,
     CompletionsStay, ObservedStays DEF Moves
<1>3. Types'
  BY <1>1 DEF IInv, Types, TypeOK, ProcessesTypeOK, processVars
<1>4. PresentInv'
  BY <1>1, PresentStays
<1>. QED BY <1>2, <1>3, <1>4

LEMMA NextInvariant ==
  ASSUME IInv, NoStraggler, [Next]_vars
  PROVE  IInv'
<1>1. CASE Crash
  BY <1>1, CrashKeeps
<1>2. CASE Next /\ ~Crash
  BY <1>2, StepMoves, MovesKeep
<1>3. CASE UNCHANGED vars
  BY <1>3, StutterMoves, MovesKeep
<1>. QED BY <1>1, <1>2, <1>3

\* The inductive invariant holds in every state of the coordinator: what its
\* maps, reservations, start events, settlements and completions know of each
\* other and of the processes, across awaits, retries and crashes.
THEOREM Invariance ==
  ASSUME NoStraggler
  PROVE  Spec => []IInv
<1>1. Init => IInv
  BY InitInvariant
<1>2. IInv /\ [Next]_vars => IInv'
  BY NextInvariant
<1>. QED BY <1>1, <1>2, PTL DEF Spec

\* Every variable of the coordinator keeps its type: an attempt of a
\* settlement never runs past its last child (bindReservationRuntime), and
\* only children that are over were reported (complete).
THEOREM TypeCorrect ==
  ASSUME NoStraggler
  PROVE  Spec => []TypeOK
<1>1. IInv => TypeOK
  BY DEF IInv, Types
<1>. QED BY <1>1, Invariance, PTL

\* An Agent at work holds a slot of the session: for any launches, resumes,
\* crashes and late answers, the writer of a child that is not over has a
\* lease at its address (observeAsyncStarted and acknowledgeStart, the
\* settlements, complete and the reconciliations).
THEOREM WorkAlwaysLeased ==
  ASSUME NoStraggler
  PROVE  Spec => []WorkIsLeased
<1>1. IInv => WorkIsLeased
  <2>. SUFFICES ASSUME IInv, NEW w \in writers \ terminal
                PROVE  \E l \in ledger.leases : RuntimeAddress(l) = w
    BY DEF WorkIsLeased
  <2>1. w = <<w[1], w[2]>>
    BY DEF IInv, Types, TypeOK, ProcessesTypeOK, AgentId
  <2>2. Engaged(w[1], w[2])
    BY <2>1 DEF Engaged
  <2>3. Bound(w[1], w[2])
    BY <2>2 DEF IInv, WriterInv
  <2>. QED BY <2>1, <2>3 DEF Bound
<1>. QED BY <1>1, Invariance, PTL

LEMMA GateMoveIsBound ==
  ASSUME IInv, Moves, NEW i \in Invocations, runner[Runtime[i]] = "gated",
         runner'[Runtime[i]] = "working", NEW k \in Children(i)
  PROVE  \E l \in ledger'.leases : RuntimeAddress(l) = AddressIn(i, k) /\ l.proc = Runtime[i]
<1> DEFINE r == Runtime[i]
<1>1. r \in Runs /\ RunnerMove(r)
  BY OwnIds DEF Moves, ProcessMove
<1>2. MayOpen(r) /\ Bound(r, k)
  BY <1>1 DEF RunnerMove
<1>3. Needed(r, k)
  BY <1>2 DEF Needed
<1>. HIDE DEF r
<1>4. Bound(r, k)'
  BY <1>1, <1>2, <1>3, BoundKept DEF Moves
<1>. QED BY <1>4, ChildIds DEF Bound, AddressIn, r

\* A detached runner passes its gate only when every child of its invocation
\* is bound to it in the ledger (acknowledgeStart runs after the last binding
\* of the start event or of the settlement, whichever comes first).
THEOREM GateAlwaysAfterBinding ==
  ASSUME NoStraggler
  PROVE  Spec => GateAfterBinding
<1> DEFINE Step == \A i \in Invocations :
       (Runtime[i] \notin frames /\ runner[Runtime[i]] = "gated"
          /\ runner'[Runtime[i]] = "working")
       => \A k \in Children(i) : \E l \in ledger'.leases :
            RuntimeAddress(l) = AddressIn(i, k) /\ l.proc = Runtime[i]
<1>1. IInv /\ [Next]_vars => [Step]_vars
  <2>. SUFFICES ASSUME IInv, [Next]_vars PROVE [Step]_vars
    OBVIOUS
  <2>1. CASE Crash
    <3>1. \A r \in Runs : runner[r] = "gated" => runner'[r] # "working"
      BY <2>1 DEF Crash, RestartHost
    <3>. QED BY <3>1, OwnIds
  <2>2. CASE Next /\ ~Crash
    BY <2>2, StepMoves, GateMoveIsBound
  <2>. QED BY <2>1, <2>2
<1>. QED BY <1>1, Invariance, PTL DEF Spec, GateAfterBinding

LEMMA RemovedIsIdle ==
  ASSUME IInv, Moves, NEW l \in ledger.leases, l.proc \in Runs \ frames,
         \A m \in ledger'.leases : m.token # l.token
  PROVE  RuntimeAddress(l) \notin writers'
<1>1. l.run = l.proc /\ ~Needed(l.run, l.index)
  <2>1. ~\E m \in ledger'.leases : Moved(l, m)
    BY DEF Moved
  <2>. QED BY <2>1 DEF Moves, LedgerMove, IInv, LeaseInv
<1>2. RuntimeAddress(l) = <<l.run, l.index>>
  BY DEF RuntimeAddress
<1>3. <<l.run, l.index>> \notin writers
  BY <1>1 DEF Needed, Engaged
<1>4. runner[l.run] # "working" \/ <<l.run, l.index>> \in terminal
  BY <1>1 DEF Needed, Engaged
<1>5. ASSUME <<l.run, l.index>> \in writers' PROVE FALSE
  <2>1. runner[l.run] = "working" /\ <<l.run, l.index>> \notin terminal'
    BY <1>3, <1>5 DEF Moves, ProcessMove
  <2>. QED BY <1>4, <2>1 DEF Moves, ProcessMove
<1>. QED BY <1>2, <1>5

\* A lease that names a detached run leaves the ledger only when the writer
\* of its child is gone, whoever removes it: the report of the child's end,
\* a reconciliation with an old observation, or a settlement that gives its
\* reservation back (completeRuntime, reconcileDead, rollback and release).
THEOREM ReleaseAlwaysNeedsProof ==
  ASSUME NoStraggler
  PROVE  Spec => ReleaseNeedsProof
<1> DEFINE Step == \A l \in ledger.leases :
       (l.proc \in Runs \ frames /\ \A m \in ledger'.leases : m.token # l.token)
       => RuntimeAddress(l) \notin writers'
<1>1. IInv /\ [Next]_vars => [Step]_vars
  <2>. SUFFICES ASSUME IInv, [Next]_vars PROVE [Step]_vars
    OBVIOUS
  <2>1. CASE Crash
    BY <2>1 DEF Crash
  <2>2. CASE Next /\ ~Crash
    BY <2>2, StepMoves, RemovedIsIdle
  <2>. QED BY <2>1, <2>2
<1>. QED BY <1>1, Invariance, PTL DEF Spec, ReleaseNeedsProof
=============================================================================
