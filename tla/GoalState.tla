------------------------------ MODULE GoalState ------------------------------
(***************************************************************************)
(* The Goal of a Session: what goal/src/runtime.ts, policy.ts, queue.ts    *)
(* and prompt-ownership.ts keep in memory and how their methods change it. *)
(* Every operator takes the memory `r` of the Extension and returns it     *)
(* changed; GoalRuntime composes them into the handlers of Host events and *)
(* commands.                                                               *)
(*                                                                         *)
(* The random ids of Goals and markers of prompts are the least number     *)
(* nothing refers to any more.  Usage is counted in model responses.  The  *)
(* terminal Tools are always active, the experimental queue is enabled and *)
(* not frozen.                                                             *)
(***************************************************************************)
EXTENDS Naturals, Sequences, SequencesExt

CONSTANTS
  None,        \* undefined
  Foreign,     \* the null of agentRunGoalId: a run no Goal is charged for
  Ids, Marks,  \* ids of Goals and markers of prompts
  TurnLimit    \* automatic responses after which a Goal is paused

VARIABLES
  rt,          \* the memory of the Extension: goal, queue and pending change (saved: as last
               \* persisted), continuation (intent, delivery), markers (prompts, claimed,
               \* cancelled, conts), noted inputs (mirror), whose run it is (run, origin),
               \* recovery, wrapUp, guard, stale; prompts under preparation (sends), an
               \* open dialog (ask), whether the run was aborted (abort), and for the properties
               \* alone whether a cancelled continuation was put back (revived)
  inbox,       \* messages the Host accepted and has not delivered
  tokens       \* usage of the Session's branch

----------------------------------------------------------------------------
(* Goals *)

Reached(g) == g.budget # None /\ g.used >= g.budget

\* A plausible slip, for the mutation runs: a Goal is charged for what was used before it.
NewGoal_Whole(id, status, budget) ==
  [id |-> id, status |-> status, budget |-> budget, used |-> 0, base |-> 0, turns |-> 0, reset |-> FALSE]

NewGoal(id, status, budget) ==
  [id |-> id, status |-> status, budget |-> budget, used |-> 0,
   base |-> IF status = "active" THEN tokens ELSE 0, turns |-> 0, reset |-> FALSE]

Transition(g, status) ==
  [g EXCEPT !.status = IF status = "active" /\ Reached(g) THEN "budget_limited" ELSE status]

Rebased(g) == [g EXCEPT !.base = IF tokens > g.used THEN tokens - g.used ELSE 0]

FreshEpoch(g) == [g EXCEPT !.turns = 0, !.reset = FALSE]

\* A plausible slip, for the mutation runs: a stopped Goal is queued like any other.
Shelved_Any(g) == [g EXCEPT !.status = "queued"]

Shelved(g) == IF g.status = "active" THEN [g EXCEPT !.status = "queued"] ELSE g

\* A queued Goal becomes the active one, under a new id, unless its budget is used up.
Activated(g, id) ==
  IF g.status # "queued" THEN Rebased(g)
  ELSE LET a == Transition([Rebased(g) EXCEPT !.id = id], "active")
       IN  IF a.status = "active" /\ a.reset THEN FreshEpoch(a) ELSE a

Stopped == {"paused", "blocked", "usage_limited"}   \* blocksStaleGoalToolCalls

HasGoal(r, id) == r.goal # None /\ r.goal.id = id
Active(r) == r.goal # None /\ r.goal.status = "active"
ActiveAs(r, id) == Active(r) /\ r.goal.id = id

Pending(r, kind) == r.pending # None /\ r.pending.kind = kind

----------------------------------------------------------------------------
(* Ids and markers that something refers to *)

IdOf(x) == IF x = None THEN {} ELSE {x.goal}
GoalId(g) == IF g = None THEN {} ELSE {g.id}
QueueIds(q) == {q[k].id : k \in DOMAIN q}

UsedIds(r) ==
  UNION {GoalId(r.goal), QueueIds(r.queue), IdOf(r.intent), IdOf(r.delivery), IdOf(r.recovery),
         IdOf(r.wrapUp), {r.run, r.guard}, GoalId(r.saved.goal), QueueIds(r.saved.queue)}
    \cup (IF Pending(r, "advance") THEN {r.pending.goal} ELSE {})
    \cup UNION {IdOf(x) : x \in r.prompts \cup r.claimed \cup r.conts}
    \cup UNION {{s.goal} \cup GoalId(s.back) \cup QueueIds(s.queue) : s \in r.sends}
    \cup {inbox[k].goal : k \in DOMAIN inbox} \cup IdOf(r.ask)

FreshId(r) == CHOOSE id \in Ids \ UsedIds(r) : \A other \in Ids \ UsedIds(r) : id <= other

CarriedMarks(r) ==
  {s.mark : s \in r.sends} \cup {inbox[k].mark : k \in DOMAIN inbox}
    \cup {x.mark : x \in {r.intent, r.delivery} \ {None}}

FreshMark(r) ==
  LET free == Marks \ (CarriedMarks(r) \cup r.cancelled \cup {x.mark : x \in r.prompts \cup r.claimed \cup r.conts})
  IN  CHOOSE m \in free : \A other \in free : m <= other

----------------------------------------------------------------------------
(* prompt-ownership.ts *)

HasWork(r, id) == id \in IdOf(r.intent) \cup IdOf(r.delivery)

\* A plausible slip, for the mutation runs: one more although one is on its way.
RequestContinuation_Always(r) ==
  [r EXCEPT !.intent = [goal |-> r.goal.id, mark |-> FreshMark(r)]]

RequestContinuation(r) ==
  IF HasWork(r, r.goal.id) THEN r
  ELSE [r EXCEPT !.intent = [goal |-> r.goal.id, mark |-> FreshMark(r)]]

\* A plausible slip, for the mutation runs: what the Host already has is forgotten.
CancelWork_Unmarked(r) == [r EXCEPT !.intent = None, !.delivery = None]

CancelWork(r) ==
  [r EXCEPT !.cancelled = IF r.delivery = None THEN @ ELSE @ \cup {r.delivery.mark},
            !.intent = None, !.delivery = None]

Owners(r, m) == {p \in r.prompts \cup r.claimed : m.kind = "prompt" /\ p.mark = m.mark}

\* markContinuationStarted: what the Host starts is a continuation, or newer work.
ContinuationStarted(r, m) ==
  IF m.kind = "continue" /\ r.delivery # None /\ r.delivery.mark = m.mark
  THEN [r EXCEPT !.delivery = None, !.conts = @ \cup {[goal |-> m.goal, mark |-> m.mark]}]
  ELSE IF m.kind = "continue" /\ \E c \in r.conts : c.mark = m.mark THEN r
  ELSE CancelWork(r)

----------------------------------------------------------------------------
(* runtime.ts *)

Saved(r) == [goal |-> r.goal, queue |-> r.queue, pending |-> r.pending]
Persist(r) == [r EXCEPT !.saved = Saved(r)]

NoRun(r) == [r EXCEPT !.run = None, !.origin = None]

CanRecord(r, id) ==
  /\ r.run # Foreign
  /\ r.run \in {None, id}
  /\ ~(Pending(r, "prioritize") /\ r.pending.finalized)

Charges(r) == r.goal # None /\ r.goal.status \notin {"complete", "blocked"} /\ CanRecord(r, r.goal.id)

Usage(g) == IF tokens > g.base THEN tokens - g.base ELSE 0

Charge(r) == IF Charges(r) THEN [r EXCEPT !.goal.used = Usage(r.goal)] ELSE r

ForgetRecovery(r) == IF r.goal.id \in IdOf(r.recovery) THEN [r EXCEPT !.recovery = None] ELSE r

ActiveWrapUp(r) ==
  /\ r.goal # None /\ r.goal.status = "budget_limited"
  /\ r.wrapUp # None /\ r.wrapUp.goal = r.goal.id /\ r.wrapUp.delivered

\* What stops, replaces or reactivates a Goal leaves nothing of the old one.
Superseded(r) == [CancelWork(r) EXCEPT !.recovery = None, !.wrapUp = None, !.stale = FALSE]

OverBudget(r) == Active(r) /\ Reached(r.goal)

LimitForBudget(r) ==
  Persist([ForgetRecovery(CancelWork(r)) EXCEPT !.wrapUp = None, !.goal = Transition(@, "budget_limited")])

TurnsReached(r) == Active(r) /\ r.goal.turns >= TurnLimit

PauseForSafety(r, abort) ==
  Persist([ForgetRecovery(CancelWork(r)) EXCEPT
             !.wrapUp = None, !.stale = TRUE, !.goal = Transition(@, "paused"),
             !.guard = IF abort THEN r.goal.id ELSE @, !.abort = @ \/ abort])

\* A plausible slip, for the mutation runs: the stopped Goal is not saved.
Stop_Unsaved(r, status) ==
  [CancelWork(r) EXCEPT !.wrapUp = None, !.stale = TRUE, !.abort = TRUE, !.goal = Transition(@, status)]

Stop(r, status) ==
  Persist([CancelWork(r) EXCEPT !.wrapUp = None, !.stale = TRUE, !.abort = TRUE, !.goal = Transition(@, status)])

ResetEpoch(r) ==
  IF Active(r)
  THEN Persist([r EXCEPT !.goal = FreshEpoch(@), !.origin = IF r.run = None THEN @ ELSE "manual"])
  ELSE r

\* clearActiveGoal: the Goal, its queue and every sign of them.
Cleared(r) ==
  LET c == [Superseded(r) EXCEPT !.goal = None, !.queue = <<>>, !.pending = None]
  IN  Persist(c)

\* finalizeSettledRecovery: the Host retries no more, the Goal goes on.
RecoveryOver(r) ==
  LET c == [r EXCEPT !.recovery = None]
  IN  IF r.recovery = None \/ ~ActiveAs(r, r.recovery.goal) THEN c
      ELSE RequestContinuation(Persist([CancelWork(c) EXCEPT !.wrapUp = None, !.stale = FALSE]))

SettledTracking(r) == NoRun([r EXCEPT !.guard = None, !.mirror = <<>>, !.claimed = {}, !.conts = {}])

\* A prompt on its way to the Host, while the other Capabilities prepare for it.
\* back and queue are what its sender restores should the prompt not be taken.
Sending(r, op, mark, settle, back, queue) ==
  [r EXCEPT !.sends = @ \cup {[op |-> op, goal |-> r.goal.id, mark |-> mark, settle |-> settle,
                               back |-> back, queue |-> queue]}]

SendOwned(r, op, settle, back, queue, reset, origin) ==
  LET m == FreshMark(r)
      p == [goal |-> r.goal.id, mark |-> m, origin |-> origin, reset |-> reset]
  IN  Sending([r EXCEPT !.prompts = @ \cup {p}], op, m, settle, back, queue)

QueueWrapUp(r) ==
  Sending([r EXCEPT !.wrapUp = [goal |-> r.goal.id, delivered |-> TRUE]], "wrapUp", None, FALSE, None, <<>>)
==============================================================================
