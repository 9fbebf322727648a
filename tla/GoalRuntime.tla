----------------------------- MODULE GoalRuntime -----------------------------
(***************************************************************************)
(* Goal in a running Session: its handlers of the Host's events (goal.ts), *)
(* its commands (commands.ts), its Tools (terminal-tools.ts) and the Host  *)
(* around them.                                                            *)
(*                                                                         *)
(* A run of the Host delivers messages, lets the model reply and executes  *)
(* the Tool call of a reply; its events reach Goal in that order.  Prompts *)
(* of Goal are prepared by other Capabilities before the Host has them     *)
(* (suite-agent-message.ts): events and commands come in between.  What a  *)
(* handler does between two awaits is one step.                            *)
(***************************************************************************)
EXTENDS GoalState, FiniteSets

CONSTANTS
  Budgets,       \* of a Goal: None or a number of responses
  Sessions,      \* what a Session may hold of Goals when it starts
  MaxQueued,     \* MAX_QUEUED_GOALS
  MaxCommands, MaxInputs, MaxFaults,
  MaxResponses   \* that are counted; later ones report no usage, fail never and call no Tool

VARIABLES
  host,      \* what the Host is doing: it starts or reloads a Session, is idle, or in a run
             \* open to messages and replies, executes a Tool call (working, completing,
             \* blocking, refused), got an answer or an error (spoke, erred), ended its
             \* turn (said, failed, aborted), waits to retry or settles
  results,   \* Agents have a result to deliver (pendingResultDelivery)
  commands, inputs, faults   \* how many there were

vars == <<rt, inbox, tokens, host, results, commands, inputs, faults>>

ASSUME GoalAssumption ==
  /\ Ids \subseteq Nat /\ Marks \subseteq Nat /\ None \notin Ids \cup Marks \cup {Foreign}
  /\ Foreign \notin Ids
  /\ TurnLimit \in Nat \ {0} /\ MaxQueued \in Nat /\ Budgets \subseteq Nat \cup {None}

IsGoal(g) == g = [f \in {"id", "status", "budget", "used", "base", "turns", "reset"} |-> g[f]]

IsQueue(q) ==
  /\ q \in Seq({q[k] : k \in DOMAIN q}) /\ Len(q) <= MaxQueued
  /\ \A k \in DOMAIN q : IsGoal(q[k]) /\ q[k].status # "complete"

IsChange(p) ==
  \/ p = None
  \/ p.kind = "prioritize" /\ p = [f \in {"kind", "budget", "finalized"} |-> p[f]]
  \/ p.kind = "advance"

\* A Goal with its queue and the change of it that waits, as Goal itself leaves and saves them.
Sensible(s) ==
  /\ s.goal = None \/ IsGoal(s.goal)
  /\ IsQueue(s.queue) /\ IsChange(s.pending)
  /\ s.goal = None => s.queue = <<>> /\ s.pending = None
  /\ s.goal # None /\ s.goal.status = "complete" => s.pending # None
  /\ s.goal # None /\ s.goal.status \in {"active", "complete"} /\ Pending(s, "advance")
       => s.pending.goal = s.goal.id

ASSUME SessionsAssumption == \A s \in Sessions : Sensible(s)

NewMemory(s) ==
  [goal |-> s.goal, queue |-> s.queue, pending |-> s.pending,
   intent |-> None, delivery |-> None, prompts |-> {}, claimed |-> {},
   cancelled |-> {}, conts |-> {}, mirror |-> <<>>,
   run |-> None, origin |-> None, recovery |-> None, wrapUp |-> None,
   guard |-> None, stale |-> FALSE, sends |-> {}, ask |-> None, abort |-> FALSE,
   revived |-> FALSE, saved |-> s]

NoGoal == [goal |-> None, queue |-> <<>>, pending |-> None]

Init ==
  /\ rt \in {NewMemory(s) : s \in Sessions} /\ inbox = <<>> /\ tokens = 0
  /\ host = "starting" /\ results = FALSE
  /\ commands = 0 /\ inputs = 0 /\ faults = 0

Starting == host \in {"starting", "reloading"}
Busy == host # "idle" /\ ~Starting
Free == host = "idle" /\ inbox = <<>>   \* ctx.isIdle() and nothing pending

-----------------------------------------------------------------------------
(* The start of a run for a message: beginPromptRun *)

Foreigner(r) == [r EXCEPT !.run = Foreign, !.origin = None]
Stopping(r, owned) == [r EXCEPT !.abort = @ \/ owned]
RunFor(r, id, origin) == [r EXCEPT !.run = id, !.origin = origin]

StalePrompt(r, m) ==
  \E p \in r.prompts : m.kind = "prompt" /\ p.mark = m.mark
                       /\ ~(r.pending = None /\ ActiveAs(r, p.goal))

Claim(r, m) ==
  LET owners == Owners(r, m)
  IN  IF owners = {} THEN ContinuationStarted(r, m)
      ELSE [r EXCEPT !.prompts = @ \ owners, !.claimed = @ \cup owners]

\* The usage of a displaced Goal ends where the work that displaces it begins.
DisplacedUsage(r) ==
  IF r.pending.finalized THEN r
  ELSE LET c == [(IF Active(r) THEN Charge(r) ELSE r) EXCEPT !.pending.finalized = TRUE]
       IN  IF c.goal = None THEN c ELSE Persist(c)

BeginPromptRun(r0, m) ==
  LET r1     == NoRun(r0)
      r      == Claim([r1 EXCEPT !.recovery = None, !.guard = None], m)
      owners == Owners(r1, m)
      kept   == {c.mark : c \in r.conts}
      owned  == owners # {} \/ (m.kind = "continue" /\ m.mark \in kept)
      origin == IF owners = {} THEN "automatic" ELSE (CHOOSE p \in owners : TRUE).origin
  IN  IF m.kind = "continue" /\ m.mark \in r1.cancelled
      THEN Stopping(Foreigner([r1 EXCEPT !.cancelled = @ \ {m.mark}]), TRUE)
      ELSE IF StalePrompt(r1, m) THEN Stopping(Foreigner([r1 EXCEPT !.prompts = @ \ owners]), TRUE)
      ELSE IF Pending(r, "prioritize") /\ ~ActiveWrapUp(r) THEN Stopping(Foreigner(DisplacedUsage(r)), owned)
      ELSE IF ActiveWrapUp(r) THEN RunFor(r, r.goal.id, "manual")
      ELSE IF Pending(r, "advance") /\ HasGoal(r, r.pending.goal)
      THEN Stopping(RunFor(r, IF owned THEN m.goal ELSE r.goal.id, origin), owned)
      ELSE IF owned /\ ~HasGoal(r, m.goal) THEN Stopping(RunFor(r, m.goal, origin), TRUE)
      ELSE IF ~Active(r) THEN r
      ELSE IF \E p \in owners : p.reset
      THEN Persist([RunFor(r, r.goal.id, origin) EXCEPT !.goal = FreshEpoch(@)])
      ELSE RunFor(r, r.goal.id, origin)

-----------------------------------------------------------------------------
(* Messages: handleGoalMessageStart *)

PrepareNonGoal(r, reset, origin) ==
  LET c == [r EXCEPT !.recovery = None, !.guard = None, !.stale = FALSE,
                     !.wrapUp = IF reset THEN None ELSE @]
      b == IF origin = None THEN c ELSE IF Active(c) THEN RunFor(c, c.goal.id, origin) ELSE Foreigner(c)
  IN  IF reset THEN ResetEpoch(b) ELSE b

\* Of the inputs Goal noted, the Host delivers steers first.
UserMessage(r) ==
  LET noted == ToSet(r.mirror)
      how   == CHOOSE b \in noted : \/ b = "steer"
                                    \/ b = "followUp" /\ "steer" \notin noted
                                    \/ noted = {"idle"}
  IN  IF noted = {} THEN r
      ELSE PrepareNonGoal([r EXCEPT !.mirror = RemoveFirst(@, how)], TRUE,
                          IF how = "followUp" THEN "manual" ELSE None)

MessageStart(r, m) ==
  LET c == [r EXCEPT !.mirror = SelectSeq(@, LAMBDA b : b # "idle")]
  IN  IF m.kind = "user" THEN UserMessage(r)
      ELSE IF m.kind \in {"prompt", "continue"} THEN BeginPromptRun(c, m)
      ELSE IF m.kind = "wrapUp" /\ HasGoal(r, m.goal) /\ m.goal \in IdOf(r.wrapUp) THEN c
      ELSE PrepareNonGoal(c, FALSE, "automatic")

\* agent_start: a retry of the Host belongs to the Goal whose run failed.
AgentStart(r) ==
  IF /\ r.goal # None /\ r.run = None /\ r.goal.id \in IdOf(r.recovery)
     /\ ~(r.guard = r.goal.id /\ r.goal.status = "paused")
  THEN RunFor(r, r.goal.id, r.recovery.origin)
  ELSE r

NewRun(r) == AgentStart([r EXCEPT !.abort = FALSE])

Msg(kind, mark, goal, how) == [kind |-> kind, mark |-> mark, goal |-> goal, how |-> how]

\* Follow-ups come last, in their order.
Queued(m) ==
  LET later == {k \in DOMAIN inbox : inbox[k].how = "followUp"}
      first == CHOOSE k \in later : \A j \in later : k <= j
  IN  IF m.how = "followUp" \/ later = {} THEN Append(inbox, m) ELSE InsertAt(inbox, first, m)

\* pi.sendMessage: a message of an Extension starts a run or waits in the one that goes on.
Accept(r, m) ==
  IF Busy
  THEN rt' = r /\ inbox' = Queued(m) /\ UNCHANGED host
  ELSE rt' = NewRun(r) /\ inbox' = <<[m EXCEPT !.how = "first"]>> \o inbox /\ host' = "open"

\* The user types a message: input, before_agent_start, agent_start.
UserPrompts ==
  /\ inputs < MaxInputs /\ inputs' = inputs + 1
  /\ host = "idle" /\ rt.ask = None
  /\ LET m == Msg("user", None, None, "first")
     IN  /\ rt' = NewRun(BeginPromptRun([rt EXCEPT !.mirror = <<"idle">>], m))
         /\ inbox' = <<m>> \o inbox
  /\ host' = "open"
  /\ UNCHANGED <<tokens, results, commands, faults>>

UserQueues(how) ==
  /\ inputs < MaxInputs /\ inputs' = inputs + 1
  /\ Busy /\ rt.ask = None
  /\ rt' = [rt EXCEPT !.mirror = Append(@, how)]
  /\ inbox' = Queued(Msg("user", None, None, how))
  /\ UNCHANGED <<tokens, host, results, commands, faults>>

UserInterrupts ==
  /\ inputs < MaxInputs /\ inputs' = inputs + 1
  /\ Busy /\ rt' = [rt EXCEPT !.abort = TRUE]
  /\ UNCHANGED <<inbox, tokens, host, results, commands, faults>>

AgentsFinish ==
  /\ inputs < MaxInputs /\ inputs' = inputs + 1
  /\ results' = TRUE
  /\ UNCHANGED <<rt, inbox, tokens, host, commands, faults>>

ResultsArrive ==
  /\ results /\ results' = FALSE /\ ~Starting
  /\ Accept(rt, Msg("other", None, None, "followUp"))
  /\ UNCHANGED <<tokens, commands, inputs, faults>>

\* What an aborted run left behind starts the next one.
Drain ==
  /\ host = "idle" /\ inbox # <<>>
  /\ host' = "open"
  /\ inbox' = <<[Head(inbox) EXCEPT !.how = "first"]>> \o Tail(inbox)
  /\ rt' = NewRun(rt)
  /\ UNCHANGED <<tokens, results, commands, inputs, faults>>

\* Prompts open a run, steers any turn; a follow-up waits for the last.
Deliver ==
  /\ inbox # <<>>
  /\ host \in (IF Head(inbox).how = "followUp" THEN {"said"} ELSE {"open", "said"})
  /\ host' = "open" /\ inbox' = Tail(inbox)
  /\ rt' = MessageStart(rt, Head(inbox))
  /\ UNCHANGED <<tokens, results, commands, inputs, faults>>

-----------------------------------------------------------------------------
(* Replies of the model and what the Tools do *)

Guarded == rt.goal # None /\ rt.goal.status = "paused" /\ rt.guard = rt.goal.id

MayReply == host = "open" /\ (inbox # <<>> => Head(inbox).how # "first")

Aborts ==
  /\ MayReply /\ (rt.abort \/ Guarded)
  /\ host' = "aborted" /\ rt' = [rt EXCEPT !.abort = TRUE]
  /\ UNCHANGED <<inbox, tokens, results, commands, inputs, faults>>

InWrapUp(r) == r.goal # None /\ r.goal.status = "budget_limited" /\ r.goal.id \in IdOf(r.wrapUp)

\* tool_call: work for a Goal that stopped or used up its budget is refused.
Refuses(r, tool) ==
  \/ InWrapUp(r) /\ tool # "completing"
  \/ r.stale /\ r.goal # None /\ r.goal.status \in Stopped

Reply(tool) ==
  /\ MayReply /\ ~rt.abort /\ ~Guarded
  /\ tokens < MaxResponses /\ tokens' = tokens + 1
  /\ IF Refuses(rt, tool)
     THEN host' = "refused" /\ rt' = [rt EXCEPT !.abort = TRUE]
     ELSE host' = tool /\ rt' = [rt EXCEPT !.stale = FALSE]
  /\ UNCHANGED <<inbox, results, commands, inputs, faults>>

Answer(failed) ==
  /\ MayReply /\ ~rt.abort /\ ~Guarded
  /\ tokens' = IF tokens < MaxResponses THEN tokens + 1 ELSE tokens
  /\ failed => tokens < MaxResponses /\ faults < MaxFaults
  /\ faults' = IF failed THEN faults + 1 ELSE faults
  /\ host' = IF failed THEN "erred" ELSE "spoke"
  /\ UNCHANGED <<rt, inbox, results, commands, inputs>>

\* turn_end: recordAutomaticTurn
TurnRecorded(r, failed) ==
  IF Active(r) /\ r.run = r.goal.id /\ r.origin = "automatic"
  THEN LET c == Persist(Charge([r EXCEPT !.goal.turns = @ + 1]))
       IN  IF ~failed /\ TurnsReached(c) THEN PauseForSafety(c, TRUE) ELSE c
  ELSE r

TurnEnds ==
  /\ host \in {"spoke", "erred"}
  /\ host' = IF host = "erred" THEN "failed" ELSE "said"
  /\ rt' = TurnRecorded(rt, host = "erred")
  /\ UNCHANGED <<inbox, tokens, results, commands, inputs, faults>>

\* tool_execution_end
ToolEnded(r) ==
  LET c == Persist(Charge(r))
  IN  IF InWrapUp(r) /\ ~r.wrapUp.delivered THEN QueueWrapUp(r)
      ELSE IF ~Active(r) \/ ~Charges(r) THEN r
      ELSE IF OverBudget(c) THEN QueueWrapUp(LimitForBudget(c))
      ELSE c

\* The end of a Tool call, whatever it was, and of its turn.
ToolReturns(r) ==
  /\ rt' = TurnRecorded(ToolEnded(r), FALSE)
  /\ host' = "open"
  /\ UNCHANGED <<inbox, tokens, results, commands, inputs, faults>>

ToolDone == host \in {"working", "refused"} /\ ToolReturns(rt)

OwnsRun(r) == r.run # Foreign /\ ~(Pending(r, "prioritize") /\ r.pending.finalized)
SkipPending(r) == Pending(r, "advance") /\ r.pending.reason = "skip" /\ HasGoal(r, r.pending.goal)

\* A Tool call that is refused for good ends the run.
Terminated(r) == [Persist(Charge(r)) EXCEPT !.wrapUp = None, !.abort = TRUE]

Completed(r) ==
  LET g == Charge(r).goal
      c == [r EXCEPT !.goal = Transition(g, "complete"), !.abort = @ \/ ActiveWrapUp(r) \/ Reached(g)]
  IN  IF Pending(r, "prioritize") THEN Persist(c)
      ELSE IF r.queue = <<>> THEN Cleared(c)
      ELSE Persist([c EXCEPT !.pending = [kind |-> "advance", goal |-> g.id, reason |-> "complete"]])

\* goal_complete, with good or poor evidence or an old goal_id
GoalComplete(r, evidence) ==
  IF r.goal = None \/ ~(OwnsRun(r) \/ ActiveWrapUp(r)) THEN r
  ELSE IF SkipPending(r) \/ (evidence # "good" /\ ActiveWrapUp(r)) THEN Terminated(r)
  ELSE IF evidence = "old" \/ ~(Active(r) \/ ActiveWrapUp(r)) THEN r
  ELSE IF evidence = "poor" THEN Persist(Charge(r))
  ELSE Completed(r)

CompleteCalled == \E evidence \in {"good", "poor", "old"} :
  host = "completing" /\ ToolReturns(GoalComplete(rt, evidence))

\* goal_blocked, before and after the audit of three turns is passed
GoalBlocked(r, audited) ==
  LET c == ForgetRecovery(CancelWork(Charge(r)))
  IN  IF r.goal = None \/ ~OwnsRun(r) THEN r
      ELSE IF SkipPending(r) THEN Terminated(r)
      ELSE IF ~Active(r) THEN r
      ELSE IF ~audited THEN Persist(r)
      ELSE Persist([c EXCEPT !.wrapUp = None, !.goal = Transition(@, "blocked"),
                             !.abort = @ \/ Reached(c.goal)])

BlockedCalled == \E audited \in BOOLEAN :
  host = "blocking" /\ ToolReturns(GoalBlocked(rt, audited))

-----------------------------------------------------------------------------
(* The end of a run: handleGoalAgentEnd *)

Recovering(r, origin) ==
  Persist(CancelWork([r EXCEPT !.recovery = [goal |-> r.goal.id,
                                             origin |-> IF origin = "automatic" THEN origin ELSE "manual"]]))

ActiveEnd(r, origin, how) ==
  LET c == Charge(r)
      d == ForgetRecovery(c)
  IN  IF how = "aborted" THEN Stop(d, "paused")
      ELSE IF how = "limited" THEN Stop(d, "usage_limited")
      ELSE IF how = "retryable" /\ origin = "automatic" /\ TurnsReached(c) THEN PauseForSafety(c, TRUE)
      ELSE IF how \in {"retryable", "stop"} /\ OverBudget(c) THEN LimitForBudget(c)
      ELSE IF how # "stop" THEN Recovering(c, origin)
      ELSE IF Pending(d, "prioritize") THEN Persist(d)
      ELSE RequestContinuation(Persist(d))

AgentEnded(r0, how) ==
  LET r == NoRun(r0)
  IN  IF \/ r0.run = Foreign \/ r.goal = None
         \/ ~OwnsRun(r) /\ ~ActiveWrapUp(r)
         \/ r0.run \notin {None, r.goal.id} THEN r
      ELSE IF InWrapUp(r) THEN [Persist(Charge(r)) EXCEPT !.wrapUp = None]
      ELSE IF ~Active(r) THEN r
      ELSE IF Pending(r, "advance") /\ HasGoal(r, r.pending.goal) THEN Persist(Charge(r))
      ELSE ActiveEnd(r, r0.origin, how)

AgentEnds(how) ==
  /\ \/ host = "said" /\ inbox = <<>> /\ how = "stop"
     \/ host = "aborted" /\ how = "aborted"
     \/ host = "failed" /\ how \in {"retryable", "limited", "other"}
  /\ rt' = AgentEnded(rt, how)
  /\ host' \in IF how = "retryable" /\ ~rt'.abort THEN {"retrying", "settling"} ELSE {"settling"}
  /\ UNCHANGED <<inbox, tokens, results, commands, inputs, faults>>

\* The Host tries again after a while, unless it was aborted.
Retries ==
  /\ host = "retrying"
  /\ IF rt.abort THEN host' = "settling" /\ UNCHANGED rt
     ELSE host' = "open" /\ rt' = AgentStart(rt)
  /\ UNCHANGED <<inbox, tokens, results, commands, inputs, faults>>

-----------------------------------------------------------------------------
(* Changes of the queue and continuations, when the Host is idle *)

\* dispatchContinuationIfSettled
Continued(r, settle) ==
  IF r.intent = None THEN r
  ELSE IF ~ActiveAs(r, r.intent.goal) THEN [r EXCEPT !.intent = None]
  ELSE IF TurnsReached(r) THEN PauseForSafety(r, FALSE)
  ELSE IF (Busy /\ host # "settling") \/ inbox # <<>> \/ results THEN r
  ELSE Sending([r EXCEPT !.intent = None, !.delivery = r.intent], "continue", r.intent.mark, settle, None, <<>>)

\* activatePrioritizedGoal: a queue without room for the Goal it displaces makes it throw.
Overfull(r) == r.goal.status # "complete" /\ Len(r.queue) >= MaxQueued

Prioritized(r, settle) ==
  LET c  == [r EXCEPT !.pending = None]
      d  == IF Active(c) /\ ~r.pending.finalized THEN Charge(c) ELSE c
      to == [Superseded(d) EXCEPT
               !.goal = NewGoal(FreshId(r), "active", r.pending.budget),
               !.queue = IF d.goal.status = "complete" THEN @ ELSE <<Shelved(d.goal)>> \o @]
  IN  IF Overfull(d) THEN Superseded(d)
      ELSE SendOwned(Persist(to), "prioritize", settle, d.goal, d.queue, TRUE, "manual")

Due(r) == /\ r.goal # None /\ r.goal.id = r.pending.goal
          /\ r.goal.status = "complete" \/ r.pending.reason = "skip"

\* The Goal that is complete or skipped makes room for the first of the queue.
Advanced(r, settle) ==
  LET c  == Superseded([r EXCEPT !.pending = None])
      to == [c EXCEPT !.goal = Activated(Head(r.queue), FreshId(r)), !.queue = Tail(@)]
      origin == IF r.pending.reason = "skip" THEN "manual" ELSE "automatic"
  IN  IF r.queue = <<>> THEN Cleared(c)
      ELSE IF ~Active(to) THEN Persist([to EXCEPT !.stale = to.goal.status \in Stopped])
      ELSE SendOwned(Persist(to), "advance", settle, None, <<>>, FALSE, origin)

\* dispatchPendingQueueActionIfSettled, and the continuation if there is nothing to dispatch
Dispatched(r, settle) ==
  LET c == [r EXCEPT !.pending = None]
  IN  IF r.pending = None \/ inbox # <<>> THEN Continued(r, settle)
      ELSE IF r.pending.kind = "prioritize" THEN Prioritized(r, settle)
      ELSE IF Due(r) THEN Advanced(r, settle)
      ELSE Continued(IF c.goal = None THEN c ELSE Persist(c), settle)

Settled ==
  /\ host = "settling" /\ host' = "idle"
  /\ LET r == Dispatched(RecoveryOver(rt), TRUE)
         thrown == Pending(rt, "prioritize") /\ Overfull(rt)
     IN  rt' = IF thrown \/ r.sends # rt.sends THEN r ELSE SettledTracking(r)
  /\ UNCHANGED <<inbox, tokens, results, commands, inputs, faults>>

-----------------------------------------------------------------------------
(* The end of the preparation of a prompt *)

Current(s) ==
  IF s.op = "wrapUp" THEN HasGoal(rt, s.goal) /\ rt.goal.status = "budget_limited" /\ s.goal \in IdOf(rt.wrapUp)
  ELSE ActiveAs(rt, s.goal)

CanSubmit(s) == s.op = "continue" => Free /\ ~results

MessageOf(s) ==
  IF s.op = "wrapUp" THEN Msg("wrapUp", None, s.goal, "steer")
  ELSE Msg(IF s.op = "continue" THEN "continue" ELSE "prompt", s.mark, s.goal, "followUp")

Without(s) ==
  LET r == [rt EXCEPT !.sends = @ \ {s}]
  IN  IF s.op \in {"continue", "wrapUp"} THEN r
      ELSE [r EXCEPT !.prompts = {p \in @ : p.mark # s.mark}]

\* What goes on in agent_settled after the prompt was or was not taken.
AfterSettled(r, s) == IF s.settle THEN SettledTracking(r) ELSE r
ContinuedIfSettled(r, s) == IF s.settle THEN Continued(r, TRUE) ELSE r

Sent(s) ==
  /\ s \in rt.sends /\ Current(s) /\ CanSubmit(s)
  /\ LET r == AfterSettled([rt EXCEPT !.sends = @ \ {s}], s)
     IN  IF s.op = "wrapUp" /\ ~Busy THEN rt' = r /\ UNCHANGED <<inbox, host>>
         ELSE Accept(r, MessageOf(s))
  /\ UNCHANGED <<tokens, results, commands, inputs, faults>>

\* The Goal before comes back, but not to work: it may have been displaced in the middle of a run.
Restored(r, g) ==
  IF g.status = "active" THEN [r EXCEPT !.goal = Transition(g, "paused"), !.stale = TRUE, !.abort = TRUE]
  ELSE [r EXCEPT !.goal = g, !.stale = g.status \in Stopped]

RecordedBack(r, g) == Charge([r EXCEPT !.goal = g]).goal

Unstarted(r, s) ==
  IF ~HasGoal(r, s.goal) THEN r
  ELSE IF s.back = None THEN Cleared(r)
  ELSE Persist(Restored([r EXCEPT !.queue = s.queue], RecordedBack(r, s.back)))

Unresumed(r, s) ==
  IF ~ActiveAs(r, s.goal) THEN r
  ELSE Persist([r EXCEPT !.goal = s.back, !.stale = @ \/ s.back.status \in Stopped])

Unedited(r, s) == IF HasGoal(r, s.goal) THEN Persist(Restored(r, s.back)) ELSE r

Unadvanced(r, s) ==
  IF HasGoal(r, s.goal)
  THEN ContinuedIfSettled(Persist([r EXCEPT !.goal = Transition(@, "paused"), !.stale = TRUE]), s)
  ELSE r

Unprioritized(r, s) ==
  IF ~HasGoal(r, s.goal) THEN r
  ELSE ContinuedIfSettled(
         Persist([Restored([r EXCEPT !.queue = s.queue], s.back) EXCEPT
           !.stale = @ \/ r.stale,
           !.pending = IF s.back.status # "complete" THEN @
                       ELSE [kind |-> "prioritize", budget |-> r.goal.budget, finalized |-> FALSE]]), s)

\* The continuation is lost unless its preparation failed.  A marker nothing carries is forgotten.
Uncontinued(r, s, failed) ==
  LET c == [r EXCEPT !.delivery = IF @ # None /\ @.mark = s.mark THEN None ELSE @]
  IN  IF failed /\ ActiveAs(c, s.goal)
      THEN [c EXCEPT !.intent = [goal |-> s.goal, mark |-> s.mark], !.revived = @ \/ s.mark \in r.cancelled]
      ELSE [c EXCEPT !.cancelled = @ \ {s.mark}]

Unlimited(r, s, failed) ==
  IF s.goal \in IdOf(r.wrapUp) /\ (failed => Current(s)) THEN [r EXCEPT !.wrapUp.delivered = FALSE] ELSE r

NotSent(s, failed) ==
  LET r == Without(s)
  IN  CASE s.op = "start" -> Unstarted(r, s)
        [] s.op = "resume" -> Unresumed(r, s)
        [] s.op = "edit" -> Unedited(r, s)
        [] s.op = "advance" -> Unadvanced(r, s)
        [] s.op = "prioritize" -> Unprioritized(r, s)
        [] s.op = "continue" -> Uncontinued(r, s, failed)
        [] s.op = "wrapUp" -> Unlimited(r, s, failed)

\* A priority is given up with an error when there is no Goal any more.
Throws(s) == s.op = "prioritize" /\ rt.goal = None

Unsent(s, failed) ==
  /\ s \in rt.sends
  /\ IF failed THEN faults < MaxFaults /\ faults' = faults + 1
     ELSE ~(Current(s) /\ CanSubmit(s)) /\ UNCHANGED faults
  /\ rt' = IF Throws(s) THEN Without(s) ELSE AfterSettled(NotSent(s, failed), s)
  /\ UNCHANGED <<inbox, tokens, host, results, commands, inputs>>

-----------------------------------------------------------------------------
(* Commands of the user *)

Command ==
  /\ commands < MaxCommands /\ commands' = commands + 1
  /\ rt.ask = None /\ ~Starting
  /\ UNCHANGED <<inbox, tokens, host, results, inputs, faults>>

\* A change of the queue that waits for the Host refuses every other one.
Change == Command /\ rt.pending = None


Starts(r, budget, back, queue) ==
  LET c == [Superseded(r) EXCEPT !.queue = <<>>, !.pending = None, !.goal = NewGoal(FreshId(r), "active", budget)]
  IN  SendOwned(Persist(c), "start", FALSE, back, queue, TRUE, "manual")

Unfinished == rt.goal # None /\ rt.goal.status # "complete"

Start(budget) ==
  /\ Change /\ ~Unfinished
  /\ rt' = Starts(rt, budget, None, <<>>)

\* To replace a Goal the user is asked first.
StartAsks ==
  /\ Change /\ Unfinished
  /\ rt' = [rt EXCEPT !.ask = [goal |-> rt.goal.id, status |-> rt.goal.status,
                               queue |-> QueueIds(rt.queue), pending |-> rt.pending]]

\* goalQueueIdentity
Asked == rt.goal # None /\ rt.ask.goal = rt.goal.id /\ rt.ask.queue = QueueIds(rt.queue) /\ rt.ask.pending = rt.pending

Answered(budget) ==
  /\ rt.ask # None
  /\ \/ rt' = [rt EXCEPT !.ask = None]
     \/ /\ Asked
        /\ rt' = Starts([rt EXCEPT !.ask = None], budget, [rt.goal EXCEPT !.status = rt.ask.status], rt.queue)
  /\ UNCHANGED <<inbox, tokens, host, results, commands, inputs, faults>>

Add(budget) ==
  /\ Change /\ rt.goal # None
  /\ Len(rt.queue) < MaxQueued
  /\ rt' = Persist([rt EXCEPT !.queue = Append(@, NewGoal(FreshId(rt), "queued", budget))])

Prioritize(budget) ==
  /\ Change /\ rt.goal # None
  /\ Unfinished => Len(rt.queue) < MaxQueued
  /\ LET r == Persist([CancelWork(rt) EXCEPT
                         !.pending = [kind |-> "prioritize", budget |-> budget, finalized |-> FALSE]])
     IN  rt' = IF Free THEN Dispatched(r, FALSE) ELSE r

DropLast ==
  /\ Change /\ rt.goal # None
  /\ rt' = IF rt.queue = <<>> THEN Cleared(rt) ELSE Persist([rt EXCEPT !.queue = Front(@)])

Skip ==
  /\ Change /\ rt.goal # None
  /\ LET c == Superseded(IF Active(rt) THEN Charge(rt) ELSE rt)
         r == Persist([c EXCEPT !.pending = [kind |-> "advance", goal |-> rt.goal.id, reason |-> "skip"]])
     IN  rt' = IF rt.queue = <<>> THEN Cleared(rt) ELSE IF Free THEN Dispatched(r, FALSE) ELSE r

Pause ==
  /\ Change /\ Active(rt)
  /\ rt' = Persist([CancelWork(Charge(rt)) EXCEPT
                      !.wrapUp = None, !.stale = TRUE, !.abort = TRUE, !.goal = Transition(@, "paused")])

Resume ==
  /\ Change
  /\ rt.goal # None /\ rt.goal.status \in Stopped \cup {"budget_limited"} /\ ~Reached(rt.goal)
  /\ LET g == [Rebased(Transition(rt.goal, "active")) EXCEPT !.id = FreshId(rt), !.reset = TRUE]
     IN  rt' = SendOwned(Persist([Superseded(rt) EXCEPT !.goal = g]), "resume", FALSE, rt.goal, <<>>, TRUE, "manual")

\* editedGoalStatus
EditedStatus(status) == IF status \in Stopped THEN status ELSE "active"

Edited(r, budget) ==
  LET g == Transition([r.goal EXCEPT !.id = FreshId(r), !.budget = IF budget = None THEN @ ELSE budget],
                      EditedStatus(r.goal.status))
  IN  Rebased(IF g.status = "active" THEN [g EXCEPT !.reset = TRUE] ELSE g)

Edit(budget) ==
  /\ Change /\ rt.goal # None
  /\ LET c == Charge(rt)
         g == Edited(c, budget)
         r == Persist([CancelWork(c) EXCEPT !.recovery = None, !.wrapUp = None, !.goal = g])
     IN  rt' = IF g.status = "active"
               THEN SendOwned([r EXCEPT !.stale = FALSE], "edit", FALSE, c.goal, <<>>, TRUE, "manual")
               ELSE [r EXCEPT !.stale = g.status \in Stopped]

Show ==
  /\ Command /\ rt.goal # None
  /\ rt' = Persist(Charge(rt))

\* Without a Goal there is nothing to clear.
Clear ==
  /\ Command /\ rt.goal # None
  /\ rt' = Cleared(rt)

-----------------------------------------------------------------------------
(* Sessions: a reload, or a crash and the next start *)

\* loadCanonicalGoalState: what it would not have written itself, it takes for nothing.
Loadable(s) ==
  /\ Len(s.queue) <= MaxQueued
  /\ \A k \in DOMAIN s.queue : s.queue[k].status # "complete"
  /\ s.goal = None \/ (s.goal.status = "complete" /\ s.pending = None) => s.queue = <<>> /\ s.pending = None
  /\ Pending(s, "prioritize") /\ s.goal.status # "complete" => Len(s.queue) < MaxQueued

Loaded(s) ==
  IF ~Loadable(s) \/ (s.goal # None /\ s.goal.status = "complete" /\ s.pending = None) THEN NoGoal ELSE s

\* The process ends; what was on its way to the Host is lost.
Crashes ==
  /\ faults < MaxFaults /\ faults' = faults + 1
  /\ rt' = NewMemory(rt.saved) /\ inbox' = <<>> /\ host' = "starting"
  /\ UNCHANGED <<tokens, results, commands, inputs>>

\* shutdownGoalSession, before a reload
Reloads ==
  /\ inputs < MaxInputs /\ inputs' = inputs + 1
  /\ Free /\ rt.sends = {} /\ rt.ask = None
  /\ rt' = NewMemory(Saved(IF Active(rt) THEN Charge(rt) ELSE rt)) /\ host' = "reloading"
  /\ UNCHANGED <<inbox, tokens, results, commands, faults>>

\* restoreActiveGoalSession
RestoredActive(r, reloaded) ==
  LET c == Persist(Charge([r EXCEPT !.goal = IF @.reset THEN FreshEpoch(@) ELSE @]))
  IN  IF OverBudget(c) THEN LimitForBudget(c)
      ELSE IF TurnsReached(c) THEN PauseForSafety(c, FALSE)
      ELSE IF reloaded THEN Continued(RequestContinuation(c), FALSE)
      ELSE c

\* startGoalSession
SessionStarts ==
  /\ Starting /\ host' = "idle"
  /\ LET s == Loaded(rt.saved)
         r == [rt EXCEPT !.goal = s.goal, !.queue = s.queue, !.pending = s.pending]
     IN  rt' = IF r.pending # None THEN Dispatched(r, FALSE)
               ELSE IF Active(r) THEN RestoredActive(r, host = "reloading")
               ELSE r
  /\ UNCHANGED <<inbox, tokens, results, commands, inputs, faults>>

-----------------------------------------------------------------------------
UserActs ==
  \/ UserPrompts \/ UserInterrupts \/ Reloads
  \/ \E how \in {"steer", "followUp"} : UserQueues(how)
  \/ StartAsks \/ DropLast \/ Skip \/ Pause \/ Resume \/ Show \/ Clear
  \/ \E budget \in Budgets : Start(budget) \/ Answered(budget) \/ Add(budget) \/ Prioritize(budget) \/ Edit(budget)

ModelActs ==
  \/ \E tool \in {"working", "completing", "blocking"} : Reply(tool)
  \/ \E failed \in BOOLEAN : Answer(failed)

HostActs ==
  \/ SessionStarts \/ Drain \/ Deliver \/ Aborts
  \/ TurnEnds \/ ToolDone \/ CompleteCalled \/ BlockedCalled
  \/ \E how \in {"stop", "aborted", "retryable", "limited", "other"} : AgentEnds(how)
  \/ Retries \/ Settled

PromptEnds == \E s \in rt.sends : Sent(s) \/ \E failed \in BOOLEAN : Unsent(s, failed)

Next == UserActs \/ ModelActs \/ HostActs \/ PromptEnds \/ AgentsFinish \/ ResultsArrive \/ Crashes

Spec == Init /\ [][Next]_vars

-----------------------------------------------------------------------------
(* Properties *)

Identity(s) == [goal |-> GoalId(s.goal), active |-> Active(s), queue |-> QueueIds(s.queue), pending |-> s.pending]

\* Whenever the process ends, the Session that starts next goes on with the same
\* Goal, working or not, the same queue and the same change of it: every handler
\* and every rollback of a prompt persists what it leaves in memory (persistGoal,
\* persistence.ts).  The loader takes for nothing only what the rollback of a start
\* leaves when a priority was accepted while its prompt was being prepared.
SavedIsLive ==
  \/ Loadable(rt.saved) /\ Identity(rt.saved) = Identity(rt)
  \/ Pending(rt.saved, "prioritize") /\ Len(rt.saved.queue) = MaxQueued

UsedByAll == FoldLeft(LAMBDA sum, g : sum + g.used, IF rt.goal = None THEN 0 ELSE rt.goal.used, rt.queue)

\* Of what the Session used, nothing is charged to two of its Goals, however they
\* displace each other, wait and return (baselineTokens, accounting.ts).
UsageIsChargedOnce == UsedByAll <= tokens

GoalsOf(r) == ToSet(r.queue) \cup ({r.goal} \ {None})

\* A Goal that was paused, is blocked or met a limit of usage never works again
\* under its id, nor waits for its turn to: only the user resumes or edits it, and
\* that makes a new id of it (nextGoalInstance, policy.ts).
StoppedStaysStopped ==
  [][ \A g \in GoalsOf(rt), h \in GoalsOf(rt') :
        g.id = h.id /\ g.status \in Stopped => h.status \notin {"active", "queued"} ]_vars

\* A prompt or a continuation that arrives for a Goal that has been replaced,
\* stopped or displaced since it was sent does no work: its run is aborted before
\* the model replies (beginPromptRun, goal.ts:230).  A fault is exempt: a prompt of
\* the queue that fails pauses its Goal and leaves an accepted continuation of it.
StaleWorkIsStopped ==
  [][ LET m == Head(inbox)
      IN  Deliver /\ m.kind \in {"prompt", "continue"} /\ ~(rt.pending = None /\ ActiveAs(rt, m.goal))
            => rt'.abort \/ faults > 0 ]_vars

Underway ==
  {s.mark : s \in {x \in rt.sends : x.op = "continue" /\ ActiveAs(rt, x.goal)}}
    \cup {m.mark : m \in {x \in ToSet(inbox) : x.kind = "continue"}}

\* A Goal is continued once at a time: there are never two continuations on their
\* way to the Host that would both do work (prompt-ownership.ts:67-81), unless one that
\* newer work had cancelled was put back because its preparation failed late
\* (dispatchContinuationIfSettled, runtime.ts:310-318).
OneContinuation == rt.revived \/ Cardinality(Underway \ rt.cancelled) <= 1
=============================================================================
