------------------------- MODULE GoalRuntimeProofs -------------------------
(***************************************************************************)
(* Proofs about GoalRuntime, for any Goals a Session may hold, any limits  *)
(* and any number of commands, inputs, responses and faults.               *)
(*                                                                         *)
(* Most handlers leave the Goal's identity, its queue and the prompts on   *)
(* their way alone: Keeps says so, a lemma of each operator of GoalState   *)
(* proves it, and KeepsGood that the invariant then survives.  What        *)
(* replaces the Goal cancels what was on its way for the old one (Stops).  *)
(* Markers tie the rest together: one carrier of each (OneCarrier), a      *)
(* record of each prompt (Recorded), one uncancelled continuation at most, *)
(* the delivery (OneDelivery).  There are random markers without end.      *)
(***************************************************************************)
EXTENDS GoalRuntime, FiniteSetTheorems, SequenceTheorems, WellFoundedInduction, TLAPS

Fields == {"goal", "queue", "pending", "intent", "delivery", "prompts", "claimed", "cancelled",
           "conts", "mirror", "run", "origin", "recovery", "wrapUp", "guard", "stale", "sends",
           "ask", "abort", "revived", "saved"}

IsMemory(r) == r = [f \in Fields |-> r[f]]

\* What a new marker is distinct from is finite.
Finite(r) ==
  /\ IsFiniteSet(r.prompts) /\ IsFiniteSet(r.claimed) /\ IsFiniteSet(r.cancelled)
  /\ IsFiniteSet(r.conts) /\ IsFiniteSet(r.sends)

IsMsg(m) == m = [f \in {"kind", "mark", "goal", "how"} |-> m[f]]
IsBox(b) == b \in Seq({b[k] : k \in DOMAIN b}) /\ \A k \in DOMAIN b : IsMsg(b[k])

\* The saved copy is the one in memory, or one the loader takes for nothing.
Same(s, r) ==
  /\ s.queue = r.queue /\ s.pending = r.pending
  /\ s.goal = None <=> r.goal = None
  /\ r.goal # None => s.goal.id = r.goal.id /\ s.goal.status = r.goal.status

Refused(s) == Pending(s, "prioritize") /\ Len(s.queue) = MaxQueued

SavedOK(r) == Sensible(r.saved) /\ (Refused(r.saved) \/ Same(r.saved, r))

-----------------------------------------------------------------------------
Proper(r) == {s \in r.sends : s.op # "wrapUp"}
PromptOps == {"start", "resume", "edit", "advance", "prioritize"}

SendOK(s) ==
  /\ s.op \in PromptOps \cup {"continue"}
  /\ s.op = "start" /\ s.back # None => IsGoal(s.back) /\ s.back.status # "complete" /\ IsQueue(s.queue)
  /\ s.op = "resume" => IsGoal(s.back) /\ s.back.status \notin {"active", "complete"}
  /\ s.op = "edit" => IsGoal(s.back) /\ s.back.status # "complete"
  /\ s.op = "prioritize" => IsGoal(s.back) /\ IsQueue(s.queue)

Owning(b) == {k \in DOMAIN b : b[k].kind \in {"prompt", "continue"}}
Continues(b) == {k \in DOMAIN b : b[k].kind = "continue"}

OneCarrier(r, b) ==
  /\ \A s, t \in Proper(r) : s.mark = t.mark => s = t
  /\ \A s \in Proper(r), k \in Owning(b) : s.mark # b[k].mark
  /\ \A j, k \in Owning(b) : b[j].mark = b[k].mark => j = k

Recorded(r, b) ==
  /\ \A s \in Proper(r) : s.op \in PromptOps => \E p \in r.prompts : p.mark = s.mark /\ p.goal = s.goal
  /\ \A k \in DOMAIN b : b[k].kind = "prompt" => \E p \in r.prompts : p.mark = b[k].mark /\ p.goal = b[k].goal

ContMarks(r, b) ==
  {s.mark : s \in {x \in r.sends : x.op = "continue"}} \cup {b[k].mark : k \in Continues(b)}

IntentIsUnsent(r, b) ==
  r.intent # None =>
    /\ \A s \in Proper(r) : s.mark # r.intent.mark
    /\ \A k \in Owning(b) : b[k].mark # r.intent.mark

OneDelivery(r, b) ==
  r.revived \/
    /\ \A x \in ContMarks(r, b) \ r.cancelled : r.delivery # None /\ r.delivery.mark = x
    /\ r.intent # None => ContMarks(r, b) \subseteq r.cancelled
    /\ Active(r) /\ r.delivery # None => r.delivery.goal = r.goal.id

Carried(r, b) ==
  OneCarrier(r, b) /\ Recorded(r, b) /\ IntentIsUnsent(r, b) /\ OneDelivery(r, b)

Good(r, b) ==
  /\ IsMemory(r) /\ Finite(r) /\ Sensible(r)
  /\ \A s \in Proper(r) : SendOK(s)
  /\ Carried(r, b)

\* An accepted continuation works for the Goal at work, or is cancelled.
Kept(r, b) == \A k \in Continues(b) : b[k].mark \in r.cancelled \/ ActiveAs(r, b[k].goal)

FirstContinues == \A k \in Continues(inbox) : k = 1 /\ inbox[k].how = "first" /\ host = "open"

Unstartedly ==
  Starting =>
    /\ rt.sends = {} /\ inbox = <<>> /\ rt.ask = None /\ rt.intent = None /\ rt.delivery = None
    /\ rt.goal = rt.saved.goal /\ rt.queue = rt.saved.queue /\ rt.pending = rt.saved.pending

IInv ==
  /\ faults \in Nat /\ IsBox(inbox)
  /\ Good(rt, inbox) /\ SavedOK(rt)
  /\ rt.ask # None => rt.ask.status # "complete"
  /\ faults = 0 => ~rt.revived /\ Kept(rt, inbox)
  /\ FirstContinues /\ Unstartedly
-----------------------------------------------------------------------------
Shaped(r) == IsMemory(r) /\ (r.goal = None \/ IsGoal(r.goal))

Mirrors(r) == Same(r.saved, r) /\ (r.goal # None => IsGoal(r.saved.goal))

SameWork(r, q) == q.intent = r.intent /\ q.delivery = r.delivery /\ q.cancelled = r.cancelled

Cancelled(r, q) ==
  /\ q.intent = None /\ q.delivery = None
  /\ q.cancelled = IF r.delivery = None THEN r.cancelled ELSE r.cancelled \cup {r.delivery.mark}

Keeps(r, q) ==
  /\ IsMemory(q) /\ q.queue = r.queue /\ q.ask = r.ask
  /\ q.prompts = r.prompts /\ q.revived = r.revived /\ Proper(q) = Proper(r)
  /\ \/ q.pending = r.pending
     \/ Pending(r, "prioritize") /\ Pending(q, "prioritize") /\ IsChange(q.pending)
  /\ q.goal = None <=> r.goal = None
  /\ r.goal # None =>
       /\ IsGoal(q.goal) /\ q.goal.id = r.goal.id
       /\ \/ q.goal.status = r.goal.status
          \/ q.goal.status \notin {"active", "complete"} /\ Cancelled(r, q)
  /\ SameWork(r, q) \/ Cancelled(r, q)
  /\ (q.saved = r.saved /\ Same(r, q)) \/ Mirrors(q)
  /\ Finite(r) => Finite(q)

USE DEF Fields

\* None, the code's undefined, is not an object.
NoneIsNoRecord == \A S : None # [f \in S |-> None[f]]

LEMMA NoneIsNoGoal == ASSUME NoneIsNoRecord PROVE ~IsGoal(None)
BY DEF NoneIsNoRecord, IsGoal

LEMMA NoneIsNoChange ==
  ASSUME NoneIsNoRecord, NEW id, NEW reason
  PROVE  None # [kind |-> "advance", goal |-> id, reason |-> reason]
<1> DEFINE p == [kind |-> "advance", goal |-> id, reason |-> reason]
<1>1. p = [f \in {"kind", "goal", "reason"} |-> p[f]]
  OBVIOUS
<1> QED BY <1>1 DEF NoneIsNoRecord

LEMMA KeepsSelf == ASSUME NEW r, Shaped(r) PROVE Keeps(r, r)
BY DEF Keeps, Shaped, Same, SameWork

LEMMA KeepsShaped == ASSUME NEW r, NEW q, ~IsGoal(None), Shaped(r), Keeps(r, q) PROVE Shaped(q)
BY DEF Keeps, Shaped

LEMMA KeepsOn ==
  ASSUME NEW r, NEW p, NEW q, ~IsGoal(None), Keeps(r, p), Keeps(p, q)
  PROVE  Keeps(r, q)
<1>1. SameWork(r, q) \/ Cancelled(r, q)
  BY DEF Keeps, SameWork, Cancelled
<1>2. (q.saved = r.saved /\ Same(r, q)) \/ Mirrors(q)
  BY DEF Keeps, Same, Mirrors
<1>3. r.goal # None =>
       /\ IsGoal(q.goal) /\ q.goal.id = r.goal.id
       /\ \/ q.goal.status = r.goal.status
          \/ q.goal.status \notin {"active", "complete"} /\ Cancelled(r, q)
  BY DEF Keeps, SameWork, Cancelled
<1> QED BY <1>1, <1>2, <1>3 DEF Keeps, Pending

LEMMA KeepsCancel == ASSUME NEW r, Shaped(r) PROVE Keeps(r, CancelWork(r)) /\ Cancelled(r, CancelWork(r))
BY FS_AddElement DEF Keeps, Shaped, IsMemory, CancelWork, Same, SameWork, Cancelled, Proper, Finite

LEMMA KeepsPersist == ASSUME NEW r, Shaped(r) PROVE Keeps(r, Persist(r))
BY DEF Keeps, Shaped, IsMemory, Persist, Saved, Same, Mirrors, SameWork, Proper, Finite

LEMMA KeepsCharge == ASSUME NEW r, Shaped(r), ~IsGoal(None) PROVE Keeps(r, Charge(r))
BY DEF Keeps, Shaped, IsMemory, IsGoal, Charge, Charges, Same, SameWork, Proper, Finite

LEMMA KeepsNoRun == ASSUME NEW r, Shaped(r) PROVE Keeps(r, NoRun(r))
BY DEF Keeps, Shaped, IsMemory, NoRun, Same, SameWork, Proper, Finite

LEMMA KeepsForget == ASSUME NEW r, Shaped(r) PROVE Keeps(r, ForgetRecovery(r))
BY DEF Keeps, Shaped, IsMemory, ForgetRecovery, Same, SameWork, Proper, Finite

LEMMA KeepsSuperseded == ASSUME NEW r, Shaped(r) PROVE Keeps(r, Superseded(r)) /\ Cancelled(r, Superseded(r))
BY FS_AddElement DEF Keeps, Shaped, IsMemory, Superseded, CancelWork, Same, SameWork, Cancelled, Proper, Finite

\* The rest of the memory as it was.
Beside(c, q) ==
  /\ IsMemory(q) /\ q.queue = c.queue /\ q.pending = c.pending /\ q.ask = c.ask
  /\ q.prompts = c.prompts /\ q.revived = c.revived /\ q.sends = c.sends /\ q.saved = c.saved
  /\ q.claimed = c.claimed /\ q.conts = c.conts
  /\ SameWork(c, q)

\* A Goal that stops takes its continuation with it, and is saved.
LEMMA KeepsStopped ==
  ASSUME NEW r, Shaped(r), ~IsGoal(None), r.goal # None, NEW c, Keeps(r, c), Cancelled(r, c),
         NEW status, status \notin {"active", "complete"},
         NEW q, Beside(c, q), q.goal = Transition(c.goal, status)
  PROVE  Keeps(r, Persist(q)) /\ Cancelled(r, Persist(q))
<1>1. IsGoal(q.goal) /\ q.goal.id = r.goal.id /\ q.goal.status = status /\ q.goal # None
  BY DEF Keeps, Transition, IsGoal
<1>2. Cancelled(r, q) /\ IsMemory(q)
  BY DEF Cancelled, Beside, SameWork
<1>3. /\ IsMemory(Persist(q)) /\ Cancelled(r, Persist(q)) /\ Mirrors(Persist(q))
      /\ Persist(q).goal = q.goal /\ Persist(q).queue = q.queue /\ Persist(q).pending = q.pending
      /\ Persist(q).ask = q.ask /\ Persist(q).prompts = q.prompts /\ Persist(q).revived = q.revived
      /\ Persist(q).sends = q.sends
      /\ Finite(q) => Finite(Persist(q))
  BY <1>1, <1>2 DEF Persist, Saved, IsMemory, Cancelled, Mirrors, Same, Finite
<1>4. Finite(r) => Finite(Persist(q))
  BY <1>3 DEF Keeps, Finite, Beside, SameWork
<1>5. Proper(Persist(q)) = Proper(r)
  BY <1>3 DEF Keeps, Beside, Proper
<1>6. /\ q.queue = r.queue /\ q.ask = r.ask /\ q.prompts = r.prompts /\ q.revived = r.revived
      /\ \/ q.pending = r.pending
         \/ Pending(r, "prioritize") /\ Pending(q, "prioritize") /\ IsChange(q.pending)
  BY DEF Keeps, Beside, Pending
<1> HIDE DEF Fields
<1> QED BY <1>1, <1>3, <1>4, <1>5, <1>6 DEF Keeps, Pending

LEMMA CancelThenForget ==
  ASSUME NEW r, Shaped(r), ~IsGoal(None)
  PROVE  LET c == ForgetRecovery(CancelWork(r)) IN Keeps(r, c) /\ Cancelled(r, c)
<1> DEFINE b == CancelWork(r)
<1>1. Keeps(r, b) /\ Cancelled(r, b) /\ Shaped(b)
  BY KeepsCancel, KeepsShaped
<1> HIDE DEF b
<1>2. Keeps(b, ForgetRecovery(b)) /\ Cancelled(r, ForgetRecovery(b))
  BY <1>1, KeepsForget DEF Shaped, IsMemory, ForgetRecovery, Cancelled
<1> QED BY <1>1, <1>2, KeepsOn DEF b

LEMMA KeepsLimit ==
  ASSUME NEW r, Shaped(r), ~IsGoal(None), r.goal # None
  PROVE  Keeps(r, LimitForBudget(r)) /\ Cancelled(r, LimitForBudget(r))
<1> DEFINE c == ForgetRecovery(CancelWork(r))
           q == [c EXCEPT !.wrapUp = None, !.goal = Transition(@, "budget_limited")]
<1>1. Keeps(r, c) /\ Cancelled(r, c)
  BY CancelThenForget
<1> HIDE DEF c
<1>2. Beside(c, q) /\ q.goal = Transition(c.goal, "budget_limited")
  BY <1>1 DEF Keeps, IsMemory, Beside, SameWork
<1> QED BY <1>1, <1>2, KeepsStopped, Zenon DEF LimitForBudget, c

LEMMA KeepsPause ==
  ASSUME NEW r, Shaped(r), ~IsGoal(None), r.goal # None, NEW abort
  PROVE  Keeps(r, PauseForSafety(r, abort)) /\ Cancelled(r, PauseForSafety(r, abort))
<1> DEFINE c == ForgetRecovery(CancelWork(r))
           q == [c EXCEPT !.wrapUp = None, !.stale = TRUE, !.goal = Transition(@, "paused"),
                          !.guard = IF abort THEN r.goal.id ELSE @, !.abort = @ \/ abort]
<1>1. Keeps(r, c) /\ Cancelled(r, c)
  BY CancelThenForget
<1> HIDE DEF c
<1>2. Beside(c, q) /\ q.goal = Transition(c.goal, "paused")
  BY <1>1 DEF Keeps, IsMemory, Beside, SameWork
<1> QED BY <1>1, <1>2, KeepsStopped, Zenon DEF PauseForSafety, c

LEMMA KeepsStop ==
  ASSUME NEW r, Shaped(r), ~IsGoal(None), r.goal # None, NEW status, status \notin {"active", "complete"}
  PROVE  Keeps(r, Stop(r, status)) /\ Cancelled(r, Stop(r, status))
<1> DEFINE c == CancelWork(r)
           q == [c EXCEPT !.wrapUp = None, !.stale = TRUE, !.abort = TRUE, !.goal = Transition(@, status)]
<1>1. Keeps(r, c) /\ Cancelled(r, c)
  BY KeepsCancel
<1> HIDE DEF c
<1>2. Beside(c, q) /\ q.goal = Transition(c.goal, status)
  BY <1>1 DEF Keeps, IsMemory, Beside, SameWork
<1> QED BY <1>1, <1>2, KeepsStopped, Zenon DEF Stop, c

\* What leaves the Goal under its id and in its status, and the rest beside it, keeps all.
LEMMA KeepsBeside ==
  ASSUME NEW r, Shaped(r), ~IsGoal(None), NEW q, Beside(r, q),
         \/ q.goal = r.goal
         \/ r.goal # None /\ IsGoal(q.goal) /\ q.goal.id = r.goal.id /\ q.goal.status = r.goal.status
  PROVE  Keeps(r, q)
<1>1. Finite(r) => Finite(q)
  BY DEF Finite, Beside, SameWork
<1>2. Proper(q) = Proper(r)
  BY DEF Proper, Beside
<1> HIDE DEF Fields
<1> QED BY <1>1, <1>2 DEF Keeps, Beside, Shaped, Same

LEMMA FreshGoal ==
  ASSUME NEW g, IsGoal(g)
  PROVE  IsGoal(FreshEpoch(g)) /\ FreshEpoch(g).id = g.id /\ FreshEpoch(g).status = g.status
BY DEF IsGoal, FreshEpoch

LEMMA KeepsFresh == ASSUME NEW r, Shaped(r), ~IsGoal(None), r.goal # None
                    PROVE  Keeps(r, [r EXCEPT !.goal = FreshEpoch(@)])
<1> DEFINE q == [r EXCEPT !.goal = FreshEpoch(@)]
<1>1. Beside(r, q) /\ q.goal = FreshEpoch(r.goal)
  BY DEF Beside, Shaped, IsMemory, SameWork
<1>2. IsGoal(q.goal) /\ q.goal.id = r.goal.id /\ q.goal.status = r.goal.status
  BY <1>1, FreshGoal DEF Shaped
<1> QED BY <1>1, <1>2, KeepsBeside

LEMMA KeepsRun ==
  ASSUME NEW r, Shaped(r), ~IsGoal(None), NEW id, NEW origin, NEW owned
  PROVE  Keeps(r, RunFor(r, id, origin)) /\ Keeps(r, Foreigner(r)) /\ Keeps(r, Stopping(r, owned))
<1>1. Beside(r, RunFor(r, id, origin)) /\ RunFor(r, id, origin).goal = r.goal
  BY DEF Beside, Shaped, IsMemory, SameWork, RunFor
<1>2. Beside(r, Foreigner(r)) /\ Foreigner(r).goal = r.goal
  BY DEF Beside, Shaped, IsMemory, SameWork, Foreigner
<1>3. Beside(r, Stopping(r, owned)) /\ Stopping(r, owned).goal = r.goal
  BY DEF Beside, Shaped, IsMemory, SameWork, Stopping
<1> QED BY <1>1, <1>2, <1>3, KeepsBeside

LEMMA KeepsReset == ASSUME NEW r, Shaped(r), ~IsGoal(None) PROVE Keeps(r, ResetEpoch(r))
<1>1. CASE Active(r)
  <2> DEFINE q == [r EXCEPT !.goal = FreshEpoch(@), !.origin = IF r.run = None THEN @ ELSE "manual"]
  <2>1. Beside(r, q) /\ q.goal = FreshEpoch(r.goal)
    BY DEF Beside, Shaped, IsMemory, SameWork
  <2>2. r.goal # None /\ IsGoal(q.goal) /\ q.goal.id = r.goal.id /\ q.goal.status = r.goal.status
    BY <1>1, <2>1, FreshGoal DEF Shaped, Active
  <2> HIDE DEF q
  <2>3. Keeps(r, q) /\ Shaped(q)
    BY <2>1, <2>2, KeepsBeside, KeepsShaped
  <2>4. Keeps(r, Persist(q))
    BY <2>3, KeepsPersist, KeepsOn
  <2> QED BY <1>1, <2>4 DEF ResetEpoch, q
<1>2. CASE ~Active(r)
  BY <1>2, KeepsSelf DEF ResetEpoch
<1> QED BY <1>1, <1>2

LEMMA KeepsSettled == ASSUME NEW r, Shaped(r), ~IsGoal(None) PROVE Keeps(r, SettledTracking(r))
BY FS_EmptySet DEF Keeps, Shaped, IsMemory, SettledTracking, NoRun, Same, SameWork, Proper, Finite

LEMMA KeepsPrepare ==
  ASSUME NEW r, Shaped(r), ~IsGoal(None), NEW reset, NEW origin
  PROVE  Keeps(r, PrepareNonGoal(r, reset, origin))
<1> DEFINE c == [r EXCEPT !.recovery = None, !.guard = None, !.stale = FALSE,
                          !.wrapUp = IF reset THEN None ELSE @]
           b == IF origin = None THEN c ELSE IF Active(c) THEN RunFor(c, c.goal.id, origin) ELSE Foreigner(c)
<1>1. Beside(r, c) /\ c.goal = r.goal
  BY DEF Beside, Shaped, IsMemory, SameWork
<1> HIDE DEF c
<1>2. Keeps(r, c) /\ Shaped(c)
  BY <1>1, KeepsBeside, KeepsShaped
<1>3. Keeps(c, b)
  BY <1>2, KeepsSelf, KeepsRun
<1>4. Keeps(r, b) /\ Shaped(b)
  BY <1>2, <1>3, KeepsOn, KeepsShaped
<1> HIDE DEF b
<1>5. Keeps(b, ResetEpoch(b))
  BY <1>4, KeepsReset
<1>6. PrepareNonGoal(r, reset, origin) = IF reset THEN ResetEpoch(b) ELSE b
  BY DEF PrepareNonGoal, b, c
<1> QED BY <1>4, <1>5, <1>6, KeepsOn

LEMMA KeepsUserMessage == ASSUME NEW r, Shaped(r), ~IsGoal(None) PROVE Keeps(r, UserMessage(r))
<1>1. ASSUME NEW s PROVE Keeps(r, [r EXCEPT !.mirror = s]) /\ Shaped([r EXCEPT !.mirror = s])
  <2> DEFINE q == [r EXCEPT !.mirror = s]
  <2>1. Beside(r, q) /\ q.goal = r.goal
    BY DEF Beside, Shaped, IsMemory, SameWork
  <2> QED BY <2>1, KeepsBeside, KeepsShaped
<1>2. ASSUME NEW s, NEW origin PROVE Keeps(r, PrepareNonGoal([r EXCEPT !.mirror = s], TRUE, origin))
  BY <1>1, KeepsPrepare, KeepsOn
<1> QED BY <1>2, KeepsSelf DEF UserMessage

LEMMA KeepsAgentStart == ASSUME NEW r, Shaped(r), ~IsGoal(None) PROVE Keeps(r, AgentStart(r))
BY KeepsRun, KeepsSelf DEF AgentStart

LEMMA KeepsNewRun == ASSUME NEW r, Shaped(r), ~IsGoal(None) PROVE Keeps(r, NewRun(r))
<1> DEFINE q == [r EXCEPT !.abort = FALSE]
<1>1. Beside(r, q) /\ q.goal = r.goal
  BY DEF Beside, Shaped, IsMemory, SameWork
<1>2. Keeps(r, q) /\ Shaped(q)
  BY <1>1, KeepsBeside, KeepsShaped
<1> QED BY <1>2, KeepsAgentStart, KeepsOn DEF NewRun

LEMMA KeepsTurn ==
  ASSUME NEW r, Shaped(r), ~IsGoal(None), NEW failed
  PROVE  Keeps(r, TurnRecorded(r, failed))
<1>1. CASE ~(Active(r) /\ r.run = r.goal.id /\ r.origin = "automatic")
  BY <1>1, KeepsSelf DEF TurnRecorded
<1>2. CASE Active(r) /\ r.run = r.goal.id /\ r.origin = "automatic"
  <2> DEFINE q == [r EXCEPT !.goal.turns = @ + 1]
             b == Charge(q)
             c == Persist(b)
  <2>1. Beside(r, q) /\ q.goal = [r.goal EXCEPT !.turns = @ + 1]
    BY DEF Beside, Shaped, IsMemory, SameWork
  <2>2. r.goal # None /\ IsGoal(q.goal) /\ q.goal.id = r.goal.id /\ q.goal.status = r.goal.status
    BY <1>2, <2>1 DEF Shaped, IsGoal, Active
  <2> HIDE DEF q
  <2>3. Keeps(r, q) /\ Shaped(q)
    BY <2>1, <2>2, KeepsBeside, KeepsShaped
  <2>4. Keeps(r, b) /\ Shaped(b)
    BY <2>3, KeepsCharge, KeepsOn, KeepsShaped
  <2> HIDE DEF b
  <2>5. Keeps(r, c) /\ Shaped(c) /\ c.goal # None
    BY <2>2, <2>4, KeepsPersist, KeepsOn, KeepsShaped DEF Keeps
  <2> HIDE DEF c
  <2>6. Keeps(r, PauseForSafety(c, TRUE))
    BY <2>5, KeepsPause, KeepsOn
  <2>7. TurnRecorded(r, failed) = IF ~failed /\ TurnsReached(c) THEN PauseForSafety(c, TRUE) ELSE c
    BY <1>2 DEF TurnRecorded, c, b, q
  <2> QED BY <2>5, <2>6, <2>7
<1> QED BY <1>1, <1>2

LEMMA KeepsCharged ==
  ASSUME NEW r, Shaped(r), ~IsGoal(None)
  PROVE  Keeps(r, Persist(Charge(r))) /\ Shaped(Persist(Charge(r)))
BY KeepsCharge, KeepsPersist, KeepsOn, KeepsShaped

LEMMA KeepsTerminated == ASSUME NEW r, Shaped(r), ~IsGoal(None) PROVE Keeps(r, Terminated(r))
<1> DEFINE c == Persist(Charge(r))
<1>1. Keeps(r, c) /\ Shaped(c)
  BY KeepsCharged
<1> HIDE DEF c
<1>2. Beside(c, [c EXCEPT !.wrapUp = None, !.abort = TRUE]) /\ [c EXCEPT !.wrapUp = None, !.abort = TRUE].goal = c.goal
  BY <1>1 DEF Beside, Shaped, IsMemory, SameWork
<1>3. Keeps(c, [c EXCEPT !.wrapUp = None, !.abort = TRUE])
  BY <1>1, <1>2, KeepsBeside
<1> QED BY <1>1, <1>3, KeepsOn DEF Terminated, c

LEMMA KeepsBlocked ==
  ASSUME NEW r, Shaped(r), ~IsGoal(None), NEW audited
  PROVE  Keeps(r, GoalBlocked(r, audited))
<1>1. Keeps(r, r) /\ Keeps(r, Terminated(r)) /\ Keeps(r, Persist(r))
  BY KeepsSelf, KeepsTerminated, KeepsPersist
<1>2. ASSUME Active(r)
      PROVE  LET c == ForgetRecovery(CancelWork(Charge(r)))
             IN  Keeps(r, Persist([c EXCEPT !.wrapUp = None, !.goal = Transition(@, "blocked"),
                                            !.abort = @ \/ Reached(c.goal)]))
  <2> DEFINE b == Charge(r)
             c == ForgetRecovery(CancelWork(b))
             q == [c EXCEPT !.wrapUp = None, !.goal = Transition(@, "blocked"), !.abort = @ \/ Reached(c.goal)]
  <2>1. Keeps(r, b) /\ Shaped(b) /\ b.goal # None
    BY <1>2, KeepsCharge, KeepsShaped DEF Keeps, Active
  <2> HIDE DEF b
  <2>2. Keeps(b, c) /\ Cancelled(b, c)
    BY <2>1, CancelThenForget
  <2> HIDE DEF c
  <2>3. Beside(c, q) /\ q.goal = Transition(c.goal, "blocked")
    BY <2>2 DEF Keeps, IsMemory, Beside, SameWork
  <2> HIDE DEF q
  <2>4. Keeps(b, Persist(q))
    BY <2>1, <2>2, <2>3, KeepsStopped
  <2> QED BY <2>1, <2>4, KeepsOn DEF q, c, b
<1> QED BY <1>1, <1>2 DEF GoalBlocked

LEMMA KeepsRecovering ==
  ASSUME NEW r, Shaped(r), ~IsGoal(None), NEW origin
  PROVE  Keeps(r, Recovering(r, origin))
<1> DEFINE q == [r EXCEPT !.recovery = [goal |-> r.goal.id,
                                        origin |-> IF origin = "automatic" THEN origin ELSE "manual"]]
<1>1. Beside(r, q) /\ q.goal = r.goal
  BY DEF Beside, Shaped, IsMemory, SameWork
<1> HIDE DEF q
<1>2. Keeps(r, q) /\ Shaped(q)
  BY <1>1, KeepsBeside, KeepsShaped
<1>3. Keeps(r, CancelWork(q)) /\ Shaped(CancelWork(q))
  BY <1>2, KeepsCancel, KeepsOn, KeepsShaped
<1> QED BY <1>3, KeepsPersist, KeepsOn DEF Recovering, q

LEMMA KeepsWrapUp == ASSUME NEW r, Shaped(r), ~IsGoal(None) PROVE Keeps(r, QueueWrapUp(r))
<1> DEFINE c == [r EXCEPT !.wrapUp = [goal |-> r.goal.id, delivered |-> TRUE]]
           s == [op |-> "wrapUp", goal |-> c.goal.id, mark |-> None, settle |-> FALSE, back |-> None, queue |-> <<>>]
           q == [c EXCEPT !.sends = @ \cup {s}]
<1>1. Beside(r, c) /\ c.goal = r.goal
  BY DEF Beside, Shaped, IsMemory, SameWork
<1>2. s.op = "wrapUp"
  OBVIOUS
<1> HIDE DEF c
<1>3. Keeps(r, c) /\ Shaped(c)
  BY <1>1, KeepsBeside, KeepsShaped
<1> HIDE DEF s
<1>4. /\ IsMemory(q) /\ q.queue = c.queue /\ q.pending = c.pending /\ q.ask = c.ask
      /\ q.prompts = c.prompts /\ q.revived = c.revived /\ q.sends = c.sends \cup {s} /\ q.saved = c.saved
      /\ q.claimed = c.claimed /\ q.conts = c.conts /\ q.goal = c.goal /\ SameWork(c, q)
  BY <1>3 DEF Shaped, IsMemory, SameWork
<1> HIDE DEF q
<1>5. Proper(q) = Proper(c)
  BY <1>2, <1>4 DEF Proper
<1>6. Finite(c) => Finite(q)
  BY <1>4, FS_AddElement DEF Finite, SameWork
<1>7. Keeps(c, q)
  <2> HIDE DEF Fields
  <2> QED BY <1>3, <1>4, <1>5, <1>6 DEF Keeps, Shaped, Same
<1> QED BY <1>3, <1>7, KeepsOn DEF QueueWrapUp, Sending, q, s, c

LEMMA KeepsTool == ASSUME NEW r, Shaped(r), ~IsGoal(None) PROVE Keeps(r, ToolEnded(r))
<1> DEFINE c == Persist(Charge(r))
<1>1. Keeps(r, c) /\ Shaped(c)
  BY KeepsCharged
<1> HIDE DEF c
<1>2. ASSUME Active(r) PROVE Keeps(r, QueueWrapUp(LimitForBudget(c)))
  <2>1. c.goal # None
    BY <1>1, <1>2 DEF Keeps, Active
  <2>2. Keeps(r, LimitForBudget(c)) /\ Shaped(LimitForBudget(c))
    BY <1>1, <2>1, KeepsLimit, KeepsOn, KeepsShaped
  <2> QED BY <2>2, KeepsWrapUp, KeepsOn
<1> QED BY <1>1, <1>2, KeepsSelf, KeepsWrapUp DEF ToolEnded, c

-----------------------------------------------------------------------------
(* What keeps all keeps the invariants *)

LEMMA KeepsSensible == ASSUME NEW r, NEW q, Sensible(r), Keeps(r, q) PROVE Sensible(q)
<1> HIDE DEF Fields
<1>1. IsChange(q.pending) /\ IsQueue(q.queue) /\ (q.goal = None \/ IsGoal(q.goal))
  BY DEF Keeps, Sensible
<1>2. Pending(q, "advance") => q.pending = r.pending
  BY DEF Keeps, Pending
<1>3. q.goal = None => q.queue = <<>> /\ q.pending = None
  BY DEF Keeps, Sensible, Pending
<1>4. q.goal # None /\ q.goal.status = "complete" => q.pending # None
  BY DEF Keeps, Sensible, Pending
<1>5. q.goal # None /\ q.goal.status \in {"active", "complete"} /\ Pending(q, "advance")
       => q.pending.goal = q.goal.id
  BY <1>2 DEF Keeps, Sensible, Pending
<1> QED BY <1>1, <1>3, <1>4, <1>5 DEF Sensible

LEMMA MirrorsSaved == ASSUME NEW q, Sensible(q), Mirrors(q) PROVE SavedOK(q)
<1>1. Sensible(q.saved)
  BY DEF Sensible, Mirrors, Same, Pending
<1> QED BY <1>1 DEF SavedOK, Mirrors

LEMMA KeepsSaved ==
  ASSUME NEW r, NEW q, Sensible(r), SavedOK(r), Keeps(r, q)
  PROVE  SavedOK(q)
<1>1. CASE Mirrors(q)
  BY <1>1, KeepsSensible, MirrorsSaved
<1>2. CASE q.saved = r.saved /\ Same(r, q)
  BY <1>2 DEF SavedOK, Same
<1> QED BY <1>1, <1>2 DEF Keeps

LEMMA ProperMarks ==
  ASSUME NEW r, NEW q, Proper(q) = Proper(r), NEW b
  PROVE  ContMarks(q, b) = ContMarks(r, b)
<1>1. \A x : x \in q.sends /\ x.op = "continue" <=> x \in r.sends /\ x.op = "continue"
  <2>1. \A x : x \in q.sends /\ x.op = "continue" <=> x \in Proper(q) /\ x.op = "continue"
    BY DEF Proper
  <2>2. \A x : x \in r.sends /\ x.op = "continue" <=> x \in Proper(r) /\ x.op = "continue"
    BY DEF Proper
  <2> QED BY <2>1, <2>2
<1> QED BY <1>1 DEF ContMarks

LEMMA KeepsGood ==
  ASSUME NEW r, NEW q, NEW b, ~IsGoal(None), Good(r, b), Keeps(r, q)
  PROVE  Good(q, b)
<1> HIDE DEF Fields
<1>1. IsMemory(q) /\ Finite(q) /\ Sensible(q)
  BY KeepsSensible DEF Keeps, Good
<1>2. \A s \in Proper(q) : SendOK(s)
  BY DEF Keeps, Good
<1>3. OneCarrier(q, b) /\ Recorded(q, b)
  BY DEF Keeps, Good, Carried, OneCarrier, Recorded
<1>4. IntentIsUnsent(q, b)
  BY DEF Keeps, Good, Carried, IntentIsUnsent, SameWork, Cancelled
<1>5. OneDelivery(q, b)
  <2>1. ContMarks(q, b) = ContMarks(r, b) /\ q.revived = r.revived
    BY ProperMarks DEF Keeps
  <2>2. CASE SameWork(r, q)
    <3>1. Active(q) => Active(r) /\ q.goal.id = r.goal.id
      BY DEF Keeps, Active
    <3> QED BY <2>1, <2>2, <3>1 DEF Good, Carried, OneDelivery, SameWork
  <2>3. CASE Cancelled(r, q)
    BY <2>1, <2>3 DEF Good, Carried, OneDelivery, Cancelled
  <2> QED BY <2>2, <2>3 DEF Keeps
<1> QED BY <1>1, <1>2, <1>3, <1>4, <1>5 DEF Good, Carried

\* Once the work is cancelled, so is every continuation that was sent.
LEMMA CancelledAll ==
  ASSUME NEW r, NEW b, OneDelivery(r, b), ~r.revived, NEW k \in Continues(b), NEW q, Cancelled(r, q)
  PROVE  b[k].mark \in q.cancelled
BY DEF OneDelivery, ContMarks, Cancelled

LEMMA KeepsKept ==
  ASSUME NEW r, NEW q, NEW b, OneDelivery(r, b), ~r.revived, Kept(r, b), Keeps(r, q)
  PROVE  ~q.revived /\ Kept(q, b)
<1>1. CASE Cancelled(r, q)
  BY <1>1, CancelledAll DEF Kept, Keeps
<1>2. CASE SameWork(r, q) /\ ~Cancelled(r, q)
  BY <1>2 DEF Kept, Keeps, SameWork, ActiveAs, Active
<1> QED BY <1>1, <1>2 DEF Keeps

-----------------------------------------------------------------------------
(* New markers *)

LEMMA MarksFinite ==
  ASSUME NEW S, IsFiniteSet(S)
  PROVE  IsFiniteSet({x.mark : x \in S})
<1> DEFINE T == {x.mark : x \in S}
           f == [x \in S |-> x.mark]
<1>1. f \in Surjection(S, T)
  BY DEF Surjection
<1> HIDE DEF f
<1> QED BY <1>1, FS_Surjection

LEMMA BoxFinite == ASSUME NEW b, IsBox(b) PROVE IsFiniteSet({b[k].mark : k \in DOMAIN b})
<1> DEFINE T == {b[k].mark : k \in DOMAIN b}
           f == [k \in DOMAIN b |-> b[k].mark]
<1>1. DOMAIN b = 1 .. Len(b) /\ Len(b) \in Nat
  BY DEF IsBox
<1>2. IsFiniteSet(DOMAIN b)
  BY <1>1, FS_Interval
<1>3. f \in Surjection(DOMAIN b, T)
  BY DEF Surjection
<1> HIDE DEF f
<1> QED BY <1>2, <1>3, FS_Surjection

LEMMA FreshMarkIsNew ==
  ASSUME ~IsFiniteSet(Marks), NEW r, Finite(r), IsBox(inbox)
  PROVE  FreshMark(r) \in Marks \ CarriedMarks(r)
<1> DEFINE others == r.prompts \cup r.claimed \cup r.conts
           used == CarriedMarks(r) \cup r.cancelled \cup {x.mark : x \in others}
           free == Marks \ used
           R == OpToRel(<, Nat)
<1>1. IsFiniteSet(others)
  BY FS_Union DEF Finite
<1>2. IsFiniteSet({x.mark : x \in others})
  BY <1>1, MarksFinite
<1>3. IsFiniteSet({s.mark : s \in r.sends})
  BY MarksFinite DEF Finite
<1>4. IsFiniteSet({x.mark : x \in {r.intent, r.delivery} \ {None}})
  <2>1. IsFiniteSet({r.intent, r.delivery})
    <3>1. IsFiniteSet({r.intent}) /\ IsFiniteSet({r.delivery})
      BY FS_Singleton
    <3>2. {r.intent, r.delivery} = {r.intent} \cup {r.delivery}
      OBVIOUS
    <3> QED BY <3>1, <3>2, FS_Union
  <2>2. IsFiniteSet({r.intent, r.delivery} \ {None})
    BY <2>1, FS_Subset
  <2> QED BY <2>2, MarksFinite
<1>5. IsFiniteSet(CarriedMarks(r))
  BY <1>3, <1>4, BoxFinite, FS_Union DEF CarriedMarks
<1>6. IsFiniteSet(used)
  BY <1>2, <1>5, FS_Union DEF Finite
<1>7. free # {}
  <2> SUFFICES ASSUME free = {} PROVE FALSE
    OBVIOUS
  <2>1. Marks \in SUBSET used
    OBVIOUS
  <2> HIDE DEF used
  <2> QED BY <1>6, <2>1, FS_Subset
<1>8. free \subseteq Nat
  BY GoalAssumption
<1>9. IsWellFoundedOn(R, Nat)
  BY NatLessThanWellFounded
<1> HIDE DEF free
<1>10. PICK n \in free : \A m \in free : <<m, n>> \notin R
  <2> HIDE DEF R
  <2> QED BY <1>7, <1>8, <1>9, WFMin
<1>11. \A m \in free : ~(m < n)
  BY <1>8, <1>10 DEF OpToRel
<1>12. n \in free /\ \A m \in free : n <= m
  BY <1>8, <1>11
<1>13. FreshMark(r) = CHOOSE m \in free : \A other \in free : m <= other
  BY DEF FreshMark, free
<1>14. FreshMark(r) \in free
  BY <1>12, <1>13
<1> QED BY <1>14 DEF free

-----------------------------------------------------------------------------
(* Prompts and continuations that are sent *)

Well(r) == Good(r, inbox) /\ SavedOK(r)

LEMMA GoodShaped == ASSUME NEW r, NEW b, Good(r, b) PROVE Shaped(r)
BY DEF Good, Sensible, Shaped

LEMMA KeepsWell == ASSUME NEW r, NEW q, ~IsGoal(None), Well(r), Keeps(r, q) PROVE Well(q)
BY KeepsGood, KeepsSaved DEF Well, Good

\* What goes on in memory when the Goal, its queue and what is saved stay.
Steady(r, q) ==
  /\ IsMemory(q) /\ q.goal = r.goal /\ q.queue = r.queue /\ q.pending = r.pending /\ q.saved = r.saved
  /\ q.revived = r.revived /\ q.cancelled = r.cancelled /\ q.ask = r.ask
  /\ q.claimed = r.claimed /\ q.conts = r.conts

LEMMA SteadySaved ==
  ASSUME NEW r, NEW q, Steady(r, q), Sensible(r), SavedOK(r)
  PROVE  Sensible(q) /\ SavedOK(q)
BY DEF Steady, Sensible, SavedOK, Same, Pending

LEMMA RequestWell ==
  ASSUME NEW r, Well(r), Active(r), IsBox(inbox), ~IsFiniteSet(Marks)
  PROVE  Well(RequestContinuation(r)) /\ Steady(r, RequestContinuation(r))
<1> DEFINE q == [r EXCEPT !.intent = [goal |-> r.goal.id, mark |-> FreshMark(r)]]
<1>1. CASE HasWork(r, r.goal.id)
  BY <1>1 DEF RequestContinuation, Steady, Well, Good
<1>2. CASE ~HasWork(r, r.goal.id)
  <2>1. /\ Steady(r, q) /\ q.delivery = r.delivery /\ q.sends = r.sends /\ q.prompts = r.prompts
        /\ q.intent.mark = FreshMark(r)
    BY DEF Steady, Well, Good, IsMemory
  <2>2. FreshMark(r) \notin CarriedMarks(r)
    BY FreshMarkIsNew DEF Well, Good
  <2>3. RequestContinuation(r) = q
    BY <1>2 DEF RequestContinuation
  <2> HIDE DEF q, Fields
  <2>4. Finite(q) /\ Sensible(q) /\ SavedOK(q)
    BY <2>1, SteadySaved DEF Finite, Well, Good, Steady
  <2>5. Proper(q) = Proper(r) /\ ContMarks(q, inbox) = ContMarks(r, inbox)
    BY <2>1, ProperMarks DEF Proper
  <2>6. IntentIsUnsent(q, inbox)
    BY <2>1, <2>2 DEF IntentIsUnsent, CarriedMarks, Proper, Owning
  <2>7. OneDelivery(q, inbox)
    <3>1. CASE r.revived
      BY <2>1, <3>1 DEF OneDelivery, Steady
    <3>2. CASE ~r.revived
      <4>1. r.delivery = None
        BY <1>2, <3>2 DEF Well, Good, Carried, OneDelivery, HasWork, IdOf
      <4>2. ContMarks(r, inbox) \subseteq r.cancelled
        BY <3>2, <4>1 DEF Well, Good, Carried, OneDelivery
      <4> QED BY <2>1, <2>5, <4>1, <4>2 DEF OneDelivery, Steady
    <3> QED BY <3>1, <3>2
  <2>8. OneCarrier(q, inbox) /\ Recorded(q, inbox)
    BY <2>1, <2>5 DEF Well, Good, Carried, OneCarrier, Recorded
  <2>9. Good(q, inbox)
    BY <2>1, <2>4, <2>5, <2>6, <2>7, <2>8 DEF Good, Carried, Well, Steady
  <2> QED BY <2>1, <2>3, <2>4, <2>9 DEF Well
<1> QED BY <1>1, <1>2

LEMMA SendingFields ==
  ASSUME NEW r, IsMemory(r), NEW op, NEW mark, NEW settle, NEW back, NEW queue
  PROVE  LET q == Sending(r, op, mark, settle, back, queue)
             s == [op |-> op, goal |-> r.goal.id, mark |-> mark, settle |-> settle, back |-> back, queue |-> queue]
         IN  /\ Steady(r, q) /\ q.intent = r.intent /\ q.delivery = r.delivery /\ q.prompts = r.prompts
             /\ q.sends = r.sends \cup {s}
BY DEF Sending, IsMemory, Steady

\* What is sent beside the rest is a prompt of its own.
LEMMA SentCarried ==
  ASSUME NEW r, NEW q, NEW s, NEW b, OneCarrier(r, b), s.op # "wrapUp",
         q.sends = r.sends \cup {s}, \A x \in Proper(r) : x.mark # s.mark, \A k \in Owning(b) : b[k].mark # s.mark
  PROVE  Proper(q) = Proper(r) \cup {s} /\ OneCarrier(q, b)
<1>1. Proper(q) = Proper(r) \cup {s}
  BY DEF Proper
<1> QED BY <1>1 DEF OneCarrier

LEMMA ContinuedWell ==
  ASSUME NEW r, Well(r), ~IsGoal(None), NEW settle
  PROVE  LET q == Continued(r, settle)
         IN  Well(q) /\ r.cancelled \subseteq q.cancelled /\ q.revived = r.revived /\ q.ask = r.ask
<1>1. CASE Continued(r, settle) = r
  BY <1>1
<1>2. CASE Continued(r, settle) = [r EXCEPT !.intent = None]
  <2> DEFINE q == [r EXCEPT !.intent = None]
  <2>1. Steady(r, q) /\ q.delivery = r.delivery /\ q.sends = r.sends /\ q.prompts = r.prompts /\ q.intent = None
    BY DEF Steady, Well, Good, IsMemory
  <2> HIDE DEF q, Fields
  <2>2. Finite(q) /\ Sensible(q) /\ SavedOK(q)
    BY <2>1, SteadySaved DEF Finite, Well, Good, Steady
  <2>3. Proper(q) = Proper(r) /\ ContMarks(q, inbox) = ContMarks(r, inbox)
    BY <2>1, ProperMarks DEF Proper
  <2>4. Carried(q, inbox)
    BY <2>1, <2>3 DEF Well, Good, Carried, OneCarrier, Recorded, IntentIsUnsent, OneDelivery, Steady, Active
  <2> QED BY <1>2, <2>1, <2>2, <2>3, <2>4 DEF Well, Good, Steady, q
<1>3. CASE Active(r) /\ Continued(r, settle) = PauseForSafety(r, FALSE)
  <2>1. Keeps(r, PauseForSafety(r, FALSE))
    BY <1>3, KeepsPause, GoodShaped DEF Well, Active
  <2> QED BY <1>3, <2>1, KeepsWell DEF Keeps, SameWork, Cancelled
<1>4. CASE /\ r.intent # None /\ ActiveAs(r, r.intent.goal)
           /\ Continued(r, settle) = Sending([r EXCEPT !.intent = None, !.delivery = r.intent], "continue",
                                             r.intent.mark, settle, None, <<>>)
  <2> DEFINE p == [r EXCEPT !.intent = None, !.delivery = r.intent]
             q == Sending(p, "continue", r.intent.mark, settle, None, <<>>)
             s == [op |-> "continue", goal |-> p.goal.id, mark |-> r.intent.mark, settle |-> settle,
                   back |-> None, queue |-> <<>>]
  <2>1. Steady(r, p) /\ p.delivery = r.intent /\ p.sends = r.sends /\ p.prompts = r.prompts /\ p.intent = None
    BY DEF Steady, Well, Good, IsMemory
  <2> HIDE DEF p
  <2>2. /\ Steady(p, q) /\ q.intent = None /\ q.delivery = r.intent /\ q.prompts = r.prompts
        /\ q.sends = r.sends \cup {s}
    BY <2>1, SendingFields DEF Steady
  <2>3. s.op = "continue" /\ s.mark = r.intent.mark
    OBVIOUS
  <2> HIDE DEF q, s, Fields
  <2>4. Steady(r, q)
    BY <2>1, <2>2 DEF Steady
  <2>5. Finite(q) /\ Sensible(q) /\ SavedOK(q)
    BY <2>2, <2>4, SteadySaved, FS_AddElement DEF Finite, Well, Good, Steady
  <2>6. Proper(q) = Proper(r) \cup {s} /\ OneCarrier(q, inbox)
    <3>1. (\A x \in Proper(r) : x.mark # s.mark) /\ (\A k \in Owning(inbox) : inbox[k].mark # s.mark)
      BY <1>4, <2>3 DEF Well, Good, Carried, IntentIsUnsent
    <3>2. OneCarrier(r, inbox)
      BY DEF Well, Good, Carried
    <3> QED BY <2>2, <2>3, <3>1, <3>2, SentCarried
  <2>7. Recorded(q, inbox)
    BY <2>2, <2>3, <2>6 DEF Recorded, PromptOps, Well, Good, Carried
  <2>8. \A x \in Proper(q) : SendOK(x)
    BY <2>3, <2>6 DEF Well, Good, SendOK, PromptOps
  <2>9. OneDelivery(q, inbox)
    <3>1. ContMarks(q, inbox) = ContMarks(r, inbox) \cup {s.mark}
      BY <2>2, <2>3 DEF ContMarks
    <3>2. Active(q) => q.goal.id = r.intent.goal
      BY <1>4, <2>4 DEF ActiveAs, Active, Steady
    <3> QED BY <1>4, <2>2, <2>3, <2>4, <3>1, <3>2 DEF OneDelivery, Well, Good, Carried, Steady
  <2> QED BY <1>4, <2>2, <2>4, <2>5, <2>6, <2>7, <2>8, <2>9 DEF Well, Good, Carried, IntentIsUnsent, Steady, q, p
<1> QED BY <1>1, <1>2, <1>3, <1>4 DEF Continued, ActiveAs

LEMMA SendOwnedWell ==
  ASSUME NEW r, Well(r), IsBox(inbox), ~IsFiniteSet(Marks),
         NEW op \in PromptOps, NEW settle, NEW back, NEW queue, NEW reset, NEW origin,
         \A s : s.op = op /\ s.back = back /\ s.queue = queue => SendOK(s)
  PROVE  LET q == SendOwned(r, op, settle, back, queue, reset, origin)
         IN  Well(q) /\ Steady(r, q) /\ q.intent = r.intent /\ q.delivery = r.delivery
<1> DEFINE m == FreshMark(r)
           p == [goal |-> r.goal.id, mark |-> m, origin |-> origin, reset |-> reset]
           c == [r EXCEPT !.prompts = @ \cup {p}]
           q == Sending(c, op, m, settle, back, queue)
           s == [op |-> op, goal |-> c.goal.id, mark |-> m, settle |-> settle, back |-> back, queue |-> queue]
<1>1. m \notin CarriedMarks(r)
  BY FreshMarkIsNew DEF Well, Good
<1> HIDE DEF m
<1>2. p.goal = r.goal.id /\ p.mark = m
  OBVIOUS
<1> HIDE DEF p
<1>3. /\ Steady(r, c) /\ c.delivery = r.delivery /\ c.sends = r.sends /\ c.prompts = r.prompts \cup {p}
      /\ c.intent = r.intent
  BY DEF Steady, Well, Good, IsMemory
<1> HIDE DEF c
<1>4. /\ Steady(c, q) /\ q.intent = r.intent /\ q.delivery = r.delivery /\ q.prompts = r.prompts \cup {p}
      /\ q.sends = r.sends \cup {s}
  BY <1>3, SendingFields DEF Steady
<1>5. s.op = op /\ s.mark = m /\ s.goal = r.goal.id /\ s.back = back /\ s.queue = queue
  BY <1>3 DEF Steady
<1> HIDE DEF q, s, Fields
<1>6. Steady(r, q)
  BY <1>3, <1>4 DEF Steady
<1>7. Finite(q) /\ Sensible(q) /\ SavedOK(q)
  BY <1>4, <1>6, SteadySaved, FS_AddElement DEF Finite, Well, Good, Steady
<1>8. s.op # "wrapUp" /\ s.op # "continue"
  BY <1>5 DEF PromptOps
<1>9. (\A x \in Proper(r) : x.mark # m) /\ (\A k \in Owning(inbox) : inbox[k].mark # m)
  BY <1>1 DEF CarriedMarks, Proper, Owning
<1>10. Proper(q) = Proper(r) \cup {s} /\ OneCarrier(q, inbox)
  BY <1>4, <1>5, <1>8, <1>9, SentCarried DEF Well, Good, Carried
<1>11. Recorded(q, inbox)
  BY <1>2, <1>4, <1>5, <1>10 DEF Recorded, Well, Good, Carried
<1>12. \A x \in Proper(q) : SendOK(x)
  BY <1>5, <1>10 DEF Well, Good
<1>13. OneDelivery(q, inbox)
  <2>1. ContMarks(q, inbox) = ContMarks(r, inbox)
    BY <1>4, <1>8 DEF ContMarks
  <2> QED BY <1>4, <1>6, <2>1 DEF OneDelivery, Well, Good, Carried, Steady, Active
<1>14. IntentIsUnsent(q, inbox)
  <2>1. r.intent # None => r.intent.mark # m
    BY <1>1 DEF CarriedMarks
  <2> QED BY <1>4, <1>5, <1>10, <2>1 DEF IntentIsUnsent, Well, Good, Carried
<1>15. Well(q)
  BY <1>6, <1>7, <1>10, <1>11, <1>12, <1>13, <1>14 DEF Well, Good, Carried, Steady
<1> QED BY <1>4, <1>6, <1>15 DEF SendOwned, q, c, p, m

-----------------------------------------------------------------------------
(* Goals that are replaced *)

LEMMA RebuiltGood ==
  ASSUME NEW r, NEW q, NEW b, Good(r, b), IsMemory(q), Sensible(q), Finite(q),
         Proper(q) = Proper(r), q.prompts = r.prompts, q.revived = r.revived,
         \/ Cancelled(r, q)
         \/ SameWork(r, q) /\ (Active(q) => Active(r) /\ q.goal.id = r.goal.id)
  PROVE  Good(q, b)
<1> HIDE DEF Fields
<1>1. \A s \in Proper(q) : SendOK(s)
  BY DEF Good
<1>2. OneCarrier(q, b) /\ Recorded(q, b)
  BY DEF Good, Carried, OneCarrier, Recorded
<1>3. IntentIsUnsent(q, b)
  BY DEF Good, Carried, IntentIsUnsent, SameWork, Cancelled
<1>4. OneDelivery(q, b)
  <2>1. ContMarks(q, b) = ContMarks(r, b)
    BY ProperMarks
  <2>2. CASE SameWork(r, q) /\ (Active(q) => Active(r) /\ q.goal.id = r.goal.id)
    BY <2>1, <2>2 DEF Good, Carried, OneDelivery, SameWork
  <2>3. CASE Cancelled(r, q)
    BY <2>1, <2>3 DEF Good, Carried, OneDelivery, Cancelled
  <2> QED BY <2>2, <2>3
<1> QED BY <1>1, <1>2, <1>3, <1>4 DEF Good, Carried

\* The fields a Goal's replacement leaves to the rest of the Extension.
Others(r, q) ==
  /\ q.sends = r.sends /\ q.prompts = r.prompts /\ q.revived = r.revived /\ q.ask = r.ask
  /\ q.claimed = r.claimed /\ q.conts = r.conts

LEMMA OthersGood ==
  ASSUME NEW r, NEW q, NEW b, Good(r, b), IsMemory(q), Sensible(q), Others(r, q),
         \/ Cancelled(r, q)
         \/ SameWork(r, q) /\ (Active(q) => Active(r) /\ q.goal.id = r.goal.id)
  PROVE  Good(q, b)
<1>1. Proper(q) = Proper(r)
  BY DEF Proper, Others
<1>2. Finite(q)
  BY FS_AddElement DEF Finite, Others, Good, SameWork, Cancelled
<1> QED BY <1>1, <1>2, RebuiltGood DEF Others

PersistFields(r, q) ==
  /\ IsMemory(q) /\ Others(r, q) /\ SameWork(r, q) /\ Mirrors(q)
  /\ q.goal = r.goal /\ q.queue = r.queue /\ q.pending = r.pending

LEMMA PersistedFields == ASSUME NEW r, Shaped(r) PROVE PersistFields(r, Persist(r))
BY DEF PersistFields, Shaped, IsMemory, Persist, Saved, Others, SameWork, Mirrors, Same

LEMMA PersistWell == ASSUME NEW r, ~IsGoal(None), Good(r, inbox) PROVE Well(Persist(r))
<1>1. Keeps(r, Persist(r)) /\ Mirrors(Persist(r))
  BY KeepsPersist, GoodShaped, PersistedFields DEF PersistFields
<1>2. Good(Persist(r), inbox)
  BY <1>1, KeepsGood
<1>3. Sensible(Persist(r))
  BY <1>2 DEF Good
<1> QED BY <1>1, <1>2, <1>3, MirrorsSaved DEF Well

\* Whatever was on its way when the Goal stopped does no work.
Stops(r, q) ==
  /\ q.revived = r.revived /\ r.cancelled \subseteq q.cancelled
  /\ r.delivery # None => r.delivery.mark \in q.cancelled

LEMMA StopsKept ==
  ASSUME NEW r, NEW q, NEW b, OneDelivery(r, b), ~r.revived, Stops(r, q)
  PROVE  ~q.revived /\ Kept(q, b)
BY DEF OneDelivery, ContMarks, Stops, Kept

LEMMA SupersededFields ==
  ASSUME NEW r, IsMemory(r)
  PROVE  LET q == Superseded(r)
         IN  /\ IsMemory(q) /\ Others(r, q) /\ Cancelled(r, q) /\ q.saved = r.saved
             /\ q.goal = r.goal /\ q.queue = r.queue /\ q.pending = r.pending
BY DEF Superseded, CancelWork, IsMemory, Others, Cancelled

LEMMA EmptyIsQueue == IsQueue(<<>>)
BY GoalAssumption DEF IsQueue

LEMMA ClearedFields ==
  ASSUME NEW r, IsMemory(r)
  PROVE  LET q == Cleared(r)
         IN  IsMemory(q) /\ Others(r, q) /\ Cancelled(r, q) /\ Sensible(q) /\ Mirrors(q)
<1> DEFINE p == Superseded(r)
           c == [p EXCEPT !.goal = None, !.queue = <<>>, !.pending = None]
<1>1. IsMemory(p) /\ Others(r, p) /\ Cancelled(r, p)
  BY SupersededFields
<1> HIDE DEF p
<1>2. /\ IsMemory(c) /\ Others(p, c) /\ SameWork(p, c)
      /\ c.goal = None /\ c.queue = <<>> /\ c.pending = None
  BY <1>1 DEF IsMemory, Others, SameWork
<1> HIDE DEF c
<1>3. PersistFields(c, Persist(c))
  BY <1>2, PersistedFields DEF Shaped
<1>4. Sensible(Persist(c))
  BY <1>2, <1>3, EmptyIsQueue DEF Sensible, PersistFields, IsChange, Pending
<1> QED BY <1>1, <1>2, <1>3, <1>4 DEF Cleared, p, c, PersistFields, Others, Cancelled, SameWork

LEMMA ClearedWell ==
  ASSUME NEW r, NEW c, Good(r, inbox), IsMemory(c), Others(r, c), SameWork(r, c) \/ Cancelled(r, c)
  PROVE  Well(Cleared(c)) /\ Stops(r, Cleared(c)) /\ Cleared(c).ask = r.ask
<1> DEFINE q == Cleared(c)
<1>1. IsMemory(q) /\ Others(c, q) /\ Cancelled(c, q) /\ Sensible(q) /\ Mirrors(q)
  BY ClearedFields
<1> HIDE DEF q, Fields
<1>2. Others(r, q) /\ Cancelled(r, q)
  BY <1>1 DEF Others, Cancelled, SameWork
<1>3. Good(q, inbox)
  BY <1>1, <1>2, OthersGood
<1>4. SavedOK(q)
  BY <1>1, MirrorsSaved
<1> QED BY <1>2, <1>3, <1>4 DEF Well, Stops, Others, Cancelled, q

-----------------------------------------------------------------------------
(* Goals and queues *)

LEMMA SelfSeq ==
  ASSUME NEW S, NEW b \in Seq(S)
  PROVE  b \in Seq({b[k] : k \in DOMAIN b})
BY SeqOfRange DEF Range

LEMMA QueueFirst ==
  ASSUME NEW q, IsQueue(q), Len(q) < MaxQueued, NEW g, IsGoal(g), g.status # "complete"
  PROVE  IsQueue(<<g>> \o q)
<1> DEFINE S == {q[k] : k \in DOMAIN q} \cup {g}
           z == <<g>> \o q
<1>1. q \in Seq(S) /\ <<g>> \in Seq(S) /\ Len(<<g>>) = 1 /\ <<g>>[1] = g
  BY SeqMonotonic DEF IsQueue
<1> HIDE DEF S
<1>2. /\ z \in Seq(S) /\ Len(z) = Len(q) + 1
      /\ \A i \in 1 .. 1 + Len(q) : z[i] = IF i <= 1 THEN g ELSE q[i - 1]
  BY <1>1, ConcatProperties
<1>3. DOMAIN z = 1 .. Len(q) + 1 /\ DOMAIN q = 1 .. Len(q) /\ Len(q) \in Nat
  BY <1>1, <1>2, LenProperties
<1>4. \A k \in DOMAIN z : IsGoal(z[k]) /\ z[k].status # "complete"
  BY <1>2, <1>3 DEF IsQueue
<1>5. Len(z) <= MaxQueued
  BY <1>2, <1>3, GoalAssumption
<1>6. IsQueue(z)
  <2> HIDE DEF z
  <2> QED BY <1>2, <1>4, <1>5, SelfSeq DEF IsQueue
<1> QED BY <1>6

LEMMA QueueLast ==
  ASSUME NEW q, IsQueue(q), Len(q) < MaxQueued, NEW g, IsGoal(g), g.status # "complete"
  PROVE  IsQueue(Append(q, g))
<1> DEFINE S == {q[k] : k \in DOMAIN q} \cup {g}
           z == Append(q, g)
<1>1. q \in Seq(S) /\ g \in S
  BY SeqMonotonic DEF IsQueue
<1> HIDE DEF S
<1>2. /\ z \in Seq(S) /\ Len(z) = Len(q) + 1
      /\ \A i \in 1 .. Len(q) : z[i] = q[i]
      /\ z[Len(q) + 1] = g
  BY <1>1, AppendProperties
<1>3. DOMAIN z = 1 .. Len(q) + 1 /\ DOMAIN q = 1 .. Len(q) /\ Len(q) \in Nat
  BY <1>1, <1>2, LenProperties
<1>4. \A k \in DOMAIN z : IsGoal(z[k]) /\ z[k].status # "complete"
  BY <1>2, <1>3 DEF IsQueue
<1>5. Len(z) <= MaxQueued
  BY <1>2, <1>3, GoalAssumption
<1> QED BY <1>2, <1>4, <1>5, SelfSeq DEF IsQueue

LEMMA QueueTail ==
  ASSUME NEW q, IsQueue(q), q # <<>>
  PROVE  IsQueue(Tail(q)) /\ IsGoal(Head(q)) /\ Head(q).status # "complete"
<1> DEFINE S == {q[k] : k \in DOMAIN q}
           z == Tail(q)
<1>1. q \in Seq(S)
  BY DEF IsQueue
<1> HIDE DEF S
<1>2. /\ z \in Seq(S) /\ Len(z) = Len(q) - 1 /\ \A i \in 1 .. Len(z) : z[i] = q[i + 1]
  BY <1>1, HeadTailProperties
<1>3. DOMAIN z = 1 .. Len(z) /\ DOMAIN q = 1 .. Len(q) /\ Len(q) \in Nat /\ Len(z) \in Nat
  BY <1>1, <1>2, LenProperties
<1>4. \A k \in DOMAIN z : IsGoal(z[k]) /\ z[k].status # "complete"
  BY <1>2, <1>3 DEF IsQueue
<1>5. Len(z) <= MaxQueued
  BY <1>2, <1>3, GoalAssumption DEF IsQueue
<1>6. Head(q) = q[1] /\ 1 \in DOMAIN q
  BY <1>1, <1>2, <1>3
<1> QED BY <1>2, <1>4, <1>5, <1>6, SelfSeq DEF IsQueue

LEMMA QueueFront ==
  ASSUME NEW q, IsQueue(q), q # <<>>
  PROVE  IsQueue(Front(q))
<1> DEFINE S == {q[k] : k \in DOMAIN q}
           z == Front(q)
<1>1. q \in Seq(S) /\ DOMAIN q = 1 .. Len(q) /\ Len(q) \in Nat
  BY LenProperties DEF IsQueue
<1>2. \A i \in 1 .. Len(q) - 1 : q[i] \in S
  BY <1>1
<1> HIDE DEF S
<1>3. /\ z \in Seq(S) /\ Len(z) <= Len(q)
      /\ \A i \in 1 .. Len(z) : z[i] = q[i]
      /\ Len(z) \in Nat
  BY <1>1, <1>2, SubSeqProperties DEF Front
<1>4. DOMAIN z = 1 .. Len(z)
  BY <1>3, LenProperties
<1>5. \A k \in DOMAIN z : IsGoal(z[k]) /\ z[k].status # "complete"
  BY <1>1, <1>3, <1>4 DEF IsQueue
<1>6. Len(z) <= MaxQueued
  BY <1>1, <1>3, GoalAssumption DEF IsQueue
<1> QED BY <1>3, <1>5, <1>6, SelfSeq DEF IsQueue

LEMMA NewIsGoal ==
  ASSUME NEW id, NEW status, NEW budget
  PROVE  LET g == NewGoal(id, status, budget) IN IsGoal(g) /\ g.id = id /\ g.status = status
BY DEF NewGoal, IsGoal

LEMMA TransitionGoal ==
  ASSUME NEW g, IsGoal(g), NEW status
  PROVE  LET h == Transition(g, status)
         IN  /\ IsGoal(h) /\ h.id = g.id
             /\ h.status = status \/ (status = "active" /\ h.status = "budget_limited")
             /\ h.reset = g.reset /\ h.budget = g.budget /\ h.used = g.used
BY DEF Transition, IsGoal

LEMMA RebasedGoal ==
  ASSUME NEW g, IsGoal(g)
  PROVE  IsGoal(Rebased(g)) /\ Rebased(g).id = g.id /\ Rebased(g).status = g.status
BY DEF Rebased, IsGoal

LEMMA ShelvedGoal ==
  ASSUME NEW g, IsGoal(g), g.status # "complete"
  PROVE  IsGoal(Shelved(g)) /\ Shelved(g).status # "complete"
BY DEF Shelved, IsGoal

LEMMA ActivatedGoal ==
  ASSUME NEW g, IsGoal(g), g.status # "complete", NEW id
  PROVE  IsGoal(Activated(g, id)) /\ Activated(g, id).status # "complete"
<1> DEFINE b == [Rebased(g) EXCEPT !.id = id]
           a == Transition(b, "active")
<1>1. IsGoal(b)
  BY RebasedGoal DEF IsGoal
<1>2. IsGoal(a) /\ a.status # "complete"
  BY <1>1, TransitionGoal
<1>3. IsGoal(FreshEpoch(a)) /\ FreshEpoch(a).status = a.status
  BY <1>2, FreshGoal
<1> QED BY <1>2, <1>3, RebasedGoal DEF Activated

-----------------------------------------------------------------------------
(* Changes of the queue *)

\* activatePrioritizedGoal
LEMMA PrioritizedWell ==
  ASSUME NEW r, Well(r), Pending(r, "prioritize"), NEW settle,
         IsBox(inbox), ~IsGoal(None), ~IsFiniteSet(Marks)
  PROVE  Well(Prioritized(r, settle)) /\ Stops(r, Prioritized(r, settle)) /\ Prioritized(r, settle).ask = r.ask
<1> DEFINE c == [r EXCEPT !.pending = None]
           d == IF Active(c) /\ ~r.pending.finalized THEN Charge(c) ELSE c
           e == Superseded(d)
           g == NewGoal(FreshId(r), "active", r.pending.budget)
           w == IF d.goal.status = "complete" THEN e.queue ELSE <<Shelved(d.goal)>> \o e.queue
           to == [e EXCEPT !.goal = g,
                           !.queue = IF d.goal.status = "complete" THEN @ ELSE <<Shelved(d.goal)>> \o @]
<1>1. r.goal # None /\ IsGoal(r.goal) /\ IsQueue(r.queue)
  BY DEF Well, Good, Sensible, Pending
<1>2. /\ IsMemory(c) /\ Others(r, c) /\ SameWork(r, c) /\ c.saved = r.saved
      /\ c.goal = r.goal /\ c.queue = r.queue /\ c.pending = None
  BY DEF Well, Good, IsMemory, Others, SameWork
<1> HIDE DEF c
<1>3. /\ IsMemory(d) /\ Others(r, d) /\ SameWork(r, d) /\ d.saved = r.saved
      /\ IsGoal(d.goal) /\ d.goal.status = r.goal.status /\ d.queue = r.queue /\ d.pending = None
  BY <1>1, <1>2 DEF IsMemory, Others, SameWork, Charge, IsGoal
<1> HIDE DEF d
<1>4. /\ IsMemory(e) /\ Others(r, e) /\ Cancelled(r, e) /\ e.saved = r.saved
      /\ e.goal = d.goal /\ e.queue = r.queue /\ e.pending = None
  <2> HIDE DEF Fields
  <2> QED BY <1>3, SupersededFields DEF Others, Cancelled, SameWork
<1> HIDE DEF e
<1>5. CASE Overfull(d)
  <2>1. d.goal.status # "complete" /\ Len(r.queue) = MaxQueued /\ e.goal # None
    <3>1. Len(r.queue) \in Nat
      BY <1>1, LenProperties DEF IsQueue
    <3> QED BY <1>1, <1>3, <1>4, <1>5, <3>1, GoalAssumption DEF Overfull, IsQueue
  <2>2. Sensible(e)
    BY <1>1, <1>3, <1>4, <2>1 DEF Sensible, IsChange, Pending
  <2>3. Good(e, inbox)
    BY <1>4, <2>2, OthersGood DEF Well
  <2>4. SavedOK(e)
    BY <1>4, <2>1 DEF Well, SavedOK, Refused, Same, Pending
  <2>5. Prioritized(r, settle) = e
    BY <1>5 DEF Prioritized, e, d, c
  <2> QED BY <1>4, <2>3, <2>4, <2>5 DEF Well, Stops, Others, Cancelled
<1>6. CASE ~Overfull(d)
  <2>1. IsGoal(g) /\ g.status = "active"
    BY NewIsGoal
  <2> HIDE DEF g
  <2>2. IsQueue(w)
    <3>1. CASE d.goal.status = "complete"
      BY <1>1, <1>4, <3>1
    <3>2. CASE d.goal.status # "complete"
      <4>1. Len(r.queue) < MaxQueued
        <5>1. Len(r.queue) \in Nat
          BY <1>1, LenProperties DEF IsQueue
        <5> QED BY <1>3, <1>6, <3>2, <5>1, GoalAssumption DEF Overfull
      <4>2. IsGoal(Shelved(d.goal)) /\ Shelved(d.goal).status # "complete"
        BY <1>3, <3>2, ShelvedGoal
      <4> QED BY <1>1, <1>4, <3>2, <4>1, <4>2, QueueFirst
    <3> QED BY <3>1, <3>2
  <2>3. /\ IsMemory(to) /\ Others(r, to) /\ Cancelled(r, to)
        /\ to.goal = g /\ to.queue = w /\ to.pending = None
    BY <1>4 DEF IsMemory, Others, Cancelled
  <2> HIDE DEF to, w, Fields
  <2>4. Sensible(to)
    BY <2>1, <2>2, <2>3 DEF Sensible, IsChange, Pending
  <2>5. Good(to, inbox)
    BY <2>3, <2>4, OthersGood DEF Well
  <2>6. Well(Persist(to)) /\ PersistFields(to, Persist(to))
    BY <2>5, PersistWell, PersistedFields, GoodShaped
  <2>7. \A s : s.op = "prioritize" /\ s.back = d.goal /\ s.queue = d.queue => SendOK(s)
    BY <1>1, <1>3 DEF SendOK, PromptOps
  <2> DEFINE q == SendOwned(Persist(to), "prioritize", settle, d.goal, d.queue, TRUE, "manual")
  <2>8. Well(q) /\ Steady(Persist(to), q)
    BY <2>6, <2>7, SendOwnedWell DEF PromptOps
  <2>9. Prioritized(r, settle) = q
    BY <1>6 DEF Prioritized, to, g, e, d, c
  <2> QED BY <2>3, <2>6, <2>8, <2>9 DEF Stops, Others, Cancelled, PersistFields, Steady, SameWork
<1> QED BY <1>5, <1>6

\* dispatchPendingQueueActionIfSettled: advance
LEMMA AdvancedWell ==
  ASSUME NEW r, Well(r), Pending(r, "advance"), NEW settle,
         IsBox(inbox), ~IsGoal(None), ~IsFiniteSet(Marks)
  PROVE  Well(Advanced(r, settle)) /\ Stops(r, Advanced(r, settle)) /\ Advanced(r, settle).ask = r.ask
<1> DEFINE p == [r EXCEPT !.pending = None]
           c == Superseded(p)
           g == Activated(Head(r.queue), FreshId(r))
           to == [c EXCEPT !.goal = g, !.queue = Tail(@)]
           origin == IF r.pending.reason = "skip" THEN "manual" ELSE "automatic"
<1>1. IsQueue(r.queue)
  BY DEF Well, Good, Sensible
<1>2. /\ IsMemory(p) /\ Others(r, p) /\ SameWork(r, p) /\ p.queue = r.queue /\ p.pending = None
  BY DEF Well, Good, IsMemory, Others, SameWork
<1> HIDE DEF p
<1>3. /\ IsMemory(c) /\ Others(r, c) /\ Cancelled(r, c) /\ c.queue = r.queue /\ c.pending = None
  <2> HIDE DEF Fields
  <2> QED BY <1>2, SupersededFields DEF Others, Cancelled, SameWork
<1> HIDE DEF c
<1>4. CASE r.queue = <<>>
  BY <1>3, <1>4, ClearedWell DEF Well, Advanced, c, p
<1>5. CASE r.queue # <<>>
  <2>1. IsGoal(g) /\ g.status # "complete" /\ IsQueue(Tail(r.queue))
    BY <1>1, <1>5, QueueTail, ActivatedGoal
  <2> HIDE DEF g
  <2>2. /\ IsMemory(to) /\ Others(r, to) /\ Cancelled(r, to)
        /\ to.goal = g /\ to.queue = Tail(r.queue) /\ to.pending = None
    BY <1>3 DEF IsMemory, Others, Cancelled
  <2> HIDE DEF to
  <2>3. ASSUME NEW q, /\ IsMemory(q) /\ Others(r, q) /\ Cancelled(r, q)
                      /\ q.goal = g /\ q.queue = Tail(r.queue) /\ q.pending = None
        PROVE  Well(Persist(q)) /\ Stops(r, Persist(q)) /\ Persist(q).ask = r.ask
    <3> HIDE DEF Fields
    <3>1. Sensible(q)
      BY <2>1, <2>3 DEF Sensible, IsChange, Pending
    <3>2. Good(q, inbox)
      BY <2>3, <3>1, OthersGood DEF Well
    <3>3. Well(Persist(q)) /\ PersistFields(q, Persist(q))
      BY <3>2, PersistWell, PersistedFields, GoodShaped
    <3> QED BY <2>3, <3>3 DEF Stops, Others, Cancelled, PersistFields, SameWork
  <2>4. CASE ~Active(to)
    <3> DEFINE q == [to EXCEPT !.stale = to.goal.status \in Stopped]
    <3>1. /\ IsMemory(q) /\ Others(r, q) /\ Cancelled(r, q)
          /\ q.goal = g /\ q.queue = Tail(r.queue) /\ q.pending = None
      BY <2>2 DEF IsMemory, Others, Cancelled
    <3> HIDE DEF q
    <3>2. Advanced(r, settle) = Persist(q)
      BY <1>5, <2>4 DEF Advanced, q, to, g, c, p
    <3> QED BY <2>3, <3>1, <3>2
  <2>5. CASE Active(to)
    <3> DEFINE q == SendOwned(Persist(to), "advance", settle, None, <<>>, FALSE, origin)
    <3>1. Well(Persist(to)) /\ Stops(r, Persist(to)) /\ Persist(to).ask = r.ask
      BY <2>2, <2>3
    <3>2. \A s : s.op = "advance" /\ s.back = None /\ s.queue = <<>> => SendOK(s)
      BY DEF SendOK, PromptOps
    <3> HIDE DEF origin
    <3>3. Well(q) /\ Steady(Persist(to), q)
      BY <3>1, <3>2, SendOwnedWell DEF PromptOps
    <3>4. Advanced(r, settle) = q
      BY <1>5, <2>5 DEF Advanced, q, to, g, c, p, origin
    <3> QED BY <3>1, <3>3, <3>4 DEF Stops, Steady
  <2> QED BY <2>4, <2>5
<1> QED BY <1>4, <1>5

\* What a memory may have come to while the Host works on it.
Onward(r, q) == q.revived = r.revived /\ r.cancelled \subseteq q.cancelled /\ q.ask = r.ask

LEMMA DispatchedWell ==
  ASSUME NEW r, Well(r), NEW settle, IsBox(inbox), ~IsGoal(None), ~IsFiniteSet(Marks)
  PROVE  Well(Dispatched(r, settle)) /\ Onward(r, Dispatched(r, settle))
<1> DEFINE c == [r EXCEPT !.pending = None]
<1>1. CASE r.pending = None \/ inbox # <<>>
  BY <1>1, ContinuedWell DEF Dispatched, Onward
<1>2. CASE r.pending # None /\ inbox = <<>> /\ r.pending.kind = "prioritize"
  BY <1>2, PrioritizedWell DEF Dispatched, Onward, Stops, Pending
<1>3. CASE r.pending # None /\ inbox = <<>> /\ r.pending.kind # "prioritize"
  <2>1. r.pending.kind = "advance" /\ r.goal # None /\ IsGoal(r.goal)
    BY <1>3 DEF Well, Good, Sensible, IsChange, Pending
  <2>2. CASE Due(r)
    BY <1>3, <2>1, <2>2, AdvancedWell DEF Dispatched, Onward, Stops, Pending
  <2>3. CASE ~Due(r)
    <3>1. /\ IsMemory(c) /\ Others(r, c) /\ SameWork(r, c)
          /\ c.goal = r.goal /\ c.queue = r.queue /\ c.pending = None
      BY DEF Well, Good, IsMemory, Others, SameWork
    <3>2. r.goal.status # "complete"
      BY <1>3, <2>1, <2>3 DEF Due, Well, Good, Sensible, Pending
    <3>3. Dispatched(r, settle) = Continued(Persist(c), settle)
      BY <1>3, <2>1, <2>3, <3>1 DEF Dispatched
    <3> HIDE DEF c, Fields
    <3>4. Sensible(c)
      BY <2>1, <3>1, <3>2 DEF Well, Good, Sensible, IsChange, Pending
    <3>5. Good(c, inbox)
      BY <3>1, <3>4, OthersGood DEF Well, Active
    <3>6. Well(Persist(c)) /\ PersistFields(c, Persist(c))
      BY <3>5, PersistWell, PersistedFields, GoodShaped
    <3> QED BY <3>1, <3>3, <3>6, ContinuedWell DEF Onward, PersistFields, Others, SameWork
  <2> QED BY <2>2, <2>3
<1> QED BY <1>1, <1>2, <1>3

-----------------------------------------------------------------------------
(* The handlers of the Host's events *)

LEMMA CompletedWell ==
  ASSUME NEW r, Well(r), Active(r) \/ ActiveWrapUp(r), ~IsGoal(None), NoneIsNoRecord
  PROVE  Well(Completed(r)) /\ Completed(r).revived = r.revived /\ Completed(r).ask = r.ask
<1> DEFINE g == Charge(r).goal
           c == [r EXCEPT !.goal = Transition(g, "complete"), !.abort = @ \/ ActiveWrapUp(r) \/ Reached(g)]
           d == [c EXCEPT !.pending = [kind |-> "advance", goal |-> g.id, reason |-> "complete"]]
<1>1. r.goal # None /\ Shaped(r)
  BY GoodShaped DEF Active, ActiveWrapUp, Well
<1>2. IsGoal(g) /\ g.id = r.goal.id
  BY <1>1, KeepsCharge DEF Keeps
<1>3. IsGoal(Transition(g, "complete")) /\ Transition(g, "complete").status = "complete"
      /\ Transition(g, "complete").id = r.goal.id
  BY <1>2, TransitionGoal
<1> HIDE DEF g
<1>4. /\ IsMemory(c) /\ Others(r, c) /\ SameWork(r, c) /\ c.goal = Transition(g, "complete")
      /\ c.queue = r.queue /\ c.pending = r.pending
  BY DEF Well, Good, IsMemory, Others, SameWork
<1>5. ASSUME NEW q, IsMemory(q), Others(r, q), SameWork(r, q), q.goal = Transition(g, "complete"),
             q.queue = r.queue, IsChange(q.pending), q.pending # None,
             Pending(q, "advance") => q.pending.goal = r.goal.id
      PROVE  Well(Persist(q)) /\ Persist(q).revived = r.revived /\ Persist(q).ask = r.ask
  <2> HIDE DEF Fields
  <2>1. Sensible(q)
    BY <1>3, <1>5 DEF Well, Good, Sensible
  <2>2. ~Active(q)
    BY <1>3, <1>5 DEF Active
  <2>3. Good(q, inbox)
    BY <1>5, <2>1, <2>2, OthersGood DEF Well
  <2>4. Well(Persist(q)) /\ PersistFields(q, Persist(q))
    BY <2>3, PersistWell, PersistedFields, GoodShaped
  <2> QED BY <1>5, <2>4 DEF PersistFields, Others
<1>6. CASE Pending(r, "prioritize")
  <2>1. Completed(r) = Persist(c)
    BY <1>6 DEF Completed, c, g
  <2>2. IsChange(c.pending) /\ c.pending # None /\ ~Pending(c, "advance")
    BY <1>4, <1>6 DEF Well, Good, Sensible, Pending
  <2> HIDE DEF c
  <2> QED BY <1>4, <1>5, <2>1, <2>2
<1>7. CASE ~Pending(r, "prioritize") /\ r.queue = <<>>
  <2>1. Completed(r) = Cleared(c)
    BY <1>7 DEF Completed, c, g
  <2> HIDE DEF c
  <2> QED BY <1>4, <2>1, ClearedWell DEF Well, Stops
<1>8. CASE ~Pending(r, "prioritize") /\ r.queue # <<>>
  <2>1. Completed(r) = Persist(d)
    BY <1>8 DEF Completed, c, g
  <2>2. /\ IsMemory(d) /\ Others(r, d) /\ SameWork(r, d) /\ d.goal = Transition(g, "complete")
        /\ d.queue = r.queue /\ d.pending = [kind |-> "advance", goal |-> g.id, reason |-> "complete"]
    <3> HIDE DEF c
    <3> QED BY <1>4 DEF IsMemory, Others, SameWork
  <2> HIDE DEF c, d
  <2>3. d.pending.kind = "advance" /\ d.pending.goal = r.goal.id
    BY <1>2, <2>2
  <2>4. d.pending # None
    BY <2>2, NoneIsNoChange
  <2> QED BY <1>5, <2>1, <2>2, <2>3, <2>4 DEF IsChange
<1> QED BY <1>6, <1>7, <1>8

LEMMA KeepsOnward ==
  ASSUME NEW r, NEW q, Well(r), ~IsGoal(None), Keeps(r, q)
  PROVE  Well(q) /\ Onward(r, q) /\ Shaped(q)
BY KeepsWell, GoodShaped DEF Keeps, Onward, SameWork, Cancelled, Well

LEMMA GoalCompleteWell ==
  ASSUME NEW r, Well(r), NEW evidence, ~IsGoal(None), NoneIsNoRecord
  PROVE  LET q == GoalComplete(r, evidence) IN Well(q) /\ q.revived = r.revived /\ q.ask = r.ask
<1>1. Shaped(r)
  BY GoodShaped DEF Well
<1>2. ASSUME NEW q, Keeps(r, q) PROVE Well(q) /\ q.revived = r.revived /\ q.ask = r.ask
  BY <1>2, KeepsOnward DEF Onward
<1>3. Keeps(r, r) /\ Keeps(r, Terminated(r)) /\ Keeps(r, Persist(Charge(r)))
  BY <1>1, KeepsSelf, KeepsTerminated, KeepsCharged
<1>4. /\ Well(r)
      /\ Well(Terminated(r)) /\ Terminated(r).revived = r.revived /\ Terminated(r).ask = r.ask
      /\ Well(Persist(Charge(r))) /\ Persist(Charge(r)).revived = r.revived /\ Persist(Charge(r)).ask = r.ask
  BY <1>2, <1>3
<1> QED BY <1>4, CompletedWell DEF GoalComplete

LEMMA ToolWell ==
  ASSUME NEW r, Well(r), ~IsGoal(None)
  PROVE  LET q == TurnRecorded(ToolEnded(r), FALSE) IN Well(q) /\ q.revived = r.revived /\ q.ask = r.ask
<1>1. Keeps(r, ToolEnded(r)) /\ Shaped(ToolEnded(r))
  BY KeepsTool, KeepsShaped, GoodShaped DEF Well
<1> DEFINE c == ToolEnded(r)
<1> HIDE DEF c
<1>2. Keeps(c, TurnRecorded(c, FALSE))
  BY <1>1, KeepsTurn DEF c
<1>3. Keeps(r, TurnRecorded(c, FALSE))
  BY <1>1, <1>2, KeepsOn DEF c
<1> QED BY <1>3, KeepsOnward DEF Onward, c

LEMMA RecoveryWell ==
  ASSUME NEW r, Well(r), ~IsGoal(None), IsBox(inbox), ~IsFiniteSet(Marks)
  PROVE  Well(RecoveryOver(r)) /\ Onward(r, RecoveryOver(r))
<1> DEFINE c == [r EXCEPT !.recovery = None]
           d == [CancelWork(c) EXCEPT !.wrapUp = None, !.stale = FALSE]
<1>1. Beside(r, c) /\ c.goal = r.goal
  BY DEF Beside, Well, Good, IsMemory, SameWork
<1> HIDE DEF c
<1>2. Keeps(r, c) /\ Shaped(c)
  BY <1>1, KeepsBeside, KeepsShaped, GoodShaped DEF Well
<1>3. Keeps(c, CancelWork(c)) /\ Shaped(CancelWork(c))
  BY <1>2, KeepsCancel, KeepsShaped
<1>4. Beside(CancelWork(c), d) /\ d.goal = CancelWork(c).goal
  BY <1>3 DEF Beside, Shaped, IsMemory, SameWork
<1> HIDE DEF d
<1>5. Keeps(CancelWork(c), d)
  BY <1>3, <1>4, KeepsBeside
<1>6. Keeps(r, d) /\ Shaped(d)
  BY <1>2, <1>3, <1>5, KeepsOn, KeepsShaped
<1>7. Keeps(r, Persist(d))
  BY <1>6, KeepsPersist, KeepsOn
<1>8. Well(c) /\ Onward(r, c) /\ Well(Persist(d)) /\ Onward(r, Persist(d))
  BY <1>2, <1>7, KeepsOnward
<1>9. CASE r.recovery = None \/ ~ActiveAs(r, r.recovery.goal)
  BY <1>8, <1>9 DEF RecoveryOver, c
<1>10. CASE ~(r.recovery = None \/ ~ActiveAs(r, r.recovery.goal))
  <2>1. c.goal = r.goal /\ CancelWork(c).goal = c.goal
    BY <1>1, <1>2 DEF CancelWork, Shaped, IsMemory
  <2>2. Active(Persist(d))
    <3>1. Persist(d).goal = d.goal
      BY <1>6, PersistedFields DEF PersistFields
    <3> QED BY <1>4, <1>10, <2>1, <3>1 DEF ActiveAs, Active
  <2>3. Well(RequestContinuation(Persist(d))) /\ Steady(Persist(d), RequestContinuation(Persist(d)))
    BY <1>8, <2>2, RequestWell
  <2>4. RecoveryOver(r) = RequestContinuation(Persist(d))
    BY <1>10 DEF RecoveryOver, d, c
  <2> QED BY <1>8, <2>3, <2>4 DEF Onward, Steady
<1> QED BY <1>9, <1>10

LEMMA ActiveEndWell ==
  ASSUME NEW r, Well(r), Active(r), NEW origin, NEW how, ~IsGoal(None), IsBox(inbox), ~IsFiniteSet(Marks)
  PROVE  Well(ActiveEnd(r, origin, how)) /\ Onward(r, ActiveEnd(r, origin, how))
<1> DEFINE c == Charge(r)
           d == ForgetRecovery(c)
<1>1. Keeps(r, c) /\ Shaped(c)
  BY KeepsCharge, KeepsShaped, GoodShaped DEF Well
<1>2. c.goal # None /\ Active(c)
  BY <1>1, GoodShaped DEF Keeps, Active, Charge, Charges, Shaped, IsMemory, Well, IsGoal
<1> HIDE DEF c
<1>3. Keeps(r, d) /\ Shaped(d) /\ d.goal = c.goal
  BY <1>1, KeepsForget, KeepsOn, KeepsShaped DEF ForgetRecovery, Shaped, IsMemory
<1> HIDE DEF d
<1>4. Keeps(r, Stop(d, "paused")) /\ Keeps(r, Stop(d, "usage_limited"))
  BY <1>2, <1>3, KeepsStop, KeepsOn
<1>5. Keeps(r, PauseForSafety(c, TRUE)) /\ Keeps(r, LimitForBudget(c)) /\ Keeps(r, Recovering(c, origin))
  BY <1>1, <1>2, KeepsPause, KeepsLimit, KeepsRecovering, KeepsOn
<1>6. Keeps(r, Persist(d)) /\ Persist(d).goal = d.goal
  BY <1>3, KeepsPersist, KeepsOn, PersistedFields DEF PersistFields
<1>7. Well(RequestContinuation(Persist(d))) /\ Onward(r, RequestContinuation(Persist(d)))
  <2>1. Well(Persist(d)) /\ Onward(r, Persist(d)) /\ Active(Persist(d))
    BY <1>2, <1>3, <1>6, KeepsOnward DEF Active
  <2>2. Well(RequestContinuation(Persist(d))) /\ Steady(Persist(d), RequestContinuation(Persist(d)))
    BY <2>1, RequestWell
  <2> QED BY <2>1, <2>2 DEF Onward, Steady
<1>8. ASSUME NEW q, Keeps(r, q) PROVE Well(q) /\ Onward(r, q)
  BY <1>8, KeepsOnward
<1>9. /\ Well(Stop(d, "paused")) /\ Onward(r, Stop(d, "paused"))
      /\ Well(Stop(d, "usage_limited")) /\ Onward(r, Stop(d, "usage_limited"))
      /\ Well(PauseForSafety(c, TRUE)) /\ Onward(r, PauseForSafety(c, TRUE))
      /\ Well(LimitForBudget(c)) /\ Onward(r, LimitForBudget(c))
      /\ Well(Recovering(c, origin)) /\ Onward(r, Recovering(c, origin))
      /\ Well(Persist(d)) /\ Onward(r, Persist(d))
  BY <1>4, <1>5, <1>6, <1>8
<1>10. \/ ActiveEnd(r, origin, how) \in {Stop(d, "paused"), Stop(d, "usage_limited"), PauseForSafety(c, TRUE),
                                         LimitForBudget(c), Recovering(c, origin), Persist(d)}
       \/ ActiveEnd(r, origin, how) = RequestContinuation(Persist(d))
  BY DEF ActiveEnd, c, d
<1> QED BY <1>7, <1>9, <1>10

LEMMA AgentEndedWell ==
  ASSUME NEW r0, Well(r0), NEW how, ~IsGoal(None), IsBox(inbox), ~IsFiniteSet(Marks)
  PROVE  Well(AgentEnded(r0, how)) /\ Onward(r0, AgentEnded(r0, how))
<1> DEFINE r == NoRun(r0)
           c == Persist(Charge(r))
           d == [c EXCEPT !.wrapUp = None]
<1>1. Keeps(r0, r) /\ Shaped(r)
  BY KeepsNoRun, KeepsShaped, GoodShaped DEF Well
<1> HIDE DEF r
<1>2. Keeps(r0, c) /\ Shaped(c)
  BY <1>1, KeepsCharged, KeepsOn
<1> HIDE DEF c
<1>3. Beside(c, d) /\ d.goal = c.goal
  BY <1>2 DEF Beside, Shaped, IsMemory, SameWork
<1> HIDE DEF d
<1>4. Keeps(r0, d)
  BY <1>2, <1>3, KeepsBeside, KeepsOn
<1>5. /\ Well(r) /\ Onward(r0, r) /\ Well(c) /\ Onward(r0, c) /\ Well(d) /\ Onward(r0, d)
  BY <1>1, <1>2, <1>4, KeepsOnward
<1>6. Active(r) => Well(ActiveEnd(r, r0.origin, how)) /\ Onward(r0, ActiveEnd(r, r0.origin, how))
  BY <1>5, ActiveEndWell DEF Onward
<1>7. \/ AgentEnded(r0, how) \in {r, c, d}
      \/ Active(r) /\ AgentEnded(r0, how) = ActiveEnd(r, r0.origin, how)
  BY DEF AgentEnded, r, c, d
<1> QED BY <1>5, <1>6, <1>7

LEMMA RestoredActiveWell ==
  ASSUME NEW r, Well(r), Active(r), NEW reloaded, ~IsGoal(None), IsBox(inbox), ~IsFiniteSet(Marks)
  PROVE  Well(RestoredActive(r, reloaded)) /\ Onward(r, RestoredActive(r, reloaded))
<1> DEFINE p == [r EXCEPT !.goal = IF @.reset THEN FreshEpoch(@) ELSE @]
           c == Persist(Charge(p))
<1>1. Shaped(r) /\ r.goal # None
  BY GoodShaped DEF Well, Active
<1>2. Beside(r, p) /\ p.goal = (IF r.goal.reset THEN FreshEpoch(r.goal) ELSE r.goal)
  BY <1>1 DEF Beside, Shaped, IsMemory, SameWork
<1> HIDE DEF p
<1>3. IsGoal(p.goal) /\ p.goal.id = r.goal.id /\ p.goal.status = r.goal.status
  BY <1>1, <1>2, FreshGoal DEF Shaped
<1>4. Keeps(r, p) /\ Shaped(p)
  BY <1>1, <1>2, <1>3, KeepsBeside, KeepsShaped
<1>5. Keeps(p, c) /\ Shaped(c)
  BY <1>4, KeepsCharged
<1>6. Keeps(p, Charge(p)) /\ Charge(p).goal.status = p.goal.status /\ Charge(p).goal # None /\ Shaped(Charge(p))
  <2>1. Keeps(p, Charge(p)) /\ Shaped(Charge(p)) /\ Charge(p).goal # None
    BY <1>1, <1>3, <1>4, KeepsCharge, KeepsShaped DEF Keeps
  <2>2. Charge(p).goal.status = p.goal.status
    BY <1>3, <1>4 DEF Charge, Shaped, IsMemory, IsGoal
  <2> QED BY <2>1, <2>2
<1>7. c.goal = Charge(p).goal
  BY <1>6, PersistedFields DEF PersistFields
<1>8. Active(c)
  BY <1>3, <1>6, <1>7 DEF Active
<1> HIDE DEF c
<1>9. Keeps(r, c)
  BY <1>4, <1>5, KeepsOn
<1>10. Keeps(r, LimitForBudget(c)) /\ Keeps(r, PauseForSafety(c, FALSE))
  BY <1>5, <1>8, <1>9, KeepsLimit, KeepsPause, KeepsOn DEF Active
<1>11. /\ Well(c) /\ Onward(r, c) /\ Well(LimitForBudget(c)) /\ Onward(r, LimitForBudget(c))
       /\ Well(PauseForSafety(c, FALSE)) /\ Onward(r, PauseForSafety(c, FALSE))
  <2>1. ASSUME NEW q, Keeps(r, q) PROVE Well(q) /\ Onward(r, q)
    BY <2>1, KeepsOnward
  <2> QED BY <1>9, <1>10, <2>1, Zenon
<1> DEFINE d == RequestContinuation(c)
<1>12. Well(d) /\ Steady(c, d)
  BY <1>8, <1>11, RequestWell
<1> HIDE DEF d
<1>13. Well(Continued(d, FALSE)) /\ Onward(r, Continued(d, FALSE))
  BY <1>11, <1>12, ContinuedWell DEF Onward, Steady
<1>14. RestoredActive(r, reloaded) \in {LimitForBudget(c), PauseForSafety(c, FALSE), Continued(d, FALSE), c}
  BY Zenon DEF RestoredActive, c, p, d
<1> QED BY <1>11, <1>13, <1>14, Zenon

-----------------------------------------------------------------------------
(* Messages that arrive *)

Unused(r, b, x) == (\A s \in Proper(r) : s.mark # x) /\ (\A k \in Owning(b) : b[k].mark # x)

\* A message takes its record, its delivery and its cancellation with it.
LEMMA ArrivedGood ==
  ASSUME NEW r, NEW b, Good(r, b), NEW x, Unused(r, b, x), NEW q, IsMemory(q), Finite(q),
         q.goal = r.goal, q.queue = r.queue, q.pending = r.pending, q.saved = r.saved, q.revived = r.revived,
         q.sends = r.sends, q.intent = r.intent, q.ask = r.ask,
         NEW O, \A p \in O : p.mark = x, q.prompts = r.prompts \ O,
         q.cancelled = r.cancelled \/ q.cancelled = r.cancelled \ {x},
         q.delivery = r.delivery \/ (q.delivery = None /\ r.delivery.mark = x)
  PROVE  Good(q, b) /\ (SavedOK(r) => SavedOK(q))
<1> HIDE DEF Fields
<1>1. Sensible(q) /\ (SavedOK(r) => SavedOK(q))
  BY DEF Good, Sensible, SavedOK, Same, Pending
<1>2. Proper(q) = Proper(r) /\ ContMarks(q, b) = ContMarks(r, b)
  BY ProperMarks DEF Proper
<1>3. x \notin ContMarks(r, b)
  BY DEF Unused, ContMarks, Continues, Owning, Proper
<1>4. OneDelivery(q, b)
  <2>1. CASE r.revived
    BY <2>1 DEF OneDelivery
  <2>2. CASE ~r.revived
    <3>1. \A y \in ContMarks(r, b) \ q.cancelled : y \notin r.cancelled /\ y # x
      BY <1>3
    <3>2. \A y \in ContMarks(q, b) \ q.cancelled : q.delivery # None /\ q.delivery.mark = y
      BY <1>2, <2>2, <3>1 DEF Good, Carried, OneDelivery
    <3>3. q.intent # None => ContMarks(q, b) \subseteq q.cancelled
      BY <1>2, <1>3, <2>2 DEF Good, Carried, OneDelivery
    <3>4. Active(q) /\ q.delivery # None => q.delivery.goal = q.goal.id
      BY <2>2 DEF Good, Carried, OneDelivery, Active
    <3> QED BY <3>2, <3>3, <3>4 DEF OneDelivery
  <2> QED BY <2>1, <2>2
<1>5. Recorded(q, b)
  <2>1. ASSUME NEW s \in Proper(q), s.op \in PromptOps
        PROVE  \E p \in q.prompts : p.mark = s.mark /\ p.goal = s.goal
    BY <1>2, <2>1 DEF Good, Carried, Recorded, Unused
  <2>2. ASSUME NEW k \in DOMAIN b, b[k].kind = "prompt"
        PROVE  \E p \in q.prompts : p.mark = b[k].mark /\ p.goal = b[k].goal
    BY <2>2 DEF Good, Carried, Recorded, Unused, Owning
  <2> QED BY <2>1, <2>2 DEF Recorded
<1>6. OneCarrier(q, b) /\ IntentIsUnsent(q, b)
  BY <1>2 DEF Good, Carried, OneCarrier, IntentIsUnsent
<1>7. \A s \in Proper(q) : SendOK(s)
  BY <1>2 DEF Good
<1> QED BY <1>1, <1>4, <1>5, <1>6, <1>7 DEF Good, Carried

LEMMA KeepsDisplaced ==
  ASSUME NEW r, Shaped(r), r.goal # None, IsChange(r.pending), Pending(r, "prioritize"),
         ~IsGoal(None), NoneIsNoRecord
  PROVE  Keeps(r, DisplacedUsage(r))
<1> DEFINE a == IF Active(r) THEN Charge(r) ELSE r
           c == [a EXCEPT !.pending.finalized = TRUE]
<1>1. Keeps(r, a) /\ Shaped(a) /\ a.goal # None
  BY KeepsCharge, KeepsSelf, KeepsShaped DEF Keeps
<1>2. a.pending = r.pending
  BY DEF Charge, Shaped, IsMemory
<1> HIDE DEF a
<1>3. /\ IsMemory(c) /\ Others(a, c) /\ SameWork(a, c) /\ c.goal = a.goal /\ c.queue = a.queue
      /\ c.pending = [a.pending EXCEPT !.finalized = TRUE]
  BY <1>1 DEF Shaped, IsMemory, SameWork, Others
<1> HIDE DEF c
<1>4. r.pending = [f \in {"kind", "budget", "finalized"} |-> r.pending[f]] /\ r.pending.kind = "prioritize" /\ r.pending # None
  BY DEF IsChange, Pending
<1>5. c.pending.kind = "prioritize" /\ c.pending = [f \in {"kind", "budget", "finalized"} |-> c.pending[f]]
  BY <1>2, <1>3, <1>4
<1>6. c.pending # None
  BY <1>5 DEF NoneIsNoRecord
<1>7. Shaped(c) /\ c.goal # None
  BY <1>1, <1>3 DEF Shaped
<1>8. PersistFields(c, Persist(c))
  BY <1>7, PersistedFields
<1>9. Finite(Persist(c)) <=> Finite(a)
  BY <1>3, <1>8 DEF Finite, PersistFields, Others, SameWork
<1>10. Proper(Persist(c)) = Proper(a)
  BY <1>3, <1>8 DEF Proper, PersistFields, Others
<1> HIDE DEF Fields
<1>11. Pending(c, "prioritize") /\ IsChange(c.pending)
  BY <1>5, <1>6 DEF Pending, IsChange
<1>12. SameWork(a, Persist(c))
  BY <1>3, <1>8 DEF PersistFields, SameWork
<1>13. /\ Persist(c).goal = a.goal /\ Persist(c).queue = a.queue /\ Persist(c).ask = a.ask
       /\ Persist(c).prompts = a.prompts /\ Persist(c).revived = a.revived
       /\ Persist(c).pending = c.pending /\ IsMemory(Persist(c)) /\ Mirrors(Persist(c))
  BY <1>3, <1>8 DEF PersistFields, Others
<1>14. Pending(a, "prioritize") /\ Pending(Persist(c), "prioritize") /\ IsChange(Persist(c).pending)
  BY <1>2, <1>4, <1>11, <1>13 DEF Pending
<1>15. Keeps(a, Persist(c))
  BY <1>1, <1>9, <1>10, <1>12, <1>13, <1>14 DEF Keeps, Shaped
<1>16. Keeps(r, Persist(c))
  BY <1>1, <1>15, KeepsOn
<1>17. DisplacedUsage(r) = IF r.pending.finalized THEN r ELSE Persist(c)
  BY <1>7 DEF DisplacedUsage, a, c
<1> QED BY <1>16, <1>17, KeepsSelf

\* What a handler leaves, and what of it the others rely on.
GoodSaved(r, b) == Good(r, b) /\ SavedOK(r)

Stays(r, q) == q.revived = r.revived /\ q.ask = r.ask

LEMMA KeepsStays ==
  ASSUME NEW r, NEW q, NEW b, ~IsGoal(None), GoodSaved(r, b), Keeps(r, q)
  PROVE  GoodSaved(q, b) /\ Stays(r, q)
BY KeepsGood, KeepsSaved DEF GoodSaved, Stays, Keeps, Good

\* A message that carries a marker carries it alone; the user's has none.
Arrives(r, b, m) == m.kind \in {"prompt", "continue"} => Unused(r, b, m.mark)

LEMMA ClaimGood ==
  ASSUME NEW r, NEW b, GoodSaved(r, b), NEW m, Arrives(r, b, m), ~IsGoal(None)
  PROVE  LET q == Claim(r, m)
         IN  GoodSaved(q, b) /\ Stays(r, q) /\ q.goal = r.goal /\ q.pending = r.pending
<1> DEFINE owners == Owners(r, m)
<1>1. IsMemory(r) /\ Finite(r) /\ Shaped(r)
  BY GoodShaped DEF GoodSaved, Good
<1>2. CASE owners # {}
  <2> DEFINE q == [r EXCEPT !.prompts = @ \ owners, !.claimed = @ \cup owners]
  <2>1. m.kind = "prompt" /\ \A p \in owners : p.mark = m.mark
    BY <1>2 DEF Owners
  <2>2. IsFiniteSet(owners)
    <3>1. IsFiniteSet(r.prompts \cup r.claimed)
      BY <1>1, FS_Union DEF Finite
    <3> QED BY <3>1, FS_Subset DEF Owners
  <2> HIDE DEF owners
  <2>3. /\ IsMemory(q) /\ q.goal = r.goal /\ q.queue = r.queue /\ q.pending = r.pending /\ q.saved = r.saved
        /\ q.revived = r.revived /\ q.sends = r.sends /\ q.intent = r.intent /\ q.ask = r.ask
        /\ q.prompts = r.prompts \ owners /\ q.cancelled = r.cancelled /\ q.delivery = r.delivery
        /\ q.claimed = r.claimed \cup owners /\ q.conts = r.conts
    BY <1>1 DEF IsMemory
  <2>4. Claim(r, m) = q
    BY <1>2 DEF Claim, owners
  <2> HIDE DEF q, Fields
  <2>5. Finite(q)
    <3>1. IsFiniteSet(q.prompts)
      BY <1>1, <2>3, FS_Subset DEF Finite
    <3>2. IsFiniteSet(q.claimed)
      <4>1. IsFiniteSet(r.claimed)
        BY <1>1 DEF Finite
      <4>2. IsFiniteSet(r.claimed \cup owners)
        BY <2>2, <4>1, FS_Union, Zenon
      <4> QED BY <2>3, <4>2
    <3> QED BY <1>1, <2>3, <3>1, <3>2 DEF Finite
  <2>6. Unused(r, b, m.mark)
    BY <2>1 DEF Arrives
  <2>7. Good(q, b) /\ (SavedOK(r) => SavedOK(q))
    BY <2>1, <2>3, <2>5, <2>6, ArrivedGood DEF GoodSaved
  <2> QED BY <2>3, <2>4, <2>7 DEF GoodSaved, Stays
<1>3. CASE owners = {} /\ m.kind = "continue" /\ r.delivery # None /\ r.delivery.mark = m.mark
  <2> DEFINE c == [goal |-> m.goal, mark |-> m.mark]
             q == [r EXCEPT !.delivery = None, !.conts = @ \cup {c}]
  <2> HIDE DEF c
  <2>1. /\ IsMemory(q) /\ q.goal = r.goal /\ q.queue = r.queue /\ q.pending = r.pending /\ q.saved = r.saved
        /\ q.revived = r.revived /\ q.sends = r.sends /\ q.intent = r.intent /\ q.ask = r.ask
        /\ q.prompts = r.prompts \ {} /\ q.cancelled = r.cancelled /\ q.delivery = None
        /\ q.claimed = r.claimed /\ q.conts = r.conts \cup {c}
    BY <1>1 DEF IsMemory
  <2>2. Claim(r, m) = q
    BY <1>3 DEF Claim, owners, ContinuationStarted, c
  <2> HIDE DEF q, Fields
  <2>3. Finite(q)
    BY <1>1, <2>1, FS_AddElement DEF Finite
  <2>4. Unused(r, b, m.mark)
    BY <1>3 DEF Arrives
  <2>5. Good(q, b) /\ (SavedOK(r) => SavedOK(q))
    BY <1>3, <2>1, <2>3, <2>4, ArrivedGood DEF GoodSaved
  <2> QED BY <2>1, <2>2, <2>5 DEF GoodSaved, Stays
<1>4. CASE owners = {} /\ ~(m.kind = "continue" /\ r.delivery # None /\ r.delivery.mark = m.mark)
  <2>1. Keeps(r, CancelWork(r)) /\ CancelWork(r).goal = r.goal /\ CancelWork(r).pending = r.pending
    <3>1. CancelWork(r).goal = r.goal /\ CancelWork(r).pending = r.pending
      BY <1>1 DEF CancelWork, IsMemory
    <3> QED BY <1>1, <3>1, KeepsCancel
  <2>2. Keeps(r, r)
    BY <1>1, KeepsSelf
  <2>3. Claim(r, m) \in {r, CancelWork(r)}
    BY <1>4 DEF Claim, owners, ContinuationStarted
  <2> QED BY <2>1, <2>2, <2>3, KeepsStays
<1> QED BY <1>2, <1>3, <1>4

LEMMA BegunGood ==
  ASSUME NEW r0, NEW b, GoodSaved(r0, b), NEW m, Arrives(r0, b, m), ~IsGoal(None), NoneIsNoRecord
  PROVE  GoodSaved(BeginPromptRun(r0, m), b) /\ Stays(r0, BeginPromptRun(r0, m))
<1> DEFINE r1     == NoRun(r0)
           r2     == [r1 EXCEPT !.recovery = None, !.guard = None]
           r      == Claim(r2, m)
           owners == Owners(r1, m)
           kept   == {c.mark : c \in r.conts}
           owned  == owners # {} \/ (m.kind = "continue" /\ m.mark \in kept)
           origin == IF owners = {} THEN "automatic" ELSE (CHOOSE p \in owners : TRUE).origin
<1>1. Keeps(r0, r1) /\ Shaped(r1) /\ Proper(r1) = Proper(r0)
  BY KeepsNoRun, KeepsShaped, GoodShaped DEF GoodSaved, Keeps
<1>2. GoodSaved(r1, b) /\ Stays(r0, r1) /\ Arrives(r1, b, m)
  BY <1>1, KeepsStays DEF Arrives, Unused
<1>3. IsFiniteSet(owners)
  BY <1>2, FS_Union, FS_Subset DEF GoodSaved, Good, Finite, Owners
<1>4. \A p \in owners : p.mark = m.mark /\ m.kind = "prompt"
  BY DEF Owners
<1> HIDE DEF r1, owners
<1>5. ASSUME NEW q, GoodSaved(q, b), Stays(r0, q)
      PROVE  GoodSaved(Stopping(Foreigner(q), TRUE), b) /\ Stays(r0, Stopping(Foreigner(q), TRUE))
  <2>1. Keeps(q, Foreigner(q)) /\ Shaped(Foreigner(q))
    BY <1>5, KeepsRun, KeepsShaped, GoodShaped DEF GoodSaved
  <2>2. \A w : Keeps(Foreigner(q), Stopping(Foreigner(q), w))
    BY <2>1, KeepsRun
  <2>3. \A w : Keeps(q, Stopping(Foreigner(q), w))
    BY <2>1, <2>2, KeepsOn
  <2>4. \A w : GoodSaved(Stopping(Foreigner(q), w), b) /\ Stays(q, Stopping(Foreigner(q), w))
    BY <1>5, <2>3, KeepsStays
  <2>5. \A w : Stays(r0, Stopping(Foreigner(q), w))
    BY <1>5, <2>4 DEF Stays
  <2> QED BY <2>4, <2>5, Zenon
<1>6. CASE m.kind = "continue" /\ m.mark \in r1.cancelled
  <2> DEFINE q == [r1 EXCEPT !.cancelled = @ \ {m.mark}]
  <2>1. /\ IsMemory(q) /\ q.goal = r1.goal /\ q.queue = r1.queue /\ q.pending = r1.pending /\ q.saved = r1.saved
        /\ q.revived = r1.revived /\ q.sends = r1.sends /\ q.intent = r1.intent /\ q.ask = r1.ask
        /\ q.prompts = r1.prompts \ {} /\ q.cancelled = r1.cancelled \ {m.mark} /\ q.delivery = r1.delivery
        /\ q.claimed = r1.claimed /\ q.conts = r1.conts
    BY <1>2 DEF IsMemory, GoodSaved, Good
  <2>2. BeginPromptRun(r0, m) = Stopping(Foreigner(q), TRUE)
    BY <1>6 DEF BeginPromptRun, r1
  <2> HIDE DEF q, Fields
  <2>3. Finite(q)
    BY <1>2, <2>1, FS_Subset DEF Finite, GoodSaved, Good
  <2>4. GoodSaved(q, b) /\ Stays(r0, q)
    <3> DEFINE x == m.mark
               O == {}
    <3>1. Unused(r1, b, x) /\ \A p \in O : p.mark = x
      BY <1>2, <1>6 DEF Arrives
    <3>2. q.prompts = r1.prompts \ O /\ q.cancelled = r1.cancelled \ {x}
      BY <2>1
    <3> HIDE DEF x, O
    <3>3. Good(q, b) /\ (SavedOK(r1) => SavedOK(q))
      BY <1>2, <2>1, <2>3, <3>1, <3>2, ArrivedGood DEF GoodSaved
    <3> QED BY <1>2, <2>1, <3>3 DEF GoodSaved, Stays
  <2> QED BY <1>5, <2>2, <2>4, Zenon
<1>7. CASE ~(m.kind = "continue" /\ m.mark \in r1.cancelled) /\ StalePrompt(r1, m)
  <2> DEFINE q == [r1 EXCEPT !.prompts = @ \ owners]
  <2>1. /\ IsMemory(q) /\ q.goal = r1.goal /\ q.queue = r1.queue /\ q.pending = r1.pending /\ q.saved = r1.saved
        /\ q.revived = r1.revived /\ q.sends = r1.sends /\ q.intent = r1.intent /\ q.ask = r1.ask
        /\ q.prompts = r1.prompts \ owners /\ q.cancelled = r1.cancelled /\ q.delivery = r1.delivery
        /\ q.claimed = r1.claimed /\ q.conts = r1.conts
    BY <1>2 DEF IsMemory, GoodSaved, Good
  <2>2. BeginPromptRun(r0, m) = Stopping(Foreigner(q), TRUE)
    BY <1>7 DEF BeginPromptRun, r1, owners
  <2> HIDE DEF q, Fields
  <2>3. Finite(q)
    BY <1>2, <2>1, FS_Subset DEF Finite, GoodSaved, Good
  <2>4. GoodSaved(q, b) /\ Stays(r0, q)
    <3>1. Unused(r1, b, m.mark)
      BY <1>2, <1>7 DEF Arrives, StalePrompt
    <3>2. Good(q, b) /\ (SavedOK(r1) => SavedOK(q))
      BY <1>2, <1>4, <2>1, <2>3, <3>1, ArrivedGood DEF GoodSaved
    <3> QED BY <1>2, <2>1, <3>2 DEF GoodSaved, Stays
  <2> QED BY <1>5, <2>2, <2>4, Zenon
<1>8. CASE ~(m.kind = "continue" /\ m.mark \in r1.cancelled) /\ ~StalePrompt(r1, m)
  <2>1. Beside(r1, r2) /\ r2.goal = r1.goal
    BY <1>1 DEF Beside, Shaped, IsMemory, SameWork
  <2> HIDE DEF r2
  <2>2. Keeps(r1, r2) /\ Proper(r2) = Proper(r1)
    BY <1>1, <2>1, KeepsBeside DEF Keeps
  <2>3. GoodSaved(r2, b) /\ Stays(r0, r2) /\ Arrives(r2, b, m)
    BY <1>2, <2>2, KeepsStays DEF Stays, Arrives, Unused
  <2>4. GoodSaved(r, b) /\ Stays(r0, r) /\ Shaped(r)
    BY <2>3, ClaimGood, GoodShaped DEF Stays, GoodSaved
  <2> DEFINE run == RunFor(r, r.goal.id, origin)
             fresh == [run EXCEPT !.goal = FreshEpoch(@)]
  <2>5. Keeps(r, r)
    BY <2>4, KeepsSelf
  <2>6. Pending(r, "prioritize") => Keeps(r, Stopping(Foreigner(DisplacedUsage(r)), owned))
    <3> SUFFICES ASSUME Pending(r, "prioritize") PROVE Keeps(r, Stopping(Foreigner(DisplacedUsage(r)), owned))
      OBVIOUS
    <3>1. IsChange(r.pending) /\ r.goal # None
      BY <2>4 DEF GoodSaved, Good, Sensible, Pending
    <3>2. Keeps(r, DisplacedUsage(r)) /\ Shaped(DisplacedUsage(r))
      BY <2>4, <3>1, KeepsDisplaced, KeepsShaped
    <3> DEFINE d == DisplacedUsage(r)
    <3> HIDE DEF d, owned
    <3>3. Keeps(r, Foreigner(d)) /\ Shaped(Foreigner(d))
      BY <3>2, KeepsRun, KeepsOn, KeepsShaped DEF d
    <3> QED BY <3>3, KeepsRun, KeepsOn DEF d
  <2>7. ASSUME NEW id, NEW o PROVE Keeps(r, RunFor(r, id, o)) /\ Shaped(RunFor(r, id, o))
    BY <2>4, KeepsRun, KeepsShaped
  <2>8. ASSUME NEW id, NEW o, NEW w PROVE Keeps(r, Stopping(RunFor(r, id, o), w))
    BY <2>7, KeepsRun, KeepsOn
  <2>9. Active(r) => Keeps(r, Persist(fresh))
    <3> SUFFICES ASSUME Active(r) PROVE Keeps(r, Persist(fresh))
      OBVIOUS
    <3>1. Keeps(r, run) /\ Shaped(run) /\ run.goal # None
      BY <2>7 DEF Keeps, Active
    <3> HIDE DEF run
    <3>2. Keeps(r, fresh) /\ Shaped(fresh)
      BY <3>1, KeepsFresh, KeepsOn, KeepsShaped
    <3> HIDE DEF fresh
    <3> QED BY <3>2, KeepsPersist, KeepsOn
  <2>10. \/ BeginPromptRun(r0, m) = r
         \/ Pending(r, "prioritize") /\ BeginPromptRun(r0, m) = Stopping(Foreigner(DisplacedUsage(r)), owned)
         \/ \E id, o : BeginPromptRun(r0, m) = RunFor(r, id, o)
         \/ \E id, o, w : BeginPromptRun(r0, m) = Stopping(RunFor(r, id, o), w)
         \/ Active(r) /\ BeginPromptRun(r0, m) = Persist(fresh)
    BY <1>8, Zenon DEF BeginPromptRun, r, r2, r1, owners, kept, owned, origin, fresh, run
  <2> HIDE DEF r, fresh, run
  <2>11. Keeps(r, BeginPromptRun(r0, m))
    BY <2>5, <2>6, <2>7, <2>8, <2>9, <2>10, Zenon
  <2> QED BY <2>4, <2>11, KeepsStays DEF Stays
<1> QED BY <1>6, <1>7, <1>8

-----------------------------------------------------------------------------
(* The messages the Host accepted *)

\* Where each message of `c` was in `b`, but for a new one at `at`.
Origin(b, c, f, at) ==
  /\ \A k \in DOMAIN c \ {at} :
       f[k] \in DOMAIN b /\ c[k].kind = b[f[k]].kind /\ c[k].mark = b[f[k]].mark /\ c[k].goal = b[f[k]].goal
  /\ \A j, k \in DOMAIN c \ {at} : f[j] = f[k] => j = k

\* What carries no marker changes nothing.
LEMMA QuietGood ==
  ASSUME NEW r, NEW b, NEW c, NEW f, NEW at, GoodSaved(r, b), Origin(b, c, f, at),
         at \in DOMAIN c => c[at].kind \notin {"prompt", "continue"}
  PROVE  GoodSaved(r, c) /\ (Kept(r, b) => Kept(r, c))
<1>1. \A k \in Owning(c) : k # at /\ f[k] \in Owning(b)
  BY DEF Owning, Origin
<1>2. \A k \in Continues(c) : k # at /\ f[k] \in Continues(b) /\ c[k].mark = b[f[k]].mark /\ c[k].goal = b[f[k]].goal
  BY DEF Continues, Origin
<1>3. ContMarks(r, c) \subseteq ContMarks(r, b)
  BY <1>2 DEF ContMarks
<1>4. OneCarrier(r, c)
  BY <1>1 DEF GoodSaved, Good, Carried, OneCarrier, Owning, Origin
<1>5. Recorded(r, c)
  BY <1>1 DEF GoodSaved, Good, Carried, Recorded, Owning, Origin
<1>6. IntentIsUnsent(r, c)
  BY <1>1 DEF GoodSaved, Good, Carried, IntentIsUnsent, Owning, Origin
<1>7. OneDelivery(r, c)
  BY <1>3 DEF GoodSaved, Good, Carried, OneDelivery
<1>8. Kept(r, b) => Kept(r, c)
  BY <1>2 DEF Kept
<1> QED BY <1>4, <1>5, <1>6, <1>7, <1>8 DEF GoodSaved, Good, Carried

LEMMA DeliveredBox ==
  ASSUME NEW b, IsBox(b), b # <<>>
  PROVE  /\ IsBox(Tail(b)) /\ IsMsg(Head(b)) /\ Head(b) = b[1] /\ 1 \in DOMAIN b
         /\ \A k \in DOMAIN Tail(b) : k + 1 \in DOMAIN b /\ Tail(b)[k] = b[k + 1] /\ k + 1 # 1
         /\ \E f : Origin(b, Tail(b), f, 0)
<1> DEFINE c == Tail(b)
           f == [k \in DOMAIN c |-> k + 1]
<1>1. b \in Seq({b[k] : k \in DOMAIN b})
  BY DEF IsBox
<1> DEFINE S == {b[k] : k \in DOMAIN b}
<1> HIDE DEF S
<1>2. /\ c \in Seq(S) /\ Len(c) = Len(b) - 1 /\ \A i \in 1 .. Len(c) : c[i] = b[i + 1]
  BY <1>1, HeadTailProperties DEF S
<1>3. DOMAIN c = 1 .. Len(c) /\ DOMAIN b = 1 .. Len(b) /\ Len(b) \in Nat /\ Len(c) \in Nat
  BY <1>1, <1>2, LenProperties DEF S
<1>4. \A k \in DOMAIN c : k + 1 \in DOMAIN b /\ c[k] = b[k + 1] /\ k + 1 # 1 /\ k \in Nat
  BY <1>2, <1>3
<1>5. Head(b) = b[1] /\ 1 \in DOMAIN b
  BY <1>1, <1>2, <1>3
<1> HIDE DEF c
<1>6. Origin(b, c, f, 0)
  BY <1>4 DEF Origin
<1>7. \A k \in DOMAIN b : IsMsg(b[k])
  BY DEF IsBox
<1>8. \A k \in DOMAIN c : IsMsg(c[k])
  BY <1>4, <1>7
<1>9. IsBox(c)
  BY <1>2, <1>8, SelfSeq DEF IsBox
<1> QED BY <1>4, <1>5, <1>6, <1>7, <1>9 DEF c

LEMMA FirstBox ==
  ASSUME NEW b, IsBox(b), NEW m, IsMsg(m)
  PROVE  LET c == <<m>> \o b
         IN  /\ IsBox(c) /\ 1 \in DOMAIN c /\ c[1] = m
             /\ \E f : Origin(b, c, f, 1)
<1> DEFINE S == {b[k] : k \in DOMAIN b} \cup {m}
           c == <<m>> \o b
           f == [k \in DOMAIN c |-> k - 1]
<1>1. b \in Seq(S) /\ <<m>> \in Seq(S) /\ Len(<<m>>) = 1 /\ <<m>>[1] = m
  BY SeqMonotonic DEF IsBox
<1> HIDE DEF S
<1>2. /\ c \in Seq(S) /\ Len(c) = Len(b) + 1
      /\ \A i \in 1 .. 1 + Len(b) : c[i] = IF i <= 1 THEN m ELSE b[i - 1]
  BY <1>1, ConcatProperties
<1>3. DOMAIN c = 1 .. Len(b) + 1 /\ DOMAIN b = 1 .. Len(b) /\ Len(b) \in Nat
  BY <1>1, <1>2, LenProperties
<1> HIDE DEF c
<1>4. \A k \in DOMAIN c : IF k = 1 THEN c[k] = m ELSE k \in Nat /\ k - 1 \in DOMAIN b /\ c[k] = b[k - 1]
  BY <1>2, <1>3
<1>5. 1 \in DOMAIN c
  BY <1>3
<1>6. Origin(b, c, f, 1)
  BY <1>4 DEF Origin
<1>7. \A k \in DOMAIN b : IsMsg(b[k])
  BY DEF IsBox
<1>8. \A k \in DOMAIN c : IsMsg(c[k])
  BY <1>4, <1>7
<1>9. IsBox(c)
  BY <1>2, <1>8, SelfSeq DEF IsBox
<1> QED BY <1>4, <1>5, <1>6, <1>9 DEF c

LEMMA LastBox ==
  ASSUME NEW b, IsBox(b), NEW m, IsMsg(m)
  PROVE  LET c == Append(b, m)
             f == [k \in DOMAIN c |-> k]
             at == Len(b) + 1
         IN  /\ IsBox(c) /\ at \in DOMAIN c /\ c[at] = m /\ Origin(b, c, f, at)
             /\ 1 \in DOMAIN b => at # 1 /\ c[1] = b[1] /\ f[1] = 1 /\ 1 \in DOMAIN c
<1> DEFINE S == {b[k] : k \in DOMAIN b} \cup {m}
           c == Append(b, m)
           f == [k \in DOMAIN c |-> k]
           at == Len(b) + 1
<1>1. b \in Seq(S) /\ m \in S
  BY SeqMonotonic DEF IsBox
<1> HIDE DEF S
<1>2. /\ c \in Seq(S) /\ Len(c) = Len(b) + 1 /\ \A i \in 1 .. Len(b) : c[i] = b[i] /\ c[at] = m
  BY <1>1, AppendProperties
<1>3. DOMAIN c = 1 .. Len(b) + 1 /\ DOMAIN b = 1 .. Len(b) /\ Len(b) \in Nat /\ c[at] = m
  BY <1>1, <1>2, LenProperties, AppendProperties
<1> HIDE DEF c
<1>4. \A k \in DOMAIN c : IF k = at THEN c[k] = m ELSE k \in DOMAIN b /\ c[k] = b[k]
  BY <1>2, <1>3
<1>5. at \in DOMAIN c /\ (1 \in DOMAIN b => at # 1 /\ 1 \in DOMAIN c)
  BY <1>3
<1>6. Origin(b, c, f, at)
  BY <1>4 DEF Origin
<1>7. IsBox(c)
  BY <1>2, <1>4, SelfSeq DEF IsBox
<1> QED BY <1>4, <1>5, <1>6, <1>7 DEF c

LEMMA InsertedBox ==
  ASSUME NEW b, IsBox(b), NEW m, IsMsg(m), NEW i \in DOMAIN b
  PROVE  LET c == InsertAt(b, i, m)
             f == [k \in DOMAIN c |-> IF k < i THEN k ELSE k - 1]
         IN  /\ IsBox(c) /\ i \in DOMAIN c /\ c[i] = m /\ Origin(b, c, f, i)
             /\ i # 1 => c[1] = b[1] /\ f[1] = 1 /\ 1 \in DOMAIN c
<1> DEFINE S == {b[k] : k \in DOMAIN b} \cup {m}
           x == SubSeq(b, 1, i - 1)
           y == SubSeq(b, i, Len(b))
           z == x \o <<m>>
           c == InsertAt(b, i, m)
           f == [k \in DOMAIN c |-> IF k < i THEN k ELSE k - 1]
<1>1. b \in Seq(S) /\ <<m>> \in Seq(S) /\ Len(<<m>>) = 1 /\ <<m>>[1] = m
  BY SeqMonotonic DEF IsBox
<1>2. DOMAIN b = 1 .. Len(b) /\ Len(b) \in Nat /\ i \in 1 .. Len(b) /\ i \in Nat
  BY <1>1, LenProperties
<1>3. \A k \in 1 .. Len(b) : b[k] \in S
  BY <1>2
<1> HIDE DEF S
<1>4. /\ x \in Seq(S) /\ Len(x) = i - 1 /\ \A k \in 1 .. i - 1 : x[k] = b[k]
  <2>1. \A k \in 1 .. i - 1 : b[k] \in S
    BY <1>2, <1>3
  <2>2. x \in Seq(S) /\ Len(x) = (IF 1 <= i - 1 THEN i - 1 - 1 + 1 ELSE 0) /\ \A k \in 1 .. i - 1 - 1 + 1 : x[k] = b[1 + k - 1]
    BY <1>1, <1>2, <2>1, SubSeqProperties
  <2> QED BY <1>2, <2>2
<1>5. /\ y \in Seq(S) /\ Len(y) = Len(b) - i + 1 /\ \A k \in 1 .. Len(b) - i + 1 : y[k] = b[i + k - 1]
  <2>1. \A k \in i .. Len(b) : b[k] \in S
    BY <1>2, <1>3
  <2>2. y \in Seq(S) /\ Len(y) = (IF i <= Len(b) THEN Len(b) - i + 1 ELSE 0) /\ \A k \in 1 .. Len(b) - i + 1 : y[k] = b[i + k - 1]
    BY <1>1, <1>2, <2>1, SubSeqProperties
  <2> QED BY <1>2, <2>2
<1>6. c = z \o y
  BY DEF InsertAt
<1> HIDE DEF c, x, y
<1>7. z \in Seq(S) /\ Len(z) = i /\ \A k \in 1 .. i : z[k] = IF k < i THEN b[k] ELSE m
  <2>1. z \in Seq(S) /\ Len(z) = Len(x) + Len(<<m>>) /\ \A k \in 1 .. Len(x) + Len(<<m>>) : z[k] = IF k <= Len(x) THEN x[k] ELSE <<m>>[k - Len(x)]
    BY <1>1, <1>4, ConcatProperties
  <2> QED BY <1>1, <1>2, <1>4, <2>1
<1> HIDE DEF z
<1>8. c \in Seq(S) /\ Len(c) = Len(b) + 1 /\ \A k \in 1 .. Len(b) + 1 : c[k] = IF k < i THEN b[k] ELSE IF k = i THEN m ELSE b[k - 1]
  <2>1. c \in Seq(S) /\ Len(c) = Len(z) + Len(y) /\ \A k \in 1 .. Len(z) + Len(y) : c[k] = IF k <= Len(z) THEN z[k] ELSE y[k - Len(z)]
    BY <1>5, <1>6, <1>7, ConcatProperties
  <2>2. ASSUME NEW k \in 1 .. Len(b) + 1 PROVE c[k] = IF k < i THEN b[k] ELSE IF k = i THEN m ELSE b[k - 1]
    <3>1. k \in Int /\ k \in 1 .. Len(z) + Len(y)
      BY <1>2, <1>5, <1>7
    <3>2. CASE k <= i
      BY <1>2, <1>7, <2>1, <3>1, <3>2
    <3>3. CASE k > i
      <4>1. k - i \in 1 .. Len(b) - i + 1 /\ i + (k - i) - 1 = k - 1
        BY <1>2, <3>1, <3>3
      <4>2. y[k - i] = b[k - 1]
        BY <1>5, <4>1
      <4>3. c[k] = y[k - i]
        BY <1>2, <1>7, <2>1, <3>1, <3>3
      <4> QED BY <1>2, <3>1, <3>3, <4>2, <4>3
    <3> QED BY <1>2, <3>1, <3>2, <3>3
  <2> QED BY <1>2, <1>5, <1>7, <2>1, <2>2
<1>9. DOMAIN c = 1 .. Len(b) + 1
  BY <1>8, LenProperties
<1>10. \A k \in DOMAIN c :
         /\ k \in Nat
         /\ k < i => k \in DOMAIN b /\ c[k] = b[k]
         /\ k = i => c[k] = m
         /\ k > i => k - 1 \in DOMAIN b /\ c[k] = b[k - 1]
  BY <1>2, <1>8, <1>9
<1>11. \A k \in DOMAIN c \ {i} : f[k] \in DOMAIN b /\ c[k] = b[f[k]]
  BY <1>2, <1>10
<1>12. \A j, k \in DOMAIN c \ {i} : f[j] = f[k] => j = k
  BY <1>2, <1>10
<1>13. i \in DOMAIN c /\ (i # 1 => 1 \in DOMAIN c /\ 1 < i)
  BY <1>2, <1>9
<1>14. i # 1 => c[1] = b[1] /\ f[1] = 1
  BY <1>10, <1>13
<1>15. c[i] = m
  BY <1>10, <1>13
<1> HIDE DEF f
<1>16. Origin(b, c, f, i)
  BY <1>11, <1>12 DEF Origin
<1>17. \A k \in DOMAIN b : IsMsg(b[k])
  BY DEF IsBox
<1>18. \A k \in DOMAIN c : IsMsg(c[k])
  BY <1>11, <1>15, <1>17
<1>19. IsBox(c)
  BY <1>8, <1>18, SelfSeq DEF IsBox
<1> QED BY <1>13, <1>14, <1>15, <1>16, <1>19 DEF c, f

LEMMA LeastNat ==
  ASSUME NEW S, S \subseteq Nat, S # {}
  PROVE  \E n \in S : \A m \in S : n <= m
<1> DEFINE R == OpToRel(<, Nat)
<1>1. IsWellFoundedOn(R, Nat)
  BY NatLessThanWellFounded, Zenon
<1>2. PICK n \in S : \A m \in S : <<m, n>> \notin R
  <2> HIDE DEF R
  <2> QED BY <1>1, WFMin
<1>3. \A m \in S : ~(m < n)
  BY <1>2 DEF OpToRel
<1>4. \A m \in S : n <= m
  BY <1>3
<1> QED BY <1>4

LEMMA QueuedBox ==
  ASSUME IsBox(inbox), NEW m, IsMsg(m)
  PROVE  LET c == Queued(m)
         IN  \E f, at : /\ IsBox(c) /\ at \in DOMAIN c /\ c[at] = m /\ Origin(inbox, c, f, at)
                        /\ 1 \in DOMAIN inbox /\ inbox[1].how # "followUp"
                             => at # 1 /\ c[1] = inbox[1] /\ f[1] = 1 /\ 1 \in DOMAIN c
<1> DEFINE later == {k \in DOMAIN inbox : inbox[k].how = "followUp"}
           first == CHOOSE k \in later : \A j \in later : k <= j
<1>1. DOMAIN inbox = 1 .. Len(inbox) /\ Len(inbox) \in Nat
  BY LenProperties DEF IsBox
<1>2. CASE m.how = "followUp" \/ later = {}
  <2>1. Queued(m) = Append(inbox, m)
    BY <1>2 DEF Queued
  <2> DEFINE c == Append(inbox, m)
             f == [k \in DOMAIN c |-> k]
             at == Len(inbox) + 1
  <2>2. /\ IsBox(c) /\ at \in DOMAIN c /\ c[at] = m /\ Origin(inbox, c, f, at)
        /\ 1 \in DOMAIN inbox => at # 1 /\ c[1] = inbox[1] /\ f[1] = 1 /\ 1 \in DOMAIN c
    BY LastBox
  <2> HIDE DEF c, f, at
  <2>3. Queued(m) = c
    BY <2>1 DEF c
  <2> QED BY <2>2, <2>3
<1>3. CASE ~(m.how = "followUp" \/ later = {})
  <2>1. later \subseteq Nat /\ later # {}
    BY <1>1, <1>3
  <2>2. first \in later
    <3> HIDE DEF later
    <3> QED BY <2>1, LeastNat
  <2>3. Queued(m) = InsertAt(inbox, first, m)
    BY <1>3 DEF Queued
  <2> HIDE DEF first
  <2>4. first \in DOMAIN inbox /\ inbox[first].how = "followUp"
    BY <2>2
  <2> DEFINE c == InsertAt(inbox, first, m)
             f == [k \in DOMAIN c |-> IF k < first THEN k ELSE k - 1]
  <2>5. /\ IsBox(c) /\ first \in DOMAIN c /\ c[first] = m /\ Origin(inbox, c, f, first)
        /\ first # 1 => c[1] = inbox[1] /\ f[1] = 1 /\ 1 \in DOMAIN c
    BY <2>4, InsertedBox
  <2> HIDE DEF c, f
  <2>6. Queued(m) = c
    BY <2>3 DEF c
  <2> QED BY <2>4, <2>5, <2>6
<1> QED BY <1>2, <1>3

-----------------------------------------------------------------------------
(* Steps *)

\* What a step has to leave in memory.
Alright(r, b) ==
  /\ GoodSaved(r, b) /\ (r.ask # None => r.ask.status # "complete")
  /\ faults = 0 => ~r.revived /\ Kept(r, b)

LEMMA InvAlright ==
  ASSUME IInv
  PROVE  Alright(rt, inbox) /\ Shaped(rt) /\ IsBox(inbox) /\ (host # "open" => Continues(inbox) = {})
BY GoodShaped DEF IInv, Alright, GoodSaved, FirstContinues

LEMMA KeepsAlright ==
  ASSUME NEW r, NEW q, NEW b, ~IsGoal(None), Alright(r, b), Keeps(r, q)
  PROVE  Alright(q, b) /\ Shaped(q)
<1>1. GoodSaved(q, b) /\ Stays(r, q) /\ Shaped(q)
  BY KeepsStays, GoodShaped DEF Alright, GoodSaved
<1>2. faults = 0 => ~q.revived /\ Kept(q, b)
  BY KeepsKept DEF Alright, GoodSaved, Good, Carried
<1> QED BY <1>1, <1>2 DEF Alright, Stays

\* Where no continuation waits, nothing about one is asked.
LEMMA QuietAlright ==
  ASSUME NEW r, NEW q, NEW b, Alright(r, b), GoodSaved(q, b), Stays(r, q), Continues(b) = {}
  PROVE  Alright(q, b)
BY DEF Alright, Stays, Kept

\* A step of the Host or the user that leaves the messages where they are.
LEMMA StepBeside ==
  ASSUME IInv, inbox' = inbox, faults' \in Nat, faults' = 0 => faults = 0, Alright(rt', inbox),
         host' = host \/ Continues(inbox) = {}, ~Starting'
  PROVE  IInv'
<1>1. FirstContinues'
  BY DEF IInv, FirstContinues
<1> QED BY <1>1 DEF IInv, Alright, GoodSaved, Unstartedly

LEMMA StepKeeps ==
  ASSUME IInv, ~IsGoal(None), inbox' = inbox, faults' \in Nat, faults' = 0 => faults = 0, Keeps(rt, rt'),
         host' = host \/ Continues(inbox) = {}, ~Starting'
  PROVE  IInv'
BY InvAlright, KeepsAlright, StepBeside

\* One that adds a message without a marker to them, or takes the first away.
LEMMA StepBox ==
  ASSUME IInv, IsBox(inbox'), faults' = faults, Alright(rt', inbox), NEW f, NEW at,
         Origin(inbox, inbox', f, at), at \in DOMAIN inbox' => inbox'[at].kind \notin {"prompt", "continue"},
         \/ Continues(inbox) = {}
         \/ /\ host' = host
            /\ 1 \in DOMAIN inbox /\ inbox[1].how # "followUp"
                 => at # 1 /\ inbox'[1] = inbox[1] /\ f[1] = 1 /\ 1 \in DOMAIN inbox',
         ~Starting'
  PROVE  IInv'
<1>1. GoodSaved(rt', inbox') /\ (Kept(rt', inbox) => Kept(rt', inbox'))
  BY QuietGood DEF Alright
<1>2. \A k \in Continues(inbox') : k # at /\ f[k] \in Continues(inbox)
  BY DEF Continues, Origin
<1>3. FirstContinues'
  <2>1. CASE Continues(inbox) = {}
    BY <1>2, <2>1 DEF FirstContinues
  <2>2. CASE Continues(inbox) # {}
    <3> SUFFICES ASSUME NEW k \in Continues(inbox')
                 PROVE  k = 1 /\ inbox'[k].how = "first" /\ host' = "open"
      BY DEF FirstContinues
    <3>1. f[k] = 1 /\ 1 \in DOMAIN inbox /\ inbox[1].how = "first" /\ host = "open"
      BY <1>2 DEF IInv, FirstContinues, Continues
    <3>2. at # 1 /\ inbox'[1] = inbox[1] /\ f[1] = 1 /\ 1 \in DOMAIN inbox' /\ host' = host
      BY <2>2, <3>1
    <3>3. k \in DOMAIN inbox' \ {at} /\ 1 \in DOMAIN inbox' \ {at}
      BY <1>2, <3>2 DEF Continues
    <3>4. k = 1
      BY <3>1, <3>2, <3>3 DEF Origin
    <3> QED BY <3>1, <3>2, <3>4
  <2> QED BY <2>1, <2>2
<1> QED BY <1>1, <1>3 DEF IInv, Alright, GoodSaved, Unstartedly

LEMMA StepAccept ==
  ASSUME IInv, ~IsGoal(None), NEW r, Alright(r, inbox), NEW m, IsMsg(m), m.kind \notin {"prompt", "continue"},
         Accept(r, m), faults' = faults, ~Starting
  PROVE  IInv'
<1>1. IsBox(inbox) /\ (host # "open" => Continues(inbox) = {})
  BY InvAlright
<1>2. CASE Busy
  <2>1. rt' = r /\ inbox' = Queued(m) /\ host' = host
    BY <1>2 DEF Accept
  <2>2. PICK f, at : /\ IsBox(inbox') /\ at \in DOMAIN inbox' /\ inbox'[at] = m /\ Origin(inbox, inbox', f, at)
                     /\ 1 \in DOMAIN inbox /\ inbox[1].how # "followUp"
                          => at # 1 /\ inbox'[1] = inbox[1] /\ f[1] = 1 /\ 1 \in DOMAIN inbox'
    BY <1>1, <2>1, QueuedBox
  <2>3. ~Starting'
    BY <2>1 DEF Starting
  <2> QED BY <2>1, <2>2, <2>3, StepBox
<1>3. CASE ~Busy
  <2> DEFINE n == [m EXCEPT !.how = "first"]
  <2>1. rt' = NewRun(r) /\ inbox' = <<n>> \o inbox /\ host' = "open" /\ host = "idle"
    BY <1>3 DEF Accept, Busy
  <2>2. IsMsg(n) /\ n.kind = m.kind
    BY DEF IsMsg
  <2> HIDE DEF n
  <2>3. IsBox(inbox') /\ 1 \in DOMAIN inbox' /\ inbox'[1] = n /\ \E f : Origin(inbox, inbox', f, 1)
    BY <1>1, <2>1, <2>2, FirstBox
  <2>4. Shaped(r)
    BY GoodShaped DEF Alright, GoodSaved
  <2>5. Alright(rt', inbox)
    BY <2>1, <2>4, KeepsNewRun, KeepsAlright
  <2>6. ~Starting' /\ Continues(inbox) = {}
    BY <1>1, <2>1 DEF Starting
  <2> QED BY <2>2, <2>3, <2>5, <2>6, StepBox
<1> QED BY <1>2, <1>3

-----------------------------------------------------------------------------
(* The steps of the Host and of the user's messages *)

LEMMA MsgFields ==
  ASSUME NEW kind, NEW mark, NEW goal, NEW how
  PROVE  LET m == Msg(kind, mark, goal, how)
         IN  IsMsg(m) /\ m.kind = kind /\ m.mark = mark /\ m.goal = goal /\ m.how = how
BY DEF Msg, IsMsg

LEMMA KeepsSet ==
  ASSUME NEW r, Shaped(r), ~IsGoal(None), NEW v
  PROVE  /\ Keeps(r, [r EXCEPT !.mirror = v]) /\ Keeps(r, [r EXCEPT !.abort = v])
         /\ Keeps(r, [r EXCEPT !.stale = v])
<1>1. Beside(r, [r EXCEPT !.mirror = v]) /\ [r EXCEPT !.mirror = v].goal = r.goal
  BY DEF Beside, Shaped, IsMemory, SameWork
<1>2. Beside(r, [r EXCEPT !.abort = v]) /\ [r EXCEPT !.abort = v].goal = r.goal
  BY DEF Beside, Shaped, IsMemory, SameWork
<1>3. Beside(r, [r EXCEPT !.stale = v]) /\ [r EXCEPT !.stale = v].goal = r.goal
  BY DEF Beside, Shaped, IsMemory, SameWork
<1> QED BY <1>1, <1>2, <1>3, KeepsBeside

LEMMA UserPromptsStep == ASSUME IInv, UserPrompts, NoneIsNoRecord PROVE IInv'
<1> DEFINE m == Msg("user", None, None, "first")
           r == [rt EXCEPT !.mirror = <<"idle">>]
           q == BeginPromptRun(r, m)
<1>1. rt' = NewRun(q) /\ inbox' = <<m>> \o inbox /\ host = "idle" /\ host' = "open" /\ faults' = faults
  BY DEF UserPrompts
<1>2. ~IsGoal(None) /\ Alright(rt, inbox) /\ Shaped(rt) /\ IsBox(inbox) /\ Continues(inbox) = {}
  BY <1>1, NoneIsNoGoal, InvAlright
<1>3. IsMsg(m) /\ m.kind = "user"
  BY MsgFields
<1>4. Alright(r, inbox)
  BY <1>2, KeepsSet, KeepsAlright
<1> HIDE DEF r, m
<1>5. GoodSaved(q, inbox) /\ Stays(r, q)
  BY <1>2, <1>3, <1>4, BegunGood DEF Alright, Arrives
<1>6. Alright(q, inbox) /\ Shaped(q)
  BY <1>2, <1>4, <1>5, QuietAlright, GoodShaped DEF GoodSaved
<1> HIDE DEF q
<1>7. Alright(rt', inbox)
  BY <1>1, <1>2, <1>6, KeepsNewRun, KeepsAlright
<1>8. IsBox(inbox') /\ 1 \in DOMAIN inbox' /\ inbox'[1] = m /\ \E f : Origin(inbox, inbox', f, 1)
  BY <1>1, <1>2, <1>3, FirstBox
<1>9. ~Starting'
  BY <1>1 DEF Starting
<1> QED BY <1>1, <1>2, <1>3, <1>7, <1>8, <1>9, StepBox

LEMMA UserQueuesStep == ASSUME IInv, NEW how, UserQueues(how), NoneIsNoRecord PROVE IInv'
<1> DEFINE m == Msg("user", None, None, how)
<1>1. /\ rt' = [rt EXCEPT !.mirror = Append(@, how)] /\ inbox' = Queued(m) /\ Busy
      /\ host' = host /\ faults' = faults
  BY DEF UserQueues
<1>2. ~IsGoal(None) /\ Alright(rt, inbox) /\ Shaped(rt) /\ IsBox(inbox)
  BY NoneIsNoGoal, InvAlright
<1>3. IsMsg(m) /\ m.kind = "user"
  BY MsgFields
<1> HIDE DEF m
<1>4. Alright(rt', inbox)
  BY <1>1, <1>2, KeepsSet, KeepsAlright
<1>5. PICK f, at : /\ IsBox(inbox') /\ at \in DOMAIN inbox' /\ inbox'[at] = m /\ Origin(inbox, inbox', f, at)
                   /\ 1 \in DOMAIN inbox /\ inbox[1].how # "followUp"
                        => at # 1 /\ inbox'[1] = inbox[1] /\ f[1] = 1 /\ 1 \in DOMAIN inbox'
  BY <1>1, <1>2, <1>3, QueuedBox
<1>6. ~Starting'
  BY <1>1 DEF Busy, Starting
<1> QED BY <1>1, <1>3, <1>4, <1>5, <1>6, StepBox

LEMMA FaultsNat == ASSUME IInv PROVE faults \in Nat
BY DEF IInv

LEMMA UserInterruptsStep == ASSUME IInv, UserInterrupts, NoneIsNoRecord PROVE IInv'
<1>1. Keeps(rt, rt')
  BY NoneIsNoGoal, InvAlright, KeepsSet DEF UserInterrupts
<1> QED BY <1>1, NoneIsNoGoal, StepKeeps, FaultsNat DEF UserInterrupts, Busy, Starting

LEMMA ResultsArriveStep == ASSUME IInv, ResultsArrive, NoneIsNoRecord PROVE IInv'
BY NoneIsNoGoal, InvAlright, StepAccept, MsgFields DEF ResultsArrive

LEMMA DrainStep == ASSUME IInv, Drain, NoneIsNoRecord PROVE IInv'
<1> DEFINE m == [Head(inbox) EXCEPT !.how = "first"]
           c == Tail(inbox)
<1>1. inbox' = <<m>> \o c /\ rt' = NewRun(rt) /\ host = "idle" /\ host' = "open" /\ faults' = faults /\ inbox # <<>>
  BY DEF Drain
<1>2. ~IsGoal(None) /\ Alright(rt, inbox) /\ Shaped(rt) /\ IsBox(inbox) /\ Continues(inbox) = {}
  BY <1>1, NoneIsNoGoal, InvAlright
<1>3. /\ IsBox(c) /\ IsMsg(Head(inbox)) /\ Head(inbox) = inbox[1] /\ 1 \in DOMAIN inbox
      /\ \A k \in DOMAIN c : k + 1 \in DOMAIN inbox /\ c[k] = inbox[k + 1] /\ k + 1 # 1
  BY <1>1, <1>2, DeliveredBox
<1>4. IsMsg(m) /\ m.kind = inbox[1].kind /\ m.mark = inbox[1].mark /\ m.goal = inbox[1].goal
  BY <1>3 DEF IsMsg
<1> HIDE DEF m, c
<1>5. IsBox(inbox') /\ 1 \in DOMAIN inbox' /\ inbox'[1] = m
  BY <1>1, <1>3, <1>4, FirstBox
<1>6. PICK f : Origin(c, inbox', f, 1)
  BY <1>1, <1>3, <1>4, FirstBox
<1> DEFINE g == [k \in DOMAIN inbox' |-> IF k = 1 THEN 1 ELSE f[k] + 1]
<1>7. \A k \in DOMAIN inbox' : /\ k # 1 => f[k] \in DOMAIN c /\ g[k] = f[k] + 1 /\ f[k] \in Nat
                               /\ k = 1 => g[k] = 1
  <2>1. DOMAIN c \subseteq Nat
    BY <1>3, LenProperties DEF IsBox
  <2> QED BY <1>6, <2>1 DEF Origin
<1>8. \A k \in DOMAIN inbox' :
        /\ g[k] \in DOMAIN inbox /\ inbox'[k].kind = inbox[g[k]].kind
        /\ inbox'[k].mark = inbox[g[k]].mark /\ inbox'[k].goal = inbox[g[k]].goal
  BY <1>3, <1>4, <1>5, <1>6, <1>7 DEF Origin
<1>9. \A j, k \in DOMAIN inbox' : g[j] = g[k] => j = k
  <2>1. SUFFICES ASSUME NEW j \in DOMAIN inbox', NEW k \in DOMAIN inbox', g[j] = g[k] PROVE j = k
    OBVIOUS
  <2>2. CASE j = 1 \/ k = 1
    BY <1>3, <1>7, <2>1, <2>2
  <2>3. CASE j # 1 /\ k # 1
    <3> HIDE DEF g
    <3>1. f[j] = f[k]
      BY <1>7, <2>1, <2>3
    <3> QED BY <1>6, <2>3, <3>1 DEF Origin
  <2> QED BY <2>2, <2>3
<1> HIDE DEF g
<1>10. 0 \notin DOMAIN inbox'
  BY <1>5, LenProperties DEF IsBox
<1>11. Origin(inbox, inbox', g, 0)
  BY <1>8, <1>9 DEF Origin
<1>12. Alright(rt', inbox)
  BY <1>1, <1>2, KeepsNewRun, KeepsAlright
<1>13. ~Starting'
  BY <1>1 DEF Starting
<1> QED BY <1>1, <1>2, <1>5, <1>10, <1>11, <1>12, <1>13, StepBox

LEMMA DeliverStep == ASSUME IInv, Deliver, NoneIsNoRecord PROVE IInv'
<1> DEFINE m == Head(inbox)
           b == Tail(inbox)
           c == [rt EXCEPT !.mirror = SelectSeq(@, LAMBDA x : x # "idle")]
<1>1. inbox' = b /\ inbox # <<>> /\ rt' = MessageStart(rt, m) /\ host' = "open" /\ faults' = faults
  BY DEF Deliver
<1>2. ~IsGoal(None) /\ Alright(rt, inbox) /\ Shaped(rt) /\ IsBox(inbox)
  BY NoneIsNoGoal, InvAlright
<1>3. /\ IsBox(b) /\ IsMsg(m) /\ m = inbox[1] /\ 1 \in DOMAIN inbox
      /\ \A k \in DOMAIN b : k + 1 \in DOMAIN inbox /\ b[k] = inbox[k + 1] /\ k + 1 # 1
      /\ \E f : Origin(inbox, b, f, 0)
  BY <1>1, <1>2, DeliveredBox
<1> HIDE DEF m, b
<1>4. 0 \notin DOMAIN b
  BY <1>3, LenProperties DEF IsBox
<1>5. GoodSaved(rt, b) /\ (Kept(rt, inbox) => Kept(rt, b))
  BY <1>2, <1>3, <1>4, QuietGood DEF Alright
<1>6. Alright(rt, b)
  BY <1>2, <1>5 DEF Alright
<1>7. Continues(b) = {}
  BY <1>3 DEF IInv, FirstContinues, Continues
<1>8. Arrives(rt, b, m)
  <2> SUFFICES ASSUME m.kind \in {"prompt", "continue"} PROVE Unused(rt, b, m.mark)
    BY DEF Arrives
  <2>1. 1 \in Owning(inbox)
    BY <1>3 DEF Owning
  <2>2. \A s \in Proper(rt) : s.mark # m.mark
    BY <1>2, <1>3, <2>1 DEF Alright, GoodSaved, Good, Carried, OneCarrier
  <2>3. \A k \in Owning(b) : b[k].mark # m.mark
    BY <1>2, <1>3, <2>1 DEF Alright, GoodSaved, Good, Carried, OneCarrier, Owning
  <2> QED BY <2>2, <2>3 DEF Unused
<1>9. Keeps(rt, c) /\ Shaped(c)
  BY <1>2, KeepsSet, KeepsShaped
<1> HIDE DEF c
<1>10. Alright(c, b) /\ Arrives(c, b, m)
  BY <1>2, <1>6, <1>8, <1>9, KeepsAlright DEF Keeps, Arrives, Unused
<1>11. Alright(BeginPromptRun(c, m), b)
  BY <1>2, <1>7, <1>10, BegunGood, QuietAlright DEF Alright
<1>12. Keeps(rt, UserMessage(rt))
  BY <1>2, KeepsUserMessage
<1>13. Keeps(rt, PrepareNonGoal(c, FALSE, "automatic"))
  <2>1. \A w, o : Keeps(c, PrepareNonGoal(c, w, o))
    BY <1>2, <1>9, KeepsPrepare
  <2>2. \A w, o : Keeps(rt, PrepareNonGoal(c, w, o))
    BY <1>2, <1>9, <2>1, KeepsOn
  <2> QED BY <2>2, Zenon
<1>14. MessageStart(rt, m) \in {UserMessage(rt), BeginPromptRun(c, m), c, PrepareNonGoal(c, FALSE, "automatic")}
  BY Zenon DEF MessageStart, c
<1>15. Alright(rt', b)
  <2>1. Alright(UserMessage(rt), b) /\ Alright(PrepareNonGoal(c, FALSE, "automatic"), b)
    BY <1>2, <1>6, <1>12, <1>13, KeepsAlright, Zenon
  <2> QED BY <1>1, <1>10, <1>11, <1>14, <2>1, Zenon
<1>16. ~Starting' /\ FirstContinues'
  BY <1>1, <1>7 DEF Starting, FirstContinues
<1> QED BY <1>1, <1>3, <1>15, <1>16 DEF IInv, Alright, GoodSaved, Unstartedly

\* While the next message is not one that starts a run, no continuation waits.
LEMMA ReplyIsFree == ASSUME IInv, MayReply PROVE Continues(inbox) = {}
<1> SUFFICES ASSUME NEW k \in Continues(inbox) PROVE FALSE
  OBVIOUS
<1>1. 1 \in DOMAIN inbox /\ inbox[1].how = "first"
  BY DEF IInv, FirstContinues, Continues
<1>2. inbox # <<>>
  BY <1>1
<1>3. Head(inbox) = inbox[1]
  BY <1>2, DeliveredBox DEF IInv
<1> QED BY <1>1, <1>2, <1>3 DEF MayReply

LEMMA AbortsStep == ASSUME IInv, Aborts, NoneIsNoRecord PROVE IInv'
<1>1. Keeps(rt, rt')
  BY NoneIsNoGoal, InvAlright, KeepsSet DEF Aborts
<1> QED BY <1>1, NoneIsNoGoal, StepKeeps, FaultsNat, ReplyIsFree DEF Aborts, Starting

LEMMA ReplyStep ==
  ASSUME IInv, NEW tool \in {"working", "completing", "blocking"}, Reply(tool), NoneIsNoRecord
  PROVE  IInv'
<1>1. Keeps(rt, rt')
  <2>1. \A v : Keeps(rt, [rt EXCEPT !.abort = v]) /\ Keeps(rt, [rt EXCEPT !.stale = v])
    BY NoneIsNoGoal, InvAlright, KeepsSet
  <2> QED BY <2>1 DEF Reply
<1>2. ~Starting'
  BY DEF Reply, Starting
<1> QED BY <1>1, <1>2, NoneIsNoGoal, StepKeeps, FaultsNat, ReplyIsFree DEF Reply

LEMMA AnswerStep == ASSUME IInv, NEW failed \in BOOLEAN, Answer(failed), NoneIsNoRecord PROVE IInv'
<1>1. Keeps(rt, rt') /\ inbox' = inbox /\ Continues(inbox) = {}
  BY InvAlright, KeepsSelf, ReplyIsFree DEF Answer
<1>2. faults' \in Nat /\ (faults' = 0 => faults = 0)
  BY FaultsNat DEF Answer
<1>3. ~Starting'
  BY DEF Answer, Starting
<1> QED BY <1>1, <1>2, <1>3, NoneIsNoGoal, StepKeeps

LEMMA TurnEndsStep == ASSUME IInv, TurnEnds, NoneIsNoRecord PROVE IInv'
<1>1. Keeps(rt, rt')
  <2>1. \A failed : Keeps(rt, TurnRecorded(rt, failed))
    BY NoneIsNoGoal, InvAlright, KeepsTurn
  <2> QED BY <2>1, Zenon DEF TurnEnds
<1>2. ~Starting' /\ Continues(inbox) = {}
  BY InvAlright DEF TurnEnds, Starting
<1> QED BY <1>1, <1>2, NoneIsNoGoal, StepKeeps, FaultsNat DEF TurnEnds

\* A handler that starts with a good memory while no continuation waits.
LEMMA StepWell ==
  ASSUME IInv, ~IsGoal(None), inbox' = inbox, faults' = faults, Well(rt'), Stays(rt, rt'),
         Continues(inbox) = {}, ~Starting'
  PROVE  IInv'
BY InvAlright, FaultsNat, QuietAlright, StepBeside DEF Well, GoodSaved

LEMMA InvWell == ASSUME IInv PROVE Well(rt)
BY DEF IInv, Well

LEMMA ToolStep ==
  ASSUME IInv, NEW r, Well(r), Stays(rt, r), host # "open", ToolReturns(r), NoneIsNoRecord
  PROVE  IInv'
<1>1. Well(rt') /\ Stays(rt, rt')
  BY NoneIsNoGoal, ToolWell DEF ToolReturns, Stays
<1> QED BY <1>1, NoneIsNoGoal, StepWell, InvAlright DEF ToolReturns, Starting

LEMMA ToolDoneStep == ASSUME IInv, ToolDone, NoneIsNoRecord PROVE IInv'
BY ToolStep, InvWell DEF ToolDone, Stays

LEMMA CompleteCalledStep == ASSUME IInv, CompleteCalled, NoneIsNoRecord PROVE IInv'
BY NoneIsNoGoal, ToolStep, InvWell, GoalCompleteWell DEF CompleteCalled, Stays

LEMMA BlockedCalledStep == ASSUME IInv, BlockedCalled, NoneIsNoRecord PROVE IInv'
<1>1. PICK audited \in BOOLEAN : host = "blocking" /\ ToolReturns(GoalBlocked(rt, audited))
  BY DEF BlockedCalled
<1>2. Keeps(rt, GoalBlocked(rt, audited))
  BY NoneIsNoGoal, InvAlright, KeepsBlocked
<1> QED BY <1>1, <1>2, NoneIsNoGoal, ToolStep, InvWell, KeepsOnward DEF Stays, Onward

LEMMA AgentEndsStep == ASSUME IInv, NEW how, AgentEnds(how), NoneIsNoRecord, ~IsFiniteSet(Marks) PROVE IInv'
<1>1. Well(rt') /\ Stays(rt, rt')
  BY NoneIsNoGoal, InvWell, InvAlright, AgentEndedWell DEF AgentEnds, Stays, Onward
<1>2. ~Starting' /\ Continues(inbox) = {}
  BY InvAlright DEF AgentEnds, Starting
<1> QED BY <1>1, <1>2, NoneIsNoGoal, StepWell DEF AgentEnds

LEMMA RetriesStep == ASSUME IInv, Retries, NoneIsNoRecord PROVE IInv'
<1>1. Keeps(rt, rt')
  BY NoneIsNoGoal, InvAlright, KeepsAgentStart, KeepsSelf DEF Retries
<1>2. ~Starting' /\ Continues(inbox) = {}
  BY InvAlright DEF Retries, Starting
<1> QED BY <1>1, <1>2, NoneIsNoGoal, StepKeeps, FaultsNat DEF Retries

LEMMA SettledStep == ASSUME IInv, Settled, NoneIsNoRecord, ~IsFiniteSet(Marks) PROVE IInv'
<1> DEFINE o == RecoveryOver(rt)
           r == Dispatched(o, TRUE)
<1>1. rt' \in {r, SettledTracking(r)} /\ inbox' = inbox /\ host = "settling" /\ host' = "idle" /\ faults' = faults
  BY DEF Settled
<1>2. ~IsGoal(None) /\ IsBox(inbox) /\ Continues(inbox) = {}
  BY <1>1, NoneIsNoGoal, InvAlright
<1>3. Well(o) /\ Onward(rt, o)
  BY <1>2, InvWell, RecoveryWell
<1> HIDE DEF o
<1>4. Well(r) /\ Onward(o, r)
  <2>1. \A settle : Well(Dispatched(o, settle)) /\ Onward(o, Dispatched(o, settle))
    BY <1>2, <1>3, DispatchedWell
  <2> QED BY <2>1, Zenon
<1> HIDE DEF r
<1>5. Well(SettledTracking(r)) /\ Onward(r, SettledTracking(r))
  BY <1>2, <1>4, KeepsSettled, KeepsOnward, GoodShaped DEF Well
<1>6. Well(rt') /\ Stays(rt, rt')
  BY <1>1, <1>3, <1>4, <1>5 DEF Onward, Stays
<1> QED BY <1>1, <1>2, <1>6, StepWell DEF Starting

LEMMA AgentsFinishStep == ASSUME IInv, AgentsFinish, NoneIsNoRecord PROVE IInv'
BY DEF AgentsFinish, IInv, FirstContinues, Unstartedly, Starting

-----------------------------------------------------------------------------
(* Sessions that start and end *)

LEMMA NewGood ==
  ASSUME NEW s, Sensible(s)
  PROVE  LET r == NewMemory(s)
         IN  /\ Good(r, <<>>) /\ SavedOK(r) /\ ~r.revived /\ r.ask = None /\ r.sends = {}
             /\ r.intent = None /\ r.delivery = None /\ r.saved = s
             /\ r.goal = s.goal /\ r.queue = s.queue /\ r.pending = s.pending
<1> DEFINE r == NewMemory(s)
<1>1. /\ IsMemory(r) /\ ~r.revived /\ r.ask = None /\ r.sends = {} /\ r.prompts = {}
      /\ r.intent = None /\ r.delivery = None /\ r.saved = s
      /\ r.goal = s.goal /\ r.queue = s.queue /\ r.pending = s.pending
  BY DEF NewMemory, IsMemory
<1>2. Finite(r)
  BY FS_EmptySet DEF NewMemory, Finite
<1> HIDE DEF r, Fields
<1>3. Sensible(r) /\ SavedOK(r)
  BY <1>1 DEF Sensible, SavedOK, Same, Pending
<1>4. Proper(r) = {} /\ ContMarks(r, <<>>) = {}
  BY <1>1 DEF Proper, ContMarks, Continues
<1>5. Carried(r, <<>>)
  BY <1>1, <1>4 DEF Carried, OneCarrier, Recorded, IntentIsUnsent, OneDelivery, Owning
<1> QED BY <1>1, <1>2, <1>3, <1>4, <1>5 DEF Good, r

LEMMA StepNew ==
  ASSUME NEW s, Sensible(s), rt' = NewMemory(s), inbox' = <<>>, faults' \in Nat
  PROVE  IInv'
<1>1. IsBox(inbox') /\ Continues(inbox') = {} /\ Kept(rt', inbox')
  BY DEF IsBox, Continues, Kept
<1> DEFINE r == NewMemory(s)
<1>2. /\ Good(r, <<>>) /\ SavedOK(r) /\ ~r.revived /\ r.ask = None /\ r.sends = {}
      /\ r.intent = None /\ r.delivery = None /\ r.saved = s
      /\ r.goal = s.goal /\ r.queue = s.queue /\ r.pending = s.pending
  BY NewGood
<1> HIDE DEF r
<1>3. rt' = r
  BY DEF r
<1>4. FirstContinues' /\ Unstartedly'
  BY <1>1, <1>2, <1>3 DEF FirstContinues, Unstartedly
<1> QED BY <1>1, <1>2, <1>3, <1>4 DEF IInv

LEMMA CrashesStep == ASSUME IInv, Crashes PROVE IInv'
<1>1. Sensible(rt.saved) /\ faults' \in Nat
  BY FaultsNat DEF IInv, SavedOK, Crashes
<1> QED BY <1>1, StepNew DEF Crashes

LEMMA ReloadsStep == ASSUME IInv, Reloads, NoneIsNoRecord PROVE IInv'
<1> DEFINE q == IF Active(rt) THEN Charge(rt) ELSE rt
<1>1. Keeps(rt, q)
  BY NoneIsNoGoal, InvAlright, KeepsCharge, KeepsSelf
<1>2. Sensible(q)
  BY <1>1, KeepsSensible DEF IInv, Good
<1>3. rt' = NewMemory(Saved(q)) /\ inbox' = <<>> /\ faults' = faults
  BY DEF Reloads, Free
<1> HIDE DEF q
<1>4. Sensible(Saved(q))
  BY <1>2 DEF Sensible, Saved, Pending
<1> QED BY <1>3, <1>4, StepNew, FaultsNat

LEMMA InitInv == ASSUME Init PROVE IInv
<1>1. PICK s \in Sessions : rt = NewMemory(s)
  BY DEF Init
<1>2. Sensible(s)
  BY SessionsAssumption
<1> DEFINE r == NewMemory(s)
<1>3. /\ Good(r, <<>>) /\ SavedOK(r) /\ ~r.revived /\ r.ask = None /\ r.sends = {}
      /\ r.intent = None /\ r.delivery = None /\ r.saved = s
      /\ r.goal = s.goal /\ r.queue = s.queue /\ r.pending = s.pending
  BY <1>2, NewGood
<1> HIDE DEF r
<1>4. rt = r /\ inbox = <<>> /\ faults = 0
  BY <1>1 DEF Init, r
<1>5. IsBox(inbox) /\ Kept(rt, inbox) /\ FirstContinues /\ Unstartedly
  BY <1>3, <1>4 DEF IsBox, Continues, Kept, FirstContinues, Unstartedly
<1> QED BY <1>3, <1>4, <1>5 DEF IInv

\* What the loader takes for nothing is a priority without room.
LEMMA UnloadedIsRefused == ASSUME NEW s, Sensible(s), ~Loadable(s) PROVE Refused(s)
<1>1. IsQueue(s.queue) /\ Len(s.queue) \in Nat
  BY LenProperties DEF Sensible, IsQueue
<1> QED BY <1>1, GoalAssumption DEF Sensible, Loadable, Refused, IsQueue, Pending

LEMMA SessionStartsStep == ASSUME IInv, SessionStarts, NoneIsNoRecord, ~IsFiniteSet(Marks) PROVE IInv'
<1> DEFINE s == Loaded(rt.saved)
           r == [rt EXCEPT !.goal = s.goal, !.queue = s.queue, !.pending = s.pending]
<1>1. Starting /\ inbox' = inbox /\ host' = "idle" /\ faults' = faults
  BY DEF SessionStarts
<1>2. ~IsGoal(None) /\ IsBox(inbox) /\ Continues(inbox) = {} /\ Good(rt, inbox) /\ SavedOK(rt)
  BY <1>1, NoneIsNoGoal, InvAlright DEF Starting, IInv
<1>3. rt.goal = rt.saved.goal /\ rt.queue = rt.saved.queue /\ rt.pending = rt.saved.pending
  BY <1>1 DEF IInv, Unstartedly
<1>4. \/ s = rt.saved
      \/ s = NoGoal /\ Refused(rt.saved)
  BY <1>2, UnloadedIsRefused DEF Loaded, SavedOK, Sensible
<1>5. Sensible(s)
  BY <1>2, <1>4, EmptyIsQueue DEF SavedOK, NoGoal, Sensible, IsChange, Pending
<1> HIDE DEF s
<1>6. /\ IsMemory(r) /\ Others(rt, r) /\ SameWork(rt, r) /\ r.saved = rt.saved
      /\ r.goal = s.goal /\ r.queue = s.queue /\ r.pending = s.pending
  BY <1>2 DEF Good, IsMemory, Others, SameWork
<1>7. rt' \in {Dispatched(r, FALSE), RestoredActive(r, host = "reloading"), r}
      /\ (rt' = RestoredActive(r, host = "reloading") => Active(r) \/ rt' \in {Dispatched(r, FALSE), r})
  BY Zenon DEF SessionStarts, r, s
<1> HIDE DEF r, Fields
<1>8. Sensible(r)
  BY <1>5, <1>6 DEF Sensible, Pending
<1>9. Active(r) => Active(rt) /\ r.goal.id = rt.goal.id
  BY <1>3, <1>4, <1>6 DEF Active, NoGoal
<1>10. Good(r, inbox)
  BY <1>2, <1>6, <1>8, <1>9, OthersGood
<1>11. SavedOK(r)
  BY <1>2, <1>4, <1>6 DEF SavedOK, Same
<1>12. Well(r) /\ Stays(rt, r)
  BY <1>6, <1>10, <1>11 DEF Well, Stays, Others
<1>13. Well(Dispatched(r, FALSE)) /\ Onward(r, Dispatched(r, FALSE))
  <2>1. \A settle : Well(Dispatched(r, settle)) /\ Onward(r, Dispatched(r, settle))
    BY <1>2, <1>12, DispatchedWell
  <2> QED BY <2>1, Zenon
<1>14. Active(r) => Well(RestoredActive(r, host = "reloading")) /\ Onward(r, RestoredActive(r, host = "reloading"))
  <2>1. ASSUME Active(r), NEW reloaded PROVE Well(RestoredActive(r, reloaded)) /\ Onward(r, RestoredActive(r, reloaded))
    BY <1>2, <1>12, <2>1, RestoredActiveWell
  <2> QED BY <2>1, Zenon
<1>15. Well(rt') /\ Stays(rt, rt')
  BY <1>7, <1>12, <1>13, <1>14, Zenon DEF Onward, Stays
<1> QED BY <1>1, <1>2, <1>15, StepWell DEF Starting

-----------------------------------------------------------------------------
(* Prompts that the Host accepts *)

\* A message with a marker that may be added to the others.
Ready(r, b, m) ==
  /\ Unused(r, b, m.mark) /\ (r.intent # None => r.intent.mark # m.mark)
  /\ m.kind = "prompt" => \E p \in r.prompts : p.mark = m.mark /\ p.goal = m.goal
  /\ m.kind = "continue" =>
       \/ r.revived
       \/ /\ m.mark \in r.cancelled \/ (r.delivery # None /\ r.delivery.mark = m.mark /\ ActiveAs(r, m.goal))
          /\ r.intent # None => m.mark \in r.cancelled

LEMMA KeepsReady ==
  ASSUME NEW r, NEW q, NEW b, NEW m, Ready(r, b, m), Keeps(r, q)
  PROVE  Ready(q, b, m)
<1>1. Unused(q, b, m.mark) /\ (q.intent # None => q.intent.mark # m.mark)
  BY DEF Ready, Unused, Keeps, SameWork, Cancelled
<1>2. m.kind = "prompt" => \E p \in q.prompts : p.mark = m.mark /\ p.goal = m.goal
  BY DEF Ready, Keeps
<1>3. CASE Cancelled(r, q)
  BY <1>1, <1>2, <1>3 DEF Ready, Cancelled, Keeps
<1>4. CASE SameWork(r, q) /\ ~Cancelled(r, q)
  BY <1>1, <1>2, <1>4 DEF Ready, SameWork, Keeps, ActiveAs, Active
<1> QED BY <1>3, <1>4 DEF Keeps

LEMMA AcceptedGood ==
  ASSUME NEW r, NEW b, NEW c, NEW f, NEW at \in DOMAIN c, NEW m, Alright(r, b), Ready(r, b, m),
         m.kind \in {"prompt", "continue"}, Origin(b, c, f, at),
         c[at].kind = m.kind, c[at].mark = m.mark, c[at].goal = m.goal
  PROVE  Alright(r, c)
<1>1. \A k \in Owning(c) : k # at => f[k] \in Owning(b) /\ c[k].mark = b[f[k]].mark /\ c[k].mark # m.mark
  BY DEF Owning, Origin, Ready, Unused
<1>2. \A k \in Continues(c) : k # at => f[k] \in Continues(b) /\ c[k].mark = b[f[k]].mark /\ c[k].goal = b[f[k]].goal
  BY DEF Continues, Origin
<1>3. OneCarrier(r, c)
  <2>1. ASSUME NEW s \in Proper(r), NEW k \in Owning(c) PROVE s.mark # c[k].mark
    BY <1>1 DEF Alright, GoodSaved, Good, Carried, OneCarrier, Ready, Unused
  <2>2. ASSUME NEW j \in Owning(c), NEW k \in Owning(c), c[j].mark = c[k].mark PROVE j = k
    <3>1. CASE j = at \/ k = at
      BY <1>1, <2>2, <3>1
    <3>2. CASE j # at /\ k # at
      <4>1. f[j] = f[k]
        BY <1>1, <2>2, <3>2 DEF Alright, GoodSaved, Good, Carried, OneCarrier
      <4> QED BY <3>2, <4>1 DEF Origin, Owning
    <3> QED BY <3>1, <3>2
  <2>3. \A s, t \in Proper(r) : s.mark = t.mark => s = t
    BY DEF Alright, GoodSaved, Good, Carried, OneCarrier
  <2> QED BY <2>1, <2>2, <2>3 DEF OneCarrier
<1>4. Recorded(r, c)
  <2>1. ASSUME NEW k \in DOMAIN c, c[k].kind = "prompt" PROVE \E p \in r.prompts : p.mark = c[k].mark /\ p.goal = c[k].goal
    <3>1. CASE k = at
      BY <2>1, <3>1 DEF Ready
    <3>2. CASE k # at
      BY <2>1, <3>2 DEF Origin, Alright, GoodSaved, Good, Carried, Recorded
    <3> QED BY <3>1, <3>2
  <2>2. \A s \in Proper(r) : s.op \in PromptOps => \E p \in r.prompts : p.mark = s.mark /\ p.goal = s.goal
    BY DEF Alright, GoodSaved, Good, Carried, Recorded
  <2> QED BY <2>1, <2>2 DEF Recorded
<1>5. IntentIsUnsent(r, c)
  BY <1>1 DEF Alright, GoodSaved, Good, Carried, IntentIsUnsent, Ready
<1>6. m.kind = "prompt" => ContMarks(r, c) \subseteq ContMarks(r, b)
  BY <1>2 DEF ContMarks, Continues
<1>7. m.kind = "continue" => ContMarks(r, c) \subseteq ContMarks(r, b) \cup {m.mark}
  BY <1>2 DEF ContMarks, Continues
<1>8. OneDelivery(r, c)
  BY <1>6, <1>7 DEF Alright, GoodSaved, Good, Carried, OneDelivery, Ready
<1>9. faults = 0 => Kept(r, c)
  <2> SUFFICES ASSUME faults = 0, NEW k \in Continues(c) PROVE c[k].mark \in r.cancelled \/ ActiveAs(r, c[k].goal)
    BY DEF Kept
  <2>1. CASE k = at
    BY <2>1 DEF Continues, Ready, Alright
  <2>2. CASE k # at
    BY <1>2, <2>2 DEF Alright, Kept
  <2> QED BY <2>1, <2>2
<1>10. Good(r, c)
  BY <1>3, <1>4, <1>5, <1>8 DEF Alright, GoodSaved, Good, Carried
<1> QED BY <1>9, <1>10 DEF Alright, GoodSaved

LEMMA StepSend ==
  ASSUME IInv, ~IsGoal(None), NEW r, Alright(r, inbox), NEW m, IsMsg(m), m.kind \in {"prompt", "continue"},
         Ready(r, inbox, m), m.kind = "continue" => host = "idle",
         Accept(r, m), faults' = faults, ~Starting
  PROVE  IInv'
<1>1. IsBox(inbox) /\ (host # "open" => Continues(inbox) = {})
  BY InvAlright
<1>2. CASE Busy
  <2>1. rt' = r /\ inbox' = Queued(m) /\ host' = host /\ m.kind = "prompt"
    BY <1>2 DEF Accept, Busy
  <2>2. PICK f, at : /\ IsBox(inbox') /\ at \in DOMAIN inbox' /\ inbox'[at] = m /\ Origin(inbox, inbox', f, at)
                     /\ 1 \in DOMAIN inbox /\ inbox[1].how # "followUp"
                          => at # 1 /\ inbox'[1] = inbox[1] /\ f[1] = 1 /\ 1 \in DOMAIN inbox'
    BY <1>1, <2>1, QueuedBox
  <2>3. Alright(rt', inbox')
    BY <2>1, <2>2, AcceptedGood
  <2>4. ~Starting'
    BY <2>1 DEF Starting
  <2>5. FirstContinues'
    <3> SUFFICES ASSUME NEW k \in Continues(inbox')
                 PROVE  k = 1 /\ inbox'[k].how = "first" /\ host' = "open"
      BY DEF FirstContinues
    <3>1. k # at /\ f[k] \in Continues(inbox)
      BY <2>1, <2>2 DEF Continues, Origin
    <3>2. f[k] = 1 /\ 1 \in DOMAIN inbox /\ inbox[1].how = "first" /\ host = "open"
      BY <3>1 DEF IInv, FirstContinues, Continues
    <3>3. at # 1 /\ inbox'[1] = inbox[1] /\ f[1] = 1 /\ 1 \in DOMAIN inbox'
      BY <2>2, <3>2
    <3>4. k = 1
      BY <2>2, <3>1, <3>2, <3>3 DEF Origin, Continues
    <3> QED BY <2>1, <3>2, <3>3, <3>4
  <2> QED BY <2>2, <2>3, <2>4, <2>5 DEF IInv, Alright, GoodSaved, Unstartedly
<1>3. CASE ~Busy
  <2> DEFINE n == [m EXCEPT !.how = "first"]
  <2>1. rt' = NewRun(r) /\ inbox' = <<n>> \o inbox /\ host' = "open" /\ host = "idle"
    BY <1>3 DEF Accept, Busy
  <2>2. IsMsg(n) /\ n.kind = m.kind /\ n.mark = m.mark /\ n.goal = m.goal /\ n.how = "first"
    BY DEF IsMsg
  <2> HIDE DEF n
  <2>3. IsBox(inbox') /\ 1 \in DOMAIN inbox' /\ inbox'[1] = n /\ \E f : Origin(inbox, inbox', f, 1)
    BY <1>1, <2>1, <2>2, FirstBox
  <2>4. PICK f : Origin(inbox, inbox', f, 1)
    BY <2>3
  <2>5. Shaped(r)
    BY GoodShaped DEF Alright, GoodSaved
  <2>6. Alright(rt', inbox) /\ Ready(rt', inbox, m)
    BY <2>1, <2>5, KeepsNewRun, KeepsAlright, KeepsReady
  <2>7. Alright(rt', inbox')
    BY <2>2, <2>3, <2>4, <2>6, AcceptedGood
  <2>8. FirstContinues'
    BY <1>1, <2>1, <2>2, <2>3, <2>4 DEF FirstContinues, Continues, Origin
  <2>9. ~Starting'
    BY <2>1 DEF Starting
  <2> QED BY <2>3, <2>7, <2>8, <2>9 DEF IInv, Alright, GoodSaved, Unstartedly
<1> QED BY <1>2, <1>3

\* A prompt that is no longer on its way.
LEMMA RemovedAlright ==
  ASSUME NEW r, NEW q, NEW b, Alright(r, b), NEW s \in r.sends, Steady(r, q), q.sends = r.sends \ {s},
         q.intent = r.intent, q.delivery = r.delivery,
         \/ q.prompts = r.prompts
         \/ s.op # "wrapUp" /\ q.prompts = {p \in r.prompts : p.mark # s.mark}
  PROVE  Alright(q, b) /\ (s.op # "wrapUp" => Unused(q, b, s.mark))
<1> HIDE DEF Fields
<1>1. Sensible(q) /\ SavedOK(q)
  BY SteadySaved DEF Alright, GoodSaved, Good
<1>2. Finite(q)
  <2>1. IsFiniteSet(q.sends)
    BY FS_Subset DEF Alright, GoodSaved, Good, Finite
  <2>2. IsFiniteSet(q.prompts)
    <3>1. q.prompts \subseteq r.prompts
      OBVIOUS
    <3> QED BY <3>1, FS_Subset DEF Alright, GoodSaved, Good, Finite
  <2> QED BY <2>1, <2>2 DEF Alright, GoodSaved, Good, Finite, Steady
<1>3. Proper(q) \subseteq Proper(r) /\ (s.op # "wrapUp" => Proper(q) = Proper(r) \ {s} /\ s \in Proper(r))
  BY DEF Proper
<1>4. OneCarrier(q, b)
  BY <1>3 DEF Alright, GoodSaved, Good, Carried, OneCarrier
<1>5. s.op # "wrapUp" => Unused(q, b, s.mark)
  BY <1>3 DEF Alright, GoodSaved, Good, Carried, OneCarrier, Unused
<1>6. Recorded(q, b)
  <2>1. ASSUME NEW x, NEW g, \E p \in r.prompts : p.mark = x /\ p.goal = g, s.op # "wrapUp" => x # s.mark
        PROVE  \E p \in q.prompts : p.mark = x /\ p.goal = g
    BY <2>1
  <2>2. ASSUME NEW t \in Proper(q), t.op \in PromptOps PROVE \E p \in q.prompts : p.mark = t.mark /\ p.goal = t.goal
    <3>1. \E p \in r.prompts : p.mark = t.mark /\ p.goal = t.goal
      BY <1>3, <2>2 DEF Alright, GoodSaved, Good, Carried, Recorded
    <3>2. s.op # "wrapUp" => t.mark # s.mark
      BY <1>5 DEF Unused
    <3> QED BY <2>1, <3>1, <3>2
  <2>3. ASSUME NEW k \in DOMAIN b, b[k].kind = "prompt" PROVE \E p \in q.prompts : p.mark = b[k].mark /\ p.goal = b[k].goal
    <3>1. \E p \in r.prompts : p.mark = b[k].mark /\ p.goal = b[k].goal
      BY <2>3 DEF Alright, GoodSaved, Good, Carried, Recorded
    <3>2. s.op # "wrapUp" => b[k].mark # s.mark
      BY <1>5, <2>3 DEF Unused, Owning
    <3> QED BY <2>1, <3>1, <3>2
  <2> QED BY <2>2, <2>3 DEF Recorded
<1>7. IntentIsUnsent(q, b)
  BY <1>3 DEF Alright, GoodSaved, Good, Carried, IntentIsUnsent
<1>8. ContMarks(q, b) \subseteq ContMarks(r, b)
  BY DEF ContMarks
<1>9. OneDelivery(q, b)
  BY <1>8 DEF Alright, GoodSaved, Good, Carried, OneDelivery, Steady, Active
<1>10. \A x \in Proper(q) : SendOK(x)
  BY <1>3 DEF Alright, GoodSaved, Good
<1>11. Good(q, b)
  BY <1>1, <1>2, <1>4, <1>6, <1>7, <1>9, <1>10 DEF Good, Carried, Steady
<1> QED BY <1>1, <1>5, <1>11 DEF Alright, GoodSaved, Kept, Steady, ActiveAs, Active

LEMMA SettledKeeps ==
  ASSUME NEW r, Shaped(r), ~IsGoal(None), NEW s
  PROVE  Keeps(r, AfterSettled(r, s))
BY KeepsSettled, KeepsSelf DEF AfterSettled

LEMMA SentStep == ASSUME IInv, NEW s, Sent(s), NoneIsNoRecord PROVE IInv'
<1> DEFINE q == [rt EXCEPT !.sends = @ \ {s}]
           r == AfterSettled(q, s)
           m == MessageOf(s)
<1>1. /\ s \in rt.sends /\ Current(s) /\ CanSubmit(s) /\ faults' = faults
      /\ IF s.op = "wrapUp" /\ ~Busy THEN rt' = r /\ UNCHANGED <<inbox, host>> ELSE Accept(r, m)
  BY DEF Sent
<1>2. ~IsGoal(None) /\ Alright(rt, inbox) /\ ~Starting
  BY <1>1, NoneIsNoGoal, InvAlright DEF IInv, Unstartedly
<1>3. /\ Steady(rt, q) /\ q.sends = rt.sends \ {s} /\ q.intent = rt.intent /\ q.delivery = rt.delivery
      /\ q.prompts = rt.prompts
  BY <1>2 DEF Steady, Alright, GoodSaved, Good, IsMemory
<1> HIDE DEF q
<1>4. Alright(q, inbox) /\ (s.op # "wrapUp" => Unused(q, inbox, s.mark))
  BY <1>1, <1>2, <1>3, RemovedAlright
<1>5. Keeps(q, r)
  BY <1>2, <1>4, SettledKeeps, GoodShaped DEF Alright, GoodSaved
<1>6. Alright(r, inbox)
  BY <1>2, <1>4, <1>5, KeepsAlright
<1> HIDE DEF r
<1>7. CASE s.op = "wrapUp"
  <2>1. IsMsg(m) /\ m.kind = "wrapUp"
    BY <1>7, MsgFields DEF MessageOf
  <2> HIDE DEF m
  <2>2. CASE ~Busy
    <3>1. rt' = r /\ inbox' = inbox /\ host' = host
      BY <1>1, <1>7, <2>2
    <3> QED BY <1>1, <1>2, <1>6, <3>1, StepBeside, FaultsNat DEF Starting
  <2>3. CASE Busy
    BY <1>1, <1>2, <1>6, <1>7, <2>1, <2>3, StepAccept
  <2> QED BY <2>2, <2>3
<1>8. CASE s.op # "wrapUp"
  <2>1. /\ IsMsg(m) /\ m.kind = (IF s.op = "continue" THEN "continue" ELSE "prompt")
        /\ m.mark = s.mark /\ m.goal = s.goal
    BY <1>8, MsgFields DEF MessageOf
  <2>2. s \in Proper(rt) /\ s.op \in PromptOps \cup {"continue"}
    BY <1>1, <1>2, <1>8 DEF Proper, Alright, GoodSaved, Good, SendOK
  <2> HIDE DEF m
  <2>3. q.intent # None => q.intent.mark # m.mark
    BY <1>2, <1>3, <2>1, <2>2 DEF Alright, GoodSaved, Good, Carried, IntentIsUnsent
  <2>4. m.kind = "prompt" => \E p \in q.prompts : p.mark = m.mark /\ p.goal = m.goal
    BY <1>2, <1>3, <2>1, <2>2 DEF Alright, GoodSaved, Good, Carried, Recorded
  <2>5. m.kind = "continue" =>
          \/ q.revived
          \/ /\ m.mark \in q.cancelled \/ (q.delivery # None /\ q.delivery.mark = m.mark /\ ActiveAs(q, m.goal))
             /\ q.intent # None => m.mark \in q.cancelled
    <3> SUFFICES ASSUME s.op = "continue", ~rt.revived
                 PROVE  /\ m.mark \in q.cancelled \/ (q.delivery # None /\ q.delivery.mark = m.mark /\ ActiveAs(q, m.goal))
                        /\ q.intent # None => m.mark \in q.cancelled
      BY <1>3, <2>1 DEF Steady
    <3>1. m.mark \in ContMarks(rt, inbox)
      BY <1>1, <2>1 DEF ContMarks
    <3>2. ActiveAs(q, m.goal)
      BY <1>1, <1>3, <2>1 DEF Current, ActiveAs, Active, Steady
    <3> QED BY <1>2, <1>3, <3>1, <3>2 DEF Alright, GoodSaved, Good, Carried, OneDelivery, Steady
  <2>6. Ready(q, inbox, m)
    BY <1>4, <1>8, <2>1, <2>3, <2>4, <2>5 DEF Ready
  <2>7. Ready(r, inbox, m)
    BY <1>5, <2>6, KeepsReady
  <2>8. m.kind = "continue" => host = "idle"
    BY <1>1, <2>1 DEF CanSubmit, Free
  <2>9. Accept(r, m)
    BY <1>1, <1>8
  <2>10. m.kind \in {"prompt", "continue"}
    BY <2>1
  <2> QED BY <1>1, <1>2, <1>6, <2>1, <2>7, <2>8, <2>9, <2>10, StepSend
<1> QED BY <1>7, <1>8

-----------------------------------------------------------------------------
(* Prompts that come back *)

LEMMA BackWell ==
  ASSUME NEW r, Well(r), NEW q, IsMemory(q), Others(r, q), SameWork(r, q), Sensible(q), ~Active(q), ~IsGoal(None)
  PROVE  Well(Persist(q)) /\ Onward(r, Persist(q))
<1>1. Good(q, inbox)
  BY OthersGood DEF Well
<1>2. Well(Persist(q)) /\ PersistFields(q, Persist(q))
  BY <1>1, PersistWell, PersistedFields, GoodShaped
<1> QED BY <1>2 DEF Onward, PersistFields, Others, SameWork

\* The Goal that comes back does not go back to work.
LEMMA RestoredFields ==
  ASSUME NEW r, IsMemory(r), NEW g, IsGoal(g)
  PROVE  LET q == Restored(r, g)
         IN  /\ IsMemory(q) /\ Others(r, q) /\ SameWork(r, q) /\ q.queue = r.queue /\ q.pending = r.pending
             /\ IsGoal(q.goal) /\ q.goal.status # "active"
             /\ q.goal.status = "complete" => g.status = "complete"
<1>1. IsGoal(Transition(g, "paused")) /\ Transition(g, "paused").status = "paused"
  BY TransitionGoal
<1>2. CASE g.status = "active"
  <2> DEFINE q == [r EXCEPT !.goal = Transition(g, "paused"), !.stale = TRUE, !.abort = TRUE]
  <2>1. /\ IsMemory(q) /\ Others(r, q) /\ SameWork(r, q) /\ q.queue = r.queue /\ q.pending = r.pending
        /\ q.goal = Transition(g, "paused")
    BY DEF IsMemory, Others, SameWork
  <2>2. Restored(r, g) = q
    BY <1>2 DEF Restored
  <2> HIDE DEF q
  <2> QED BY <1>1, <2>1, <2>2
<1>3. CASE g.status # "active"
  <2> DEFINE q == [r EXCEPT !.goal = g, !.stale = g.status \in Stopped]
  <2>1. /\ IsMemory(q) /\ Others(r, q) /\ SameWork(r, q) /\ q.queue = r.queue /\ q.pending = r.pending
        /\ q.goal = g
    BY DEF IsMemory, Others, SameWork
  <2>2. Restored(r, g) = q
    BY <1>3 DEF Restored
  <2> HIDE DEF q
  <2> QED BY <1>3, <2>1, <2>2
<1> QED BY <1>2, <1>3

\* What is neither at work nor complete may come back beside any change of the queue.
LEMMA IdleSensible ==
  ASSUME NEW q, IsGoal(q.goal), q.goal.status \notin {"active", "complete"}, IsQueue(q.queue), IsChange(q.pending),
         ~IsGoal(None)
  PROVE  Sensible(q) /\ ~Active(q)
BY DEF Sensible, Active, Pending

LEMMA RecordedBackGoal ==
  ASSUME NEW r, IsMemory(r), NEW g, IsGoal(g)
  PROVE  IsGoal(RecordedBack(r, g)) /\ RecordedBack(r, g).status = g.status
<1> DEFINE c == [r EXCEPT !.goal = g]
<1>1. IsMemory(c) /\ c.goal = g
  BY DEF IsMemory
<1> HIDE DEF c
<1>2. Charge(c).goal \in {g, [g EXCEPT !.used = Usage(g)]}
  BY <1>1 DEF Charge, IsMemory
<1> QED BY <1>2 DEF RecordedBack, IsGoal, c

\* A start or a resume whose prompt is not taken.
LEMMA UnstartedWell ==
  ASSUME NEW r, Well(r), NEW s, SendOK(s), s.op = "start", ~IsGoal(None)
  PROVE  Well(Unstarted(r, s)) /\ Onward(r, Unstarted(r, s))
<1>1. CASE ~HasGoal(r, s.goal)
  BY <1>1 DEF Unstarted, Onward
<1>2. CASE HasGoal(r, s.goal) /\ s.back = None
  BY <1>2, ClearedWell DEF Unstarted, Well, Good, Others, SameWork, Onward, Stops
<1>3. CASE HasGoal(r, s.goal) /\ s.back # None
  <2> DEFINE g == RecordedBack(r, s.back)
             c == [r EXCEPT !.queue = s.queue]
             q == Restored(c, g)
  <2>1. IsGoal(s.back) /\ s.back.status # "complete" /\ IsQueue(s.queue) /\ IsMemory(r)
    BY <1>3 DEF SendOK, Well, Good
  <2>2. IsGoal(g) /\ g.status # "complete"
    BY <2>1, RecordedBackGoal
  <2> HIDE DEF g
  <2>3. IsMemory(c) /\ Others(r, c) /\ SameWork(r, c) /\ c.queue = s.queue /\ c.pending = r.pending
    BY <2>1 DEF IsMemory, Others, SameWork
  <2> HIDE DEF c
  <2>4. /\ IsMemory(q) /\ Others(c, q) /\ SameWork(c, q) /\ q.queue = s.queue /\ q.pending = r.pending
        /\ IsGoal(q.goal) /\ q.goal.status \notin {"active", "complete"}
    BY <2>2, <2>3, RestoredFields
  <2>5. Unstarted(r, s) = Persist(q)
    BY <1>3 DEF Unstarted, q, c, g
  <2> HIDE DEF q, Fields
  <2>6. Sensible(q) /\ ~Active(q)
    BY <2>1, <2>4, IdleSensible DEF Well, Good, Sensible
  <2>7. Others(r, q) /\ SameWork(r, q)
    BY <2>3, <2>4 DEF Others, SameWork
  <2> QED BY <2>4, <2>5, <2>6, <2>7, BackWell
<1> QED BY <1>1, <1>2, <1>3

LEMMA UnresumedWell ==
  ASSUME NEW r, Well(r), NEW s, SendOK(s), s.op = "resume", ~IsGoal(None)
  PROVE  Well(Unresumed(r, s)) /\ Onward(r, Unresumed(r, s))
<1>1. CASE ~ActiveAs(r, s.goal)
  BY <1>1 DEF Unresumed, Onward
<1>2. CASE ActiveAs(r, s.goal)
  <2> DEFINE q == [r EXCEPT !.goal = s.back, !.stale = @ \/ s.back.status \in Stopped]
  <2>1. /\ IsMemory(q) /\ Others(r, q) /\ SameWork(r, q) /\ q.queue = r.queue /\ q.pending = r.pending
        /\ q.goal = s.back
    BY DEF Well, Good, IsMemory, Others, SameWork
  <2>2. Unresumed(r, s) = Persist(q)
    BY <1>2 DEF Unresumed
  <2> HIDE DEF q, Fields
  <2>3. Sensible(q) /\ ~Active(q)
    BY <2>1, IdleSensible DEF Well, Good, Sensible, SendOK
  <2> QED BY <2>1, <2>2, <2>3, BackWell
<1> QED BY <1>1, <1>2

LEMMA UneditedWell ==
  ASSUME NEW r, Well(r), NEW s, SendOK(s), s.op = "edit", ~IsGoal(None)
  PROVE  Well(Unedited(r, s)) /\ Onward(r, Unedited(r, s))
<1> DEFINE q == Restored(r, s.back)
<1>1. /\ IsMemory(q) /\ Others(r, q) /\ SameWork(r, q) /\ q.queue = r.queue /\ q.pending = r.pending
      /\ IsGoal(q.goal) /\ q.goal.status \notin {"active", "complete"}
  BY RestoredFields DEF SendOK, Well, Good
<1> HIDE DEF q, Fields
<1>2. Sensible(q) /\ ~Active(q)
  BY <1>1, IdleSensible DEF Well, Good, Sensible
<1>3. Well(Persist(q)) /\ Onward(r, Persist(q))
  BY <1>1, <1>2, BackWell
<1> QED BY <1>3 DEF Unedited, Onward, q

LEMMA OnwardOn == ASSUME NEW r, NEW p, NEW q, Onward(r, p), Onward(p, q) PROVE Onward(r, q)
BY DEF Onward

LEMMA ContinuedIfWell ==
  ASSUME NEW r, NEW c, Well(c), Onward(r, c), NEW s, ~IsGoal(None)
  PROVE  Well(ContinuedIfSettled(c, s)) /\ Onward(r, ContinuedIfSettled(c, s))
<1>1. \A settle : Well(Continued(c, settle)) /\ Onward(c, Continued(c, settle))
  BY ContinuedWell DEF Onward
<1>2. ContinuedIfSettled(c, s) \in {c, Continued(c, TRUE)}
  BY Zenon DEF ContinuedIfSettled
<1>3. Well(Continued(c, TRUE)) /\ Onward(r, Continued(c, TRUE))
  BY <1>1, OnwardOn, Zenon
<1> QED BY <1>2, <1>3, Zenon

LEMMA UnadvancedWell ==
  ASSUME NEW r, Well(r), NEW s, ~IsGoal(None)
  PROVE  Well(Unadvanced(r, s)) /\ Onward(r, Unadvanced(r, s))
<1>1. CASE ~HasGoal(r, s.goal)
  BY <1>1 DEF Unadvanced, Onward
<1>2. CASE HasGoal(r, s.goal)
  <2> DEFINE q == [r EXCEPT !.goal = Transition(@, "paused"), !.stale = TRUE]
  <2>1. IsGoal(r.goal)
    BY <1>2 DEF Well, Good, Sensible, HasGoal
  <2>2. IsGoal(Transition(r.goal, "paused")) /\ Transition(r.goal, "paused").status = "paused"
    BY <2>1, TransitionGoal
  <2>3. /\ IsMemory(q) /\ Others(r, q) /\ SameWork(r, q) /\ q.queue = r.queue /\ q.pending = r.pending
        /\ q.goal = Transition(r.goal, "paused")
    BY DEF Well, Good, IsMemory, Others, SameWork
  <2>4. Unadvanced(r, s) = ContinuedIfSettled(Persist(q), s)
    BY <1>2 DEF Unadvanced
  <2> HIDE DEF q, Fields
  <2>5. Sensible(q) /\ ~Active(q)
    BY <2>2, <2>3, IdleSensible DEF Well, Good, Sensible
  <2>6. Well(Persist(q)) /\ Onward(r, Persist(q))
    BY <2>3, <2>5, BackWell
  <2> QED BY <2>4, <2>6, ContinuedIfWell
<1> QED BY <1>1, <1>2

LEMMA UnprioritizedWell ==
  ASSUME NEW r, Well(r), NEW s, SendOK(s), s.op = "prioritize", ~IsGoal(None), NoneIsNoRecord
  PROVE  Well(Unprioritized(r, s)) /\ Onward(r, Unprioritized(r, s))
<1>1. CASE ~HasGoal(r, s.goal)
  BY <1>1 DEF Unprioritized, Onward
<1>2. CASE HasGoal(r, s.goal)
  <2> DEFINE c == [r EXCEPT !.queue = s.queue]
             b == Restored(c, s.back)
             again == [kind |-> "prioritize", budget |-> r.goal.budget, finalized |-> FALSE]
             q == [b EXCEPT !.stale = @ \/ r.stale, !.pending = IF s.back.status # "complete" THEN @ ELSE again]
  <2>1. IsGoal(s.back) /\ IsQueue(s.queue) /\ IsMemory(r)
    BY DEF SendOK, Well, Good
  <2>2. IsMemory(c) /\ Others(r, c) /\ SameWork(r, c) /\ c.queue = s.queue /\ c.pending = r.pending
    BY <2>1 DEF IsMemory, Others, SameWork
  <2> HIDE DEF c
  <2>3. /\ IsMemory(b) /\ Others(c, b) /\ SameWork(c, b) /\ b.queue = s.queue /\ b.pending = r.pending
        /\ IsGoal(b.goal) /\ b.goal.status # "active"
        /\ b.goal.status = "complete" => s.back.status = "complete"
    BY <2>1, <2>2, RestoredFields
  <2>4. again.kind = "prioritize" /\ again = [f \in {"kind", "budget", "finalized"} |-> again[f]]
    OBVIOUS
  <2> HIDE DEF b, again
  <2>5. /\ IsMemory(q) /\ Others(b, q) /\ SameWork(b, q) /\ q.queue = s.queue /\ q.goal = b.goal
        /\ q.pending = IF s.back.status # "complete" THEN r.pending ELSE again
    BY <2>3 DEF IsMemory, Others, SameWork
  <2>6. Unprioritized(r, s) = ContinuedIfSettled(Persist(q), s)
    BY <1>2 DEF Unprioritized, q, b, c, again
  <2> HIDE DEF q, Fields
  <2>7. IsChange(again) /\ again # None
    BY <2>4 DEF IsChange, NoneIsNoRecord
  <2>8. Sensible(q) /\ ~Active(q)
    <3>1. IsChange(q.pending) /\ (q.goal.status = "complete" => q.pending = again)
      BY <2>3, <2>5, <2>7 DEF Well, Good, Sensible
    <3> QED BY <2>1, <2>3, <2>4, <2>5, <2>7, <3>1 DEF Sensible, Active, Pending
  <2>9. Others(r, q) /\ SameWork(r, q)
    BY <2>2, <2>3, <2>5 DEF Others, SameWork
  <2>10. Well(Persist(q)) /\ Onward(r, Persist(q))
    BY <2>5, <2>8, <2>9, BackWell
  <2> QED BY <2>6, <2>10, ContinuedIfWell
<1> QED BY <1>1, <1>2

\* A continuation that was not taken: none is on its way, or it is wanted again.
LEMMA UncontinuedWell ==
  ASSUME NEW r, Well(r), NEW s, Unused(r, inbox, s.mark), NEW failed,
         \/ r.revived
         \/ /\ s.mark \notin r.cancelled => r.delivery # None /\ r.delivery.mark = s.mark
            /\ r.intent # None => ContMarks(r, inbox) \subseteq r.cancelled
  PROVE  LET q == Uncontinued(r, s, failed)
         IN  Well(q) /\ q.ask = r.ask /\ (~failed => Stays(r, q) /\ (Kept(r, inbox) => Kept(q, inbox)))
<1> DEFINE c == [r EXCEPT !.delivery = IF @ # None /\ @.mark = s.mark THEN None ELSE @]
           again == [goal |-> s.goal, mark |-> s.mark]
           q == [c EXCEPT !.intent = again, !.revived = @ \/ s.mark \in r.cancelled]
           d == [c EXCEPT !.cancelled = @ \ {s.mark}]
<1>1. /\ IsMemory(c) /\ Steady(r, c) /\ c.sends = r.sends /\ c.prompts = r.prompts /\ c.intent = r.intent
      /\ c.delivery = IF r.delivery # None /\ r.delivery.mark = s.mark THEN None ELSE r.delivery
  BY DEF Well, Good, IsMemory, Steady
<1> HIDE DEF c
<1>2. CASE failed /\ ActiveAs(c, s.goal)
  <2>1. again.mark = s.mark
    OBVIOUS
  <2> HIDE DEF again
  <2>2. /\ IsMemory(q) /\ q.goal = r.goal /\ q.queue = r.queue /\ q.pending = r.pending /\ q.saved = r.saved
        /\ q.sends = r.sends /\ q.prompts = r.prompts /\ q.intent = again /\ q.delivery = c.delivery
        /\ q.cancelled = r.cancelled /\ q.ask = r.ask /\ q.claimed = r.claimed /\ q.conts = r.conts
        /\ q.revived = (r.revived \/ s.mark \in r.cancelled)
    BY <1>1 DEF IsMemory, Steady
  <2>3. Uncontinued(r, s, failed) = q
    BY <1>2 DEF Uncontinued, c, q, again
  <2> HIDE DEF q, Fields
  <2>4. Finite(q) /\ Sensible(q) /\ SavedOK(q)
    BY <2>2 DEF Finite, Well, Good, Sensible, SavedOK, Same, Pending
  <2>5. Proper(q) = Proper(r) /\ ContMarks(q, inbox) = ContMarks(r, inbox)
    BY <2>2, ProperMarks DEF Proper
  <2>6. IntentIsUnsent(q, inbox)
    BY <2>1, <2>2, <2>5 DEF IntentIsUnsent, Unused
  <2>7. s.mark \notin ContMarks(r, inbox)
    BY DEF Unused, ContMarks, Continues, Owning, Proper
  <2>8. OneDelivery(q, inbox)
    <3>1. CASE r.revived \/ s.mark \in r.cancelled
      BY <2>2, <3>1 DEF OneDelivery
    <3>2. CASE ~(r.revived \/ s.mark \in r.cancelled)
      <4>1. r.delivery # None /\ r.delivery.mark = s.mark /\ q.delivery = None
        BY <1>1, <2>2, <3>2
      <4>2. ContMarks(r, inbox) \subseteq r.cancelled
        BY <2>7, <3>2, <4>1 DEF Well, Good, Carried, OneDelivery
      <4> QED BY <2>2, <2>5, <4>1, <4>2 DEF OneDelivery
    <3> QED BY <3>1, <3>2
  <2>9. OneCarrier(q, inbox) /\ Recorded(q, inbox) /\ \A x \in Proper(q) : SendOK(x)
    BY <2>2, <2>5 DEF Well, Good, Carried, OneCarrier, Recorded
  <2> QED BY <1>2, <2>2, <2>3, <2>4, <2>6, <2>8, <2>9 DEF Well, Good, Carried
<1>3. CASE ~(failed /\ ActiveAs(c, s.goal))
  <2> DEFINE O == {}
             x == s.mark
  <2>1. /\ IsMemory(d) /\ d.goal = r.goal /\ d.queue = r.queue /\ d.pending = r.pending /\ d.saved = r.saved
        /\ d.revived = r.revived /\ d.sends = r.sends /\ d.intent = r.intent /\ d.ask = r.ask
        /\ d.prompts = r.prompts \ O /\ d.cancelled = r.cancelled \ {x}
        /\ d.delivery = r.delivery \/ (d.delivery = None /\ r.delivery.mark = x)
        /\ d.claimed = r.claimed /\ d.conts = r.conts
    BY <1>1 DEF IsMemory, Steady
  <2>2. Uncontinued(r, s, failed) = d
    BY <1>3 DEF Uncontinued, c, d
  <2>3. Unused(r, inbox, x) /\ \A p \in O : p.mark = x
    OBVIOUS
  <2> HIDE DEF d, O, x, Fields
  <2>4. Finite(d)
    <3>1. IsFiniteSet(d.cancelled)
      BY <2>1, FS_Subset DEF Well, Good, Finite
    <3>2. IsFiniteSet(d.prompts)
      BY <2>1, FS_Subset DEF Well, Good, Finite
    <3> QED BY <2>1, <3>1, <3>2 DEF Well, Good, Finite
  <2>5. Good(d, inbox) /\ (SavedOK(r) => SavedOK(d))
    BY <2>1, <2>3, <2>4, ArrivedGood DEF Well
  <2>6. Kept(r, inbox) => Kept(d, inbox)
    BY <2>1, <2>3 DEF Kept, Unused, Continues, Owning, ActiveAs, Active
  <2> QED BY <2>1, <2>2, <2>5, <2>6 DEF Well, Stays
<1> QED BY <1>2, <1>3

LEMMA UnlimitedKeeps ==
  ASSUME NEW r, Shaped(r), ~IsGoal(None), NEW s, NEW failed
  PROVE  Keeps(r, Unlimited(r, s, failed))
<1> DEFINE q == [r EXCEPT !.wrapUp.delivered = FALSE]
<1>1. Beside(r, q) /\ q.goal = r.goal
  BY DEF Beside, Shaped, IsMemory, SameWork
<1>2. Keeps(r, q) /\ Keeps(r, r)
  BY <1>1, KeepsBeside, KeepsSelf
<1> QED BY <1>2 DEF Unlimited

\* Where the Goal did no work, what goes onward keeps the continuations stopped.
LEMMA OnwardKept ==
  ASSUME NEW r, NEW q, NEW b, ~Active(r), Kept(r, b), Onward(r, q)
  PROVE  Kept(q, b)
BY DEF Kept, ActiveAs, Onward

LEMMA StepGood ==
  ASSUME IInv, inbox' = inbox, host' = host, faults' \in Nat, GoodSaved(rt', inbox),
         rt'.ask # None => rt'.ask.status # "complete", faults' = 0 => ~rt'.revived /\ Kept(rt', inbox), ~Starting
  PROVE  IInv'
<1>1. FirstContinues' /\ ~Starting'
  BY DEF IInv, FirstContinues, Starting
<1> QED BY <1>1 DEF IInv, GoodSaved, Unstartedly

LEMMA UnsentStep ==
  ASSUME IInv, NEW s, NEW failed \in BOOLEAN, Unsent(s, failed), NoneIsNoRecord
  PROVE  IInv'
<1> DEFINE r == Without(s)
           n == NotSent(s, failed)
<1>1. /\ s \in rt.sends /\ inbox' = inbox /\ host' = host
      /\ IF failed THEN faults' = faults + 1 ELSE ~(Current(s) /\ CanSubmit(s)) /\ faults' = faults
      /\ rt' \in {r, AfterSettled(n, s)}
  BY DEF Unsent
<1>2. ~IsGoal(None) /\ Alright(rt, inbox) /\ ~Starting /\ faults \in Nat
  BY <1>1, NoneIsNoGoal, InvAlright, FaultsNat DEF IInv, Unstartedly
<1>3. faults' \in Nat /\ (faults' = 0 => ~failed /\ faults = 0)
  BY <1>1, <1>2
<1>4. s.op # "wrapUp" => s \in Proper(rt) /\ SendOK(s) /\ s.op \in PromptOps \cup {"continue"}
  BY <1>1, <1>2 DEF Proper, Alright, GoodSaved, Good, SendOK
<1>5. /\ Steady(rt, r) /\ r.sends = rt.sends \ {s} /\ r.intent = rt.intent /\ r.delivery = rt.delivery
      /\ \/ r.prompts = rt.prompts
         \/ s.op # "wrapUp" /\ r.prompts = {p \in rt.prompts : p.mark # s.mark}
  BY <1>2 DEF Without, Steady, Alright, GoodSaved, Good, IsMemory
<1> HIDE DEF r
<1>6. Alright(r, inbox) /\ (s.op # "wrapUp" => Unused(r, inbox, s.mark))
  BY <1>1, <1>2, <1>5, RemovedAlright
<1>7. Well(r) /\ Shaped(r) /\ Stays(rt, r)
  BY <1>5, <1>6, GoodShaped DEF Alright, GoodSaved, Well, Stays, Steady
<1>8. ASSUME NEW q, Well(q), Onward(r, q), s.op \in PromptOps, q = r \/ HasGoal(r, s.goal)
      PROVE  Well(q) /\ q.ask = r.ask /\ (~failed /\ faults = 0 => ~q.revived /\ Kept(q, inbox))
  <2> SUFFICES ASSUME ~failed, faults = 0 PROVE ~q.revived /\ Kept(q, inbox)
    BY <1>8 DEF Onward
  <2>1. ~ActiveAs(r, s.goal)
    BY <1>1, <1>5, <1>8 DEF Current, CanSubmit, PromptOps, ActiveAs, Active, Steady
  <2>2. ~r.revived /\ Kept(r, inbox)
    BY <1>6 DEF Alright
  <2>3. CASE q = r
    BY <2>2, <2>3
  <2>4. CASE HasGoal(r, s.goal)
    BY <1>8, <2>1, <2>2, <2>4, OnwardKept DEF ActiveAs, HasGoal, Active, Onward
  <2> QED BY <1>8, <2>3, <2>4
<1>9. Well(n) /\ n.ask = r.ask /\ (~failed /\ faults = 0 => ~n.revived /\ Kept(n, inbox))
  <2>1. CASE s.op = "start"
    <3>1. n = Unstarted(r, s)
      BY <2>1 DEF NotSent, n, r
    <3> HIDE DEF n
    <3>2. n = r \/ HasGoal(r, s.goal)
      BY <3>1 DEF Unstarted
    <3> QED BY <1>2, <1>4, <1>7, <1>8, <2>1, <3>1, <3>2, UnstartedWell DEF PromptOps
  <2>2. CASE s.op = "resume"
    <3>1. n = Unresumed(r, s)
      BY <2>2 DEF NotSent, n, r
    <3> HIDE DEF n
    <3>2. n = r \/ HasGoal(r, s.goal)
      BY <3>1 DEF Unresumed, ActiveAs, Active, HasGoal
    <3> QED BY <1>2, <1>4, <1>7, <1>8, <2>2, <3>1, <3>2, UnresumedWell DEF PromptOps
  <2>3. CASE s.op = "edit"
    <3>1. n = Unedited(r, s)
      BY <2>3 DEF NotSent, n, r
    <3> HIDE DEF n
    <3>2. n = r \/ HasGoal(r, s.goal)
      BY <3>1 DEF Unedited
    <3> QED BY <1>2, <1>4, <1>7, <1>8, <2>3, <3>1, <3>2, UneditedWell DEF PromptOps
  <2>4. CASE s.op = "advance"
    <3>1. n = Unadvanced(r, s)
      BY <2>4 DEF NotSent, n, r
    <3> HIDE DEF n
    <3>2. n = r \/ HasGoal(r, s.goal)
      BY <3>1 DEF Unadvanced
    <3> QED BY <1>2, <1>7, <1>8, <2>4, <3>1, <3>2, UnadvancedWell DEF PromptOps
  <2>5. CASE s.op = "prioritize"
    <3>1. n = Unprioritized(r, s)
      BY <2>5 DEF NotSent, n, r
    <3> HIDE DEF n
    <3>2. n = r \/ HasGoal(r, s.goal)
      BY <3>1 DEF Unprioritized
    <3> QED BY <1>2, <1>4, <1>7, <1>8, <2>5, <3>1, <3>2, UnprioritizedWell DEF PromptOps
  <2>6. CASE s.op = "continue"
    <3>1. n = Uncontinued(r, s, failed)
      BY <2>6 DEF NotSent, n, r
    <3> HIDE DEF n
    <3>2. s.mark \in ContMarks(rt, inbox)
      BY <1>1, <2>6 DEF ContMarks
    <3>3. ContMarks(r, inbox) \subseteq ContMarks(rt, inbox)
      BY <1>5 DEF ContMarks
    <3>4. \/ r.revived
          \/ /\ s.mark \notin r.cancelled => r.delivery # None /\ r.delivery.mark = s.mark
             /\ r.intent # None => ContMarks(r, inbox) \subseteq r.cancelled
      BY <1>2, <1>5, <3>2, <3>3 DEF Alright, GoodSaved, Good, Carried, OneDelivery, Steady
    <3>5. Well(n) /\ n.ask = r.ask /\ (~failed => Stays(r, n) /\ (Kept(r, inbox) => Kept(n, inbox)))
      BY <1>6, <1>7, <2>6, <3>1, <3>4, UncontinuedWell
    <3> QED BY <1>6, <3>5 DEF Alright, Stays
  <2>7. CASE s.op = "wrapUp"
    <3>1. n = Unlimited(r, s, failed)
      BY <2>7 DEF NotSent, n, r
    <3> HIDE DEF n
    <3>2. Alright(n, inbox) /\ n.ask = r.ask
      BY <1>2, <1>6, <1>7, <3>1, UnlimitedKeeps, KeepsAlright DEF Keeps
    <3> QED BY <3>2 DEF Alright, GoodSaved, Well
  <2> QED BY <1>4, <2>1, <2>2, <2>3, <2>4, <2>5, <2>6, <2>7 DEF PromptOps
<1> HIDE DEF n
<1> DEFINE q == AfterSettled(n, s)
<1>10. Keeps(n, q)
  BY <1>2, <1>9, SettledKeeps, GoodShaped DEF Well
<1> HIDE DEF q
<1>11. GoodSaved(q, inbox) /\ q.ask = r.ask /\ (~failed /\ faults = 0 => ~q.revived /\ Kept(q, inbox))
  <2>1. GoodSaved(q, inbox) /\ Stays(n, q)
    BY <1>2, <1>9, <1>10, KeepsStays DEF Well, GoodSaved
  <2> QED BY <1>9, <1>10, <2>1, KeepsKept DEF Well, Good, Carried, Stays
<1>12. GoodSaved(rt', inbox) /\ rt'.ask = rt.ask /\ (faults' = 0 => ~rt'.revived /\ Kept(rt', inbox))
  BY <1>1, <1>3, <1>6, <1>7, <1>11 DEF q, Alright, Stays
<1> QED BY <1>1, <1>2, <1>3, <1>12, StepGood DEF Alright

-----------------------------------------------------------------------------
(* The user's commands *)

LEMMA StepCommand ==
  ASSUME IInv, inbox' = inbox, host' = host, faults' = faults, ~Starting, Well(rt'),
         rt'.ask # None => rt'.ask.status # "complete",
         ~rt.revived /\ Kept(rt, inbox) => ~rt'.revived /\ Kept(rt', inbox)
  PROVE  IInv'
BY FaultsNat, StepGood DEF IInv, Well, GoodSaved

LEMMA StepStops ==
  ASSUME IInv, inbox' = inbox, host' = host, faults' = faults, ~Starting, Well(rt'),
         rt'.ask = None, Stops(rt, rt')
  PROVE  IInv'
<1>1. ~rt.revived => ~rt'.revived /\ Kept(rt', inbox)
  BY StopsKept DEF IInv, Good, Carried
<1> QED BY <1>1, StepCommand

\* While the Host is free nothing waits that would have to be stopped.
LEMMA StepFree ==
  ASSUME IInv, inbox' = inbox, host' = host, faults' = faults, ~Starting, Free, Well(rt'),
         rt'.ask = None, rt'.revived = rt.revived
  PROVE  IInv'
<1>1. Kept(rt', inbox)
  BY DEF Kept, Continues, Free
<1> QED BY <1>1, StepCommand

\* A Goal replaced by another stops what was on its way for it.
LEMMA ReplacedWell ==
  ASSUME NEW r, Good(r, inbox), NEW c, IsMemory(c), Others(r, c), Cancelled(r, c), Sensible(c), ~IsGoal(None)
  PROVE  Well(Persist(c)) /\ Stops(r, Persist(c)) /\ PersistFields(c, Persist(c)) /\ Persist(c).ask = r.ask
<1>1. Good(c, inbox)
  BY OthersGood
<1>2. Well(Persist(c)) /\ PersistFields(c, Persist(c))
  BY <1>1, PersistWell, PersistedFields, GoodShaped
<1> QED BY <1>2 DEF Stops, Others, Cancelled, PersistFields, SameWork

LEMMA SteadyStops ==
  ASSUME NEW r, NEW c, NEW q, Stops(r, c), Steady(c, q)
  PROVE  Stops(r, q) /\ q.ask = c.ask
BY DEF Stops, Steady

LEMMA StartsWell ==
  ASSUME NEW r, Well(r), NEW budget, NEW back, NEW queue,
         back # None => IsGoal(back) /\ back.status # "complete" /\ IsQueue(queue),
         ~IsGoal(None), IsBox(inbox), ~IsFiniteSet(Marks)
  PROVE  LET q == Starts(r, budget, back, queue) IN Well(q) /\ Stops(r, q) /\ q.ask = r.ask
<1> DEFINE e == Superseded(r)
           g == NewGoal(FreshId(r), "active", budget)
           c == [e EXCEPT !.queue = <<>>, !.pending = None, !.goal = g]
           q == SendOwned(Persist(c), "start", FALSE, back, queue, TRUE, "manual")
<1>1. IsMemory(e) /\ Others(r, e) /\ Cancelled(r, e)
  BY SupersededFields DEF Well, Good
<1>2. IsGoal(g) /\ g.status = "active"
  BY NewIsGoal
<1> HIDE DEF e, g
<1>3. /\ IsMemory(c) /\ Others(e, c) /\ SameWork(e, c)
      /\ c.goal = g /\ c.queue = <<>> /\ c.pending = None
  BY <1>1 DEF IsMemory, Others, SameWork
<1>4. Starts(r, budget, back, queue) = q
  BY DEF Starts, q, c, e, g
<1> HIDE DEF c, Fields
<1>5. Sensible(c)
  BY <1>2, <1>3, EmptyIsQueue DEF Sensible, IsChange, Pending
<1>6. Others(r, c) /\ Cancelled(r, c)
  BY <1>1, <1>3 DEF Others, Cancelled, SameWork
<1>7. Well(Persist(c)) /\ Stops(r, Persist(c)) /\ Persist(c).ask = r.ask
  BY <1>3, <1>5, <1>6, ReplacedWell DEF Well
<1>8. \A s : s.op = "start" /\ s.back = back /\ s.queue = queue => SendOK(s)
  BY DEF SendOK, PromptOps
<1>9. \A settle, reset, origin :
        LET z == SendOwned(Persist(c), "start", settle, back, queue, reset, origin)
        IN  Well(z) /\ Steady(Persist(c), z)
  BY <1>7, <1>8, SendOwnedWell DEF PromptOps
<1>10. Well(q) /\ Steady(Persist(c), q)
  BY <1>9, Zenon
<1> HIDE DEF q
<1> QED BY <1>4, <1>7, <1>10, SteadyStops

LEMMA CommandFacts ==
  ASSUME IInv, Command
  PROVE  /\ inbox' = inbox /\ host' = host /\ faults' = faults /\ ~Starting /\ rt.ask = None
         /\ Well(rt) /\ IsMemory(rt) /\ Sensible(rt) /\ IsBox(inbox) /\ Shaped(rt) /\ IsQueue(rt.queue)
BY InvWell, InvAlright DEF Command, IInv, Good, Sensible

LEMMA StartStep ==
  ASSUME IInv, NEW budget, Start(budget), NoneIsNoRecord, ~IsFiniteSet(Marks)
  PROVE  IInv'
BY NoneIsNoGoal, CommandFacts, StartsWell, StepStops DEF Start, Change

LEMMA AskWell ==
  ASSUME NEW r, Well(r), NEW a
  PROVE  LET q == [r EXCEPT !.ask = a]
         IN  /\ Well(q) /\ q.ask = a /\ q.goal = r.goal /\ q.queue = r.queue /\ q.revived = r.revived
             /\ SameWork(r, q)
<1> DEFINE q == [r EXCEPT !.ask = a]
<1>1. /\ IsMemory(q) /\ q.ask = a /\ q.goal = r.goal /\ q.queue = r.queue /\ q.pending = r.pending
      /\ q.saved = r.saved /\ q.sends = r.sends /\ q.prompts = r.prompts /\ q.revived = r.revived
      /\ q.claimed = r.claimed /\ q.conts = r.conts /\ SameWork(r, q)
  BY DEF Well, Good, IsMemory, SameWork
<1> HIDE DEF q, Fields
<1>2. Sensible(q) /\ SavedOK(q) /\ Finite(q) /\ Proper(q) = Proper(r)
  BY <1>1 DEF Well, Good, Sensible, SavedOK, Same, Pending, Finite, SameWork, Proper
<1>3. Good(q, inbox)
  BY <1>1, <1>2, RebuiltGood DEF Well, Active
<1> QED BY <1>1, <1>2, <1>3 DEF Well, q

LEMMA StartAsksStep == ASSUME IInv, StartAsks PROVE IInv'
<1> DEFINE a == [goal |-> rt.goal.id, status |-> rt.goal.status, queue |-> QueueIds(rt.queue), pending |-> rt.pending]
<1>1. Command /\ Unfinished /\ rt' = [rt EXCEPT !.ask = a]
  BY DEF StartAsks, Change
<1>2. a.status # "complete"
  BY <1>1 DEF Unfinished
<1> HIDE DEF a
<1>3. /\ Well(rt') /\ rt'.ask = a /\ rt'.goal = rt.goal /\ rt'.revived = rt.revived /\ SameWork(rt, rt')
  BY <1>1, CommandFacts, AskWell
<1>4. Kept(rt, inbox) => Kept(rt', inbox)
  BY <1>3 DEF Kept, SameWork, ActiveAs, Active
<1> QED BY <1>1, <1>2, <1>3, <1>4, CommandFacts, StepCommand

LEMMA AnsweredStep ==
  ASSUME IInv, NEW budget, Answered(budget), NoneIsNoRecord, ~IsFiniteSet(Marks)
  PROVE  IInv'
<1> DEFINE c == [rt EXCEPT !.ask = None]
           g == [rt.goal EXCEPT !.status = rt.ask.status]
<1>1. /\ rt.ask # None /\ inbox' = inbox /\ host' = host /\ faults' = faults
      /\ rt' = c \/ (Asked /\ rt' = Starts(c, budget, g, rt.queue))
  BY DEF Answered
<1>2. ~Starting /\ ~IsGoal(None) /\ Well(rt) /\ IsBox(inbox) /\ rt.ask.status # "complete" /\ IsQueue(rt.queue)
  BY <1>1, NoneIsNoGoal, InvWell DEF IInv, Unstartedly, Good, Sensible
<1>3. Well(c) /\ c.ask = None /\ c.goal = rt.goal /\ c.queue = rt.queue /\ c.revived = rt.revived /\ SameWork(rt, c)
  BY <1>2, AskWell
<1>4. Asked => IsGoal(g) /\ g.status # "complete"
  BY <1>2 DEF Asked, IsGoal, Well, Good, Sensible
<1> HIDE DEF c, g
<1>5. CASE rt' = c
  <2>1. Kept(rt, inbox) => Kept(rt', inbox)
    BY <1>3, <1>5 DEF Kept, SameWork, ActiveAs, Active
  <2> QED BY <1>1, <1>2, <1>3, <1>5, <2>1, StepCommand
<1>6. CASE Asked /\ rt' = Starts(c, budget, g, rt.queue)
  <2>1. Well(rt') /\ Stops(c, rt') /\ rt'.ask = None
    BY <1>2, <1>3, <1>4, <1>6, StartsWell
  <2>2. Stops(rt, rt')
    BY <1>3, <2>1 DEF Stops, SameWork
  <2> QED BY <1>1, <1>2, <2>1, <2>2, StepStops
<1> QED BY <1>1, <1>5, <1>6

LEMMA AddStep == ASSUME IInv, NEW budget, Add(budget), NoneIsNoRecord PROVE IInv'
<1> DEFINE g == NewGoal(FreshId(rt), "queued", budget)
           c == [rt EXCEPT !.queue = Append(@, g)]
<1>1. Command /\ rt.goal # None /\ Len(rt.queue) < MaxQueued /\ rt.pending = None
  BY DEF Add, Change
<1>2. /\ inbox' = inbox /\ host' = host /\ faults' = faults /\ ~Starting /\ rt.ask = None
      /\ Well(rt) /\ IsMemory(rt) /\ Sensible(rt) /\ IsQueue(rt.queue) /\ ~IsGoal(None)
  BY <1>1, CommandFacts, NoneIsNoGoal
<1>3. rt' = Persist(c)
  BY DEF Add
<1>4. IsGoal(g) /\ g.status # "complete"
  BY NewIsGoal
<1> HIDE DEF g
<1>5. IsQueue(Append(rt.queue, g))
  BY <1>1, <1>2, <1>4, QueueLast
<1>6. /\ IsMemory(c) /\ Others(rt, c) /\ SameWork(rt, c)
      /\ c.goal = rt.goal /\ c.queue = Append(rt.queue, g) /\ c.pending = rt.pending
  BY <1>2 DEF IsMemory, Others, SameWork
<1> HIDE DEF c, Fields
<1>7. Sensible(c)
  BY <1>1, <1>2, <1>5, <1>6 DEF Sensible, Pending
<1>8. Good(c, inbox)
  BY <1>2, <1>6, <1>7, OthersGood DEF Well, Active
<1>9. Well(rt') /\ PersistFields(c, rt')
  BY <1>2, <1>3, <1>8, PersistWell, PersistedFields, GoodShaped
<1>10. /\ rt'.ask = None /\ rt'.revived = rt.revived /\ rt'.cancelled = rt.cancelled /\ rt'.goal = rt.goal
  BY <1>2, <1>6, <1>9 DEF PersistFields, Others, SameWork
<1>11. Kept(rt, inbox) => Kept(rt', inbox)
  BY <1>10 DEF Kept, ActiveAs, Active
<1> QED BY <1>2, <1>9, <1>10, <1>11, StepCommand

LEMMA SendOwnedStops ==
  ASSUME NEW r, NEW c, Well(c), Stops(r, c), IsBox(inbox), ~IsFiniteSet(Marks),
         NEW op \in PromptOps, NEW settle, NEW back, NEW queue, NEW reset, NEW origin,
         \A s : s.op = op /\ s.back = back /\ s.queue = queue => SendOK(s)
  PROVE  LET q == SendOwned(c, op, settle, back, queue, reset, origin)
         IN  Well(q) /\ Stops(r, q) /\ q.ask = c.ask /\ IsMemory(q)
<1> DEFINE q == SendOwned(c, op, settle, back, queue, reset, origin)
<1>1. Well(q) /\ Steady(c, q)
  BY SendOwnedWell
<1> HIDE DEF q
<1>2. Stops(r, q) /\ q.ask = c.ask /\ IsMemory(q)
  BY <1>1, SteadyStops DEF Steady
<1> QED BY <1>1, <1>2 DEF q

\* What a command leaves that stopped what was on its way, now or when the Host is idle.
LEMMA StepWaits ==
  ASSUME IInv, Command, NEW r, Well(r), Stops(rt, r), r.ask = None, NoneIsNoRecord, ~IsFiniteSet(Marks),
         rt' = IF Free THEN Dispatched(r, FALSE) ELSE r
  PROVE  IInv'
<1>1. /\ inbox' = inbox /\ host' = host /\ faults' = faults /\ ~Starting /\ rt.ask = None /\ IsBox(inbox)
  BY CommandFacts
<1>2. CASE Free
  <2>1. \A settle : Well(Dispatched(r, settle)) /\ Onward(r, Dispatched(r, settle))
    BY <1>1, DispatchedWell, NoneIsNoGoal
  <2>2. Well(rt') /\ Onward(r, rt')
    BY <1>2, <2>1, Zenon
  <2>3. rt'.ask = None /\ rt'.revived = rt.revived
    BY <2>2 DEF Onward, Stops
  <2> QED BY <1>1, <1>2, <2>2, <2>3, StepFree
<1>3. CASE ~Free
  BY <1>1, <1>3, StepStops
<1> QED BY <1>2, <1>3

LEMMA PrioritizeStep ==
  ASSUME IInv, NEW budget, Prioritize(budget), NoneIsNoRecord, ~IsFiniteSet(Marks)
  PROVE  IInv'
<1> DEFINE e == CancelWork(rt)
           change == [kind |-> "prioritize", budget |-> budget, finalized |-> FALSE]
           c == [e EXCEPT !.pending = change]
<1>1. Command /\ rt.goal # None /\ rt.pending = None
  BY DEF Prioritize, Change
<1>2. rt' = IF Free THEN Dispatched(Persist(c), FALSE) ELSE Persist(c)
  BY DEF Prioritize
<1>3. Well(rt) /\ IsMemory(rt) /\ Sensible(rt) /\ Shaped(rt) /\ rt.ask = None /\ ~IsGoal(None) /\ Good(rt, inbox)
  BY <1>1, CommandFacts, NoneIsNoGoal DEF Well
<1>4. /\ IsMemory(e) /\ Others(rt, e) /\ Cancelled(rt, e) /\ e.goal = rt.goal /\ e.queue = rt.queue
  BY <1>3 DEF IsMemory, Others, CancelWork, Cancelled
<1>5. IsChange(change) /\ change.kind = "prioritize"
  BY DEF IsChange
<1>6. change # None
  <2>1. change = [f \in {"kind", "budget", "finalized"} |-> change[f]]
    OBVIOUS
  <2> HIDE DEF change
  <2> QED BY <2>1 DEF NoneIsNoRecord
<1> HIDE DEF e, change
<1>7. /\ IsMemory(c) /\ Others(rt, c) /\ Cancelled(rt, c)
      /\ c.goal = rt.goal /\ c.queue = rt.queue /\ c.pending = change
  BY <1>4 DEF IsMemory, Others, Cancelled
<1> HIDE DEF c, Fields
<1>8. Sensible(c)
  BY <1>1, <1>3, <1>5, <1>6, <1>7 DEF Sensible, Pending
<1>9. Well(Persist(c)) /\ Stops(rt, Persist(c)) /\ Persist(c).ask = None
  BY <1>3, <1>7, <1>8, ReplacedWell
<1> QED BY <1>1, <1>2, <1>9, StepWaits

LEMMA ClearStep == ASSUME IInv, Clear, NoneIsNoRecord PROVE IInv'
<1>1. Others(rt, rt) /\ SameWork(rt, rt)
  BY DEF Others, SameWork
<1>2. Command /\ rt' = Cleared(rt)
  BY DEF Clear
<1> QED BY <1>1, <1>2, CommandFacts, ClearedWell, StepStops DEF Well

LEMMA ShowStep == ASSUME IInv, Show, NoneIsNoRecord PROVE IInv'
<1>1. Command /\ rt' = Persist(Charge(rt))
  BY DEF Show
<1>2. ~Starting'
  BY <1>1, CommandFacts DEF Starting
<1> QED BY <1>1, <1>2, CommandFacts, NoneIsNoGoal, KeepsCharged, StepKeeps, FaultsNat

LEMMA DropLastStep == ASSUME IInv, DropLast, NoneIsNoRecord PROVE IInv'
<1> DEFINE c == [rt EXCEPT !.queue = Front(@)]
<1>1. Command /\ rt.goal # None /\ rt.pending = None
  BY DEF DropLast, Change
<1>2. /\ inbox' = inbox /\ host' = host /\ faults' = faults /\ ~Starting /\ rt.ask = None
      /\ Well(rt) /\ IsMemory(rt) /\ Sensible(rt) /\ IsQueue(rt.queue) /\ ~IsGoal(None)
  BY <1>1, CommandFacts, NoneIsNoGoal
<1>3. CASE rt.queue = <<>>
  <2>1. Others(rt, rt) /\ SameWork(rt, rt)
    BY DEF Others, SameWork
  <2>2. rt' = Cleared(rt)
    BY <1>3 DEF DropLast
  <2> QED BY <1>2, <2>1, <2>2, ClearedWell, StepStops DEF Well
<1>4. CASE rt.queue # <<>>
  <2>1. rt' = Persist(c)
    BY <1>4 DEF DropLast
  <2>2. IsQueue(Front(rt.queue))
    BY <1>2, <1>4, QueueFront
  <2>3. /\ IsMemory(c) /\ Others(rt, c) /\ SameWork(rt, c)
        /\ c.goal = rt.goal /\ c.queue = Front(rt.queue) /\ c.pending = rt.pending
    BY <1>2 DEF IsMemory, Others, SameWork
  <2> HIDE DEF c, Fields
  <2>4. Sensible(c)
    BY <1>1, <1>2, <2>2, <2>3 DEF Sensible, Pending
  <2>5. Good(c, inbox)
    BY <1>2, <2>3, <2>4, OthersGood DEF Well, Active
  <2>6. Well(rt') /\ PersistFields(c, rt')
    BY <1>2, <2>1, <2>5, PersistWell, PersistedFields, GoodShaped
  <2>7. /\ rt'.ask = None /\ rt'.revived = rt.revived /\ rt'.cancelled = rt.cancelled /\ rt'.goal = rt.goal
    BY <1>2, <2>3, <2>6 DEF PersistFields, Others, SameWork
  <2>8. Kept(rt, inbox) => Kept(rt', inbox)
    BY <2>7 DEF Kept, ActiveAs, Active
  <2> QED BY <1>2, <2>6, <2>7, <2>8, StepCommand
<1> QED BY <1>3, <1>4

LEMMA PauseStep == ASSUME IInv, Pause, NoneIsNoRecord PROVE IInv'
<1> DEFINE b == Charge(rt)
           c == CancelWork(b)
           q == [c EXCEPT !.wrapUp = None, !.stale = TRUE, !.abort = TRUE, !.goal = Transition(@, "paused")]
<1>1. Command /\ Active(rt) /\ rt' = Persist(q)
  BY DEF Pause, Change
<1>2. Shaped(rt) /\ ~IsGoal(None) /\ ~Starting /\ inbox' = inbox /\ host' = host /\ faults' = faults
  BY <1>1, CommandFacts, NoneIsNoGoal
<1>3. Keeps(rt, b) /\ Shaped(b) /\ b.goal # None
  BY <1>1, <1>2, KeepsCharge, KeepsShaped DEF Keeps, Active
<1> HIDE DEF b
<1>4. Keeps(b, c) /\ Cancelled(b, c)
  BY <1>3, KeepsCancel
<1> HIDE DEF c
<1>5. Beside(c, q) /\ q.goal = Transition(c.goal, "paused")
  BY <1>4 DEF Keeps, IsMemory, Beside, SameWork
<1> HIDE DEF q
<1>6. Keeps(b, Persist(q))
  BY <1>2, <1>3, <1>4, <1>5, KeepsStopped
<1>7. Keeps(rt, rt')
  BY <1>1, <1>2, <1>3, <1>6, KeepsOn
<1>8. ~Starting'
  BY <1>2 DEF Starting
<1> QED BY <1>2, <1>7, <1>8, StepKeeps, FaultsNat

LEMMA ResumeStep == ASSUME IInv, Resume, NoneIsNoRecord, ~IsFiniteSet(Marks) PROVE IInv'
<1> DEFINE h == Transition(rt.goal, "active")
           g == [Rebased(h) EXCEPT !.id = FreshId(rt), !.reset = TRUE]
           e == Superseded(rt)
           c == [e EXCEPT !.goal = g]
<1>1. Command /\ rt.goal # None /\ rt.pending = None /\ rt.goal.status \in Stopped \cup {"budget_limited"}
  BY DEF Resume, Change
<1>2. /\ inbox' = inbox /\ host' = host /\ faults' = faults /\ ~Starting /\ rt.ask = None
      /\ Well(rt) /\ IsMemory(rt) /\ Sensible(rt) /\ ~IsGoal(None) /\ IsBox(inbox) /\ Good(rt, inbox)
  BY <1>1, CommandFacts, NoneIsNoGoal DEF Well
<1>3. rt' = SendOwned(Persist(c), "resume", FALSE, rt.goal, <<>>, TRUE, "manual")
  BY DEF Resume
<1>4. IsGoal(rt.goal) /\ rt.goal.status \notin {"active", "complete"}
  BY <1>1, <1>2 DEF Sensible, Stopped
<1>5. IsGoal(h) /\ h.status # "complete"
  BY <1>4, TransitionGoal
<1> HIDE DEF h
<1>6. IsGoal(Rebased(h)) /\ Rebased(h).status # "complete"
  BY <1>5, RebasedGoal
<1>7. IsGoal(g) /\ g.status # "complete"
  BY <1>6 DEF IsGoal
<1> HIDE DEF g
<1>8. /\ IsMemory(e) /\ Others(rt, e) /\ Cancelled(rt, e) /\ e.queue = rt.queue /\ e.pending = rt.pending
  BY <1>2, SupersededFields
<1> HIDE DEF e
<1>9. /\ IsMemory(c) /\ Others(rt, c) /\ Cancelled(rt, c)
      /\ c.goal = g /\ c.queue = rt.queue /\ c.pending = rt.pending
  BY <1>8 DEF IsMemory, Others, Cancelled
<1> HIDE DEF c, Fields
<1>10. Sensible(c)
  BY <1>1, <1>2, <1>7, <1>9 DEF Sensible, Pending
<1>11. Well(Persist(c)) /\ Stops(rt, Persist(c)) /\ Persist(c).ask = None
  BY <1>2, <1>9, <1>10, ReplacedWell
<1>12. \A s : s.op = "resume" /\ s.back = rt.goal /\ s.queue = <<>> => SendOK(s)
  BY <1>4 DEF SendOK, PromptOps
<1>13. \A settle, reset, origin :
         LET z == SendOwned(Persist(c), "resume", settle, rt.goal, <<>>, reset, origin)
         IN  Well(z) /\ Stops(rt, z) /\ z.ask = None
  BY <1>2, <1>11, <1>12, SendOwnedStops DEF PromptOps
<1>14. Well(rt') /\ Stops(rt, rt') /\ rt'.ask = None
  BY <1>3, <1>13, Zenon
<1> QED BY <1>2, <1>14, StepStops

LEMMA EditedGoal ==
  ASSUME NEW r, IsGoal(r.goal), NEW budget
  PROVE  IsGoal(Edited(r, budget)) /\ Edited(r, budget).status \notin {"complete"}
<1> DEFINE b == [r.goal EXCEPT !.id = FreshId(r), !.budget = IF budget = None THEN @ ELSE budget]
           status == EditedStatus(r.goal.status)
           g == Transition(b, status)
           h == IF g.status = "active" THEN [g EXCEPT !.reset = TRUE] ELSE g
<1>1. IsGoal(b)
  BY DEF IsGoal
<1>2. status # "complete"
  BY DEF EditedStatus, Stopped
<1> HIDE DEF b, status
<1>3. IsGoal(g) /\ g.status # "complete"
  BY <1>1, <1>2, TransitionGoal
<1> HIDE DEF g
<1>4. IsGoal(h) /\ h.status # "complete"
  BY <1>3 DEF IsGoal
<1> HIDE DEF h
<1>5. Edited(r, budget) = Rebased(h)
  BY DEF Edited, h, g, b, status
<1> QED BY <1>4, <1>5, RebasedGoal

LEMMA EditStep ==
  ASSUME IInv, NEW budget, Edit(budget), NoneIsNoRecord, ~IsFiniteSet(Marks)
  PROVE  IInv'
<1> DEFINE c == Charge(rt)
           g == Edited(c, budget)
           e == CancelWork(c)
           d == [e EXCEPT !.recovery = None, !.wrapUp = None, !.goal = g]
           r == Persist(d)
           stale == g.status \in Stopped
           p == [r EXCEPT !.stale = FALSE]
           q == [r EXCEPT !.stale = stale]
<1>1. Command /\ rt.goal # None /\ rt.pending = None
  BY DEF Edit, Change
<1>2. /\ inbox' = inbox /\ host' = host /\ faults' = faults /\ ~Starting /\ rt.ask = None
      /\ Well(rt) /\ IsMemory(rt) /\ Sensible(rt) /\ ~IsGoal(None) /\ IsBox(inbox) /\ Good(rt, inbox) /\ Shaped(rt)
  BY <1>1, CommandFacts, NoneIsNoGoal DEF Well
<1>3. rt' = IF g.status = "active" THEN SendOwned(p, "edit", FALSE, c.goal, <<>>, TRUE, "manual") ELSE q
  BY DEF Edit
<1>4. /\ IsMemory(c) /\ Others(rt, c) /\ SameWork(rt, c) /\ IsGoal(c.goal) /\ c.goal.status = rt.goal.status
      /\ c.queue = rt.queue /\ c.pending = rt.pending
  BY <1>1, <1>2 DEF Charge, IsMemory, Others, SameWork, IsGoal, Sensible
<1>5. c.goal.status # "complete"
  BY <1>1, <1>2, <1>4 DEF Sensible
<1> HIDE DEF c
<1>6. IsGoal(g) /\ g.status # "complete"
  BY <1>4, EditedGoal
<1> HIDE DEF g
<1>7. /\ IsMemory(e) /\ Others(rt, e) /\ Cancelled(rt, e) /\ e.queue = rt.queue /\ e.pending = rt.pending
  BY <1>4 DEF IsMemory, Others, CancelWork, Cancelled, SameWork
<1> HIDE DEF e
<1>8. /\ IsMemory(d) /\ Others(rt, d) /\ Cancelled(rt, d)
      /\ d.goal = g /\ d.queue = rt.queue /\ d.pending = rt.pending
  BY <1>7 DEF IsMemory, Others, Cancelled
<1> HIDE DEF d, Fields
<1>9. Sensible(d)
  BY <1>1, <1>2, <1>6, <1>8 DEF Sensible, Pending
<1>10. Well(r) /\ Stops(rt, r) /\ r.ask = None
  BY <1>2, <1>8, <1>9, ReplacedWell
<1> HIDE DEF r, stale
<1>11. ASSUME NEW v PROVE Well([r EXCEPT !.stale = v]) /\ Stops(rt, [r EXCEPT !.stale = v]) /\ [r EXCEPT !.stale = v].ask = None
  <2> DEFINE z == [r EXCEPT !.stale = v]
  <2>1. Shaped(r) /\ IsMemory(r)
    BY <1>10, GoodShaped DEF Well, Good
  <2>2. Well(z)
    BY <1>2, <1>10, <2>1, KeepsSet, KeepsWell
  <2>3. z.revived = r.revived /\ z.cancelled = r.cancelled /\ z.ask = r.ask
    BY <2>1 DEF IsMemory, Fields
  <2> QED BY <1>10, <2>2, <2>3 DEF Stops
<1>12. Well(p) /\ Stops(rt, p) /\ p.ask = None
  BY <1>11, Zenon
<1>13. Well(q) /\ Stops(rt, q) /\ q.ask = None
  BY <1>11
<1> HIDE DEF p, q
<1>14. \A s : s.op = "edit" /\ s.back = c.goal /\ s.queue = <<>> => SendOK(s)
  BY <1>4, <1>5 DEF SendOK, PromptOps
<1>15. \A settle, reset, origin :
         LET z == SendOwned(p, "edit", settle, c.goal, <<>>, reset, origin)
         IN  Well(z) /\ Stops(rt, z) /\ z.ask = None
  BY <1>2, <1>12, <1>14, SendOwnedStops DEF PromptOps
<1>16. LET z == SendOwned(p, "edit", FALSE, c.goal, <<>>, TRUE, "manual")
       IN  Well(z) /\ Stops(rt, z) /\ z.ask = None
  BY <1>15, Zenon
<1>17. Well(rt') /\ Stops(rt, rt') /\ rt'.ask = None
  BY <1>3, <1>13, <1>16, Zenon
<1> QED BY <1>2, <1>17, StepStops

LEMMA SkipStep == ASSUME IInv, Skip, NoneIsNoRecord, ~IsFiniteSet(Marks) PROVE IInv'
<1> DEFINE b == IF Active(rt) THEN Charge(rt) ELSE rt
           e == Superseded(b)
           change == [kind |-> "advance", goal |-> rt.goal.id, reason |-> "skip"]
           c == [e EXCEPT !.pending = change]
<1>1. Command /\ rt.goal # None /\ rt.pending = None
  BY DEF Skip, Change
<1>2. rt' = IF rt.queue = <<>> THEN Cleared(rt) ELSE IF Free THEN Dispatched(Persist(c), FALSE) ELSE Persist(c)
  BY DEF Skip
<1>3. /\ inbox' = inbox /\ host' = host /\ faults' = faults /\ ~Starting
      /\ Well(rt) /\ IsMemory(rt) /\ Sensible(rt) /\ rt.ask = None /\ ~IsGoal(None) /\ Good(rt, inbox)
  BY <1>1, CommandFacts, NoneIsNoGoal DEF Well
<1>4. CASE rt.queue = <<>>
  <2>1. Others(rt, rt) /\ SameWork(rt, rt)
    BY DEF Others, SameWork
  <2> QED BY <1>2, <1>3, <1>4, <2>1, ClearedWell, StepStops
<1>5. CASE rt.queue # <<>>
  <2>1. /\ IsMemory(b) /\ Others(rt, b) /\ SameWork(rt, b) /\ IsGoal(b.goal)
        /\ b.goal.status = rt.goal.status /\ b.goal.id = rt.goal.id /\ b.queue = rt.queue
    BY <1>1, <1>3 DEF Charge, IsMemory, Others, SameWork, IsGoal, Sensible
  <2> HIDE DEF b
  <2>2. /\ IsMemory(e) /\ Others(rt, e) /\ Cancelled(rt, e) /\ e.goal = b.goal /\ e.queue = rt.queue
    <3> HIDE DEF Fields
    <3> QED BY <2>1, SupersededFields DEF Others, Cancelled, SameWork
  <2>3. /\ change # None /\ change.kind = "advance" /\ change.goal = rt.goal.id /\ IsChange(change)
    BY NoneIsNoChange DEF IsChange
  <2> HIDE DEF e, change
  <2>4. /\ IsMemory(c) /\ Others(rt, c) /\ Cancelled(rt, c)
        /\ c.goal = b.goal /\ c.queue = rt.queue /\ c.pending = change
    BY <2>2 DEF IsMemory, Others, Cancelled
  <2> HIDE DEF c, Fields
  <2>5. Sensible(c)
    BY <1>3, <2>1, <2>3, <2>4 DEF Sensible, Pending
  <2>6. Well(Persist(c)) /\ Stops(rt, Persist(c)) /\ Persist(c).ask = None
    BY <1>3, <2>4, <2>5, ReplacedWell
  <2>7. rt' = IF Free THEN Dispatched(Persist(c), FALSE) ELSE Persist(c)
    BY <1>2, <1>5
  <2> QED BY <1>1, <2>6, <2>7, StepWaits
<1> QED BY <1>4, <1>5

-----------------------------------------------------------------------------
(* What every step keeps *)

LEMMA UserActsStep ==
  ASSUME IInv, UserActs, NoneIsNoRecord, ~IsFiniteSet(Marks)
  PROVE  IInv'
BY UserPromptsStep, UserInterruptsStep, ReloadsStep, UserQueuesStep, StartAsksStep, DropLastStep, SkipStep,
   PauseStep, ResumeStep, ShowStep, ClearStep, StartStep, AnsweredStep, AddStep, PrioritizeStep, EditStep
   DEF UserActs

LEMMA HostActsStep ==
  ASSUME IInv, HostActs, NoneIsNoRecord, ~IsFiniteSet(Marks)
  PROVE  IInv'
BY SessionStartsStep, DrainStep, DeliverStep, AbortsStep, TurnEndsStep, ToolDoneStep, CompleteCalledStep,
   BlockedCalledStep, AgentEndsStep, RetriesStep, SettledStep DEF HostActs

LEMMA NextStep ==
  ASSUME IInv, Next, NoneIsNoRecord, ~IsFiniteSet(Marks)
  PROVE  IInv'
<1>1. ModelActs => IInv'
  BY ReplyStep, AnswerStep DEF ModelActs
<1>2. PromptEnds => IInv'
  BY SentStep, UnsentStep DEF PromptEnds
<1> QED BY <1>1, <1>2, UserActsStep, HostActsStep, AgentsFinishStep, ResultsArriveStep, CrashesStep DEF Next

LEMMA StutterStep == ASSUME IInv, UNCHANGED vars PROVE IInv'
<1>1. /\ rt' = rt /\ inbox' = inbox /\ tokens' = tokens /\ host' = host /\ faults' = faults
  BY DEF vars
<1> HIDE DEF Fields
<1> QED BY <1>1 DEF IInv, FirstContinues, Unstartedly, Starting

\* Memory, saved copy, prompts under preparation and messages on their way agree
\* after any steps of the user, the model, the Host and the other Capabilities.
THEOREM Invariance ==
  ASSUME NoneIsNoRecord, ~IsFiniteSet(Marks)
  PROVE  Spec => []IInv
<1>1. Init => IInv
  BY InitInv
<1>2. IInv /\ [Next]_vars => IInv'
  BY NextStep, StutterStep
<1> QED BY <1>1, <1>2, PTL DEF Spec

\* There are never two continuations on their way that would both do work: one that
\* newer work has not cancelled is the delivery (prompt-ownership.ts).
THEOREM ContinuedOnce ==
  ASSUME NoneIsNoRecord, ~IsFiniteSet(Marks)
  PROVE  Spec => []OneContinuation
<1>1. IInv => OneContinuation
  <2> SUFFICES ASSUME IInv, ~rt.revived PROVE Cardinality(Underway \ rt.cancelled) <= 1
    BY DEF OneContinuation
  <2> DEFINE U == Underway \ rt.cancelled
             D == {rt.delivery.mark}
  <2>1. \A x \in ContMarks(rt, inbox) \ rt.cancelled : x \in D
    BY DEF IInv, Good, Carried, OneDelivery
  <2>2. Underway \subseteq ContMarks(rt, inbox)
    BY DEF Underway, ContMarks, Continues, ToSet
  <2>3. U \subseteq D
    BY <2>1, <2>2
  <2> HIDE DEF U
  <2>4. IsFiniteSet(D) /\ Cardinality(D) = 1
    BY FS_Singleton
  <2>5. Cardinality(U) <= Cardinality(D)
    BY <2>3, <2>4, FS_Subset
  <2> QED BY <2>4, <2>5 DEF U
<1> QED BY <1>1, Invariance, PTL

\* A Session that starts after the process ended at any point goes on with the Goal,
\* the queue and the pending change that were in memory (persistGoal).
THEOREM LiveIsSaved ==
  ASSUME NoneIsNoRecord, ~IsFiniteSet(Marks)
  PROVE  Spec => []SavedIsLive
<1>1. IInv => SavedIsLive
  <2> SUFFICES ASSUME IInv, ~Refused(rt.saved)
               PROVE  Loadable(rt.saved) /\ Identity(rt.saved) = Identity(rt)
    BY DEF SavedIsLive, Refused
  <2>1. Sensible(rt.saved) /\ Same(rt.saved, rt)
    BY DEF IInv, SavedOK
  <2>2. Loadable(rt.saved)
    BY <2>1, UnloadedIsRefused
  <2>3. GoalId(rt.saved.goal) = GoalId(rt.goal) /\ rt.saved.queue = rt.queue /\ rt.saved.pending = rt.pending
    BY <2>1 DEF Same, GoalId
  <2>4. Active(rt.saved) = Active(rt)
    BY <2>1 DEF Same, Active
  <2> QED BY <2>2, <2>3, <2>4 DEF Identity
<1> QED BY <1>1, Invariance, PTL

LEMMA StoppingAborts ==
  ASSUME NEW r, IsMemory(r), NEW owned, owned
  PROVE  Stopping(r, owned).abort
<1>1. Stopping(r, owned).abort = (r.abort \/ owned)
  BY DEF IsMemory, Stopping
<1> QED BY <1>1, Zenon

\* A message that belongs to a Goal: its marker is one that Goal still answers for.
Known(r, m) ==
  \/ m.kind = "prompt" /\ \E p \in r.prompts : p.mark = m.mark /\ p.goal = m.goal
  \/ m.kind = "continue" /\ m.mark \in r.cancelled
  \/ m.kind = "continue" /\ ActiveAs(r, m.goal) /\ r.delivery # None /\ r.delivery.mark = m.mark

LEMMA StaleAborts ==
  ASSUME NEW r0, IsMemory(r0), Sensible(r0), NEW m, Known(r0, m), ~(r0.pending = None /\ ActiveAs(r0, m.goal)),
         ~IsGoal(None), NoneIsNoRecord
  PROVE  BeginPromptRun(r0, m).abort
<1> DEFINE r1     == NoRun(r0)
           r2     == [r1 EXCEPT !.recovery = None, !.guard = None]
           r      == Claim(r2, m)
           owners == Owners(r1, m)
           kept   == {c.mark : c \in r.conts}
           owned  == owners # {} \/ (m.kind = "continue" /\ m.mark \in kept)
           origin == IF owners = {} THEN "automatic" ELSE (CHOOSE p \in owners : TRUE).origin
<1>1. /\ IsMemory(r1) /\ r1.goal = r0.goal /\ r1.pending = r0.pending /\ r1.delivery = r0.delivery
      /\ r1.cancelled = r0.cancelled /\ r1.prompts = r0.prompts
  BY DEF IsMemory, NoRun
<1> HIDE DEF r1
<1>2. ASSUME NEW q, IsMemory(q)
      PROVE  IsMemory(Foreigner(q)) /\ \A id, o : IsMemory(RunFor(q, id, o))
  <2>1. IsMemory(Foreigner(q))
    BY <1>2 DEF IsMemory, Foreigner
  <2>2. ASSUME NEW id, NEW o PROVE IsMemory(RunFor(q, id, o))
    BY <1>2 DEF IsMemory, RunFor
  <2> QED BY <2>1, <2>2
<1>3. CASE m.kind = "continue" /\ m.mark \in r1.cancelled
  <2> DEFINE q == [r1 EXCEPT !.cancelled = @ \ {m.mark}]
  <2>1. IsMemory(Foreigner(q))
    BY <1>1, <1>2 DEF IsMemory
  <2>2. BeginPromptRun(r0, m) = Stopping(Foreigner(q), TRUE)
    BY <1>3 DEF BeginPromptRun, r1
  <2> HIDE DEF q
  <2>3. \A w : w => Stopping(Foreigner(q), w).abort
    BY <2>1, StoppingAborts
  <2> QED BY <2>2, <2>3, Zenon
<1>4. CASE m.kind = "prompt"
  <2> DEFINE q == [r1 EXCEPT !.prompts = @ \ owners]
  <2>1. IsMemory(Foreigner(q))
    BY <1>1, <1>2 DEF IsMemory
  <2>2. StalePrompt(r1, m)
    BY <1>1, <1>4 DEF StalePrompt, Known, ActiveAs, Active
  <2>3. BeginPromptRun(r0, m) = Stopping(Foreigner(q), TRUE)
    BY <1>4, <2>2 DEF BeginPromptRun, r1, owners
  <2> HIDE DEF q
  <2>4. \A w : w => Stopping(Foreigner(q), w).abort
    BY <2>1, StoppingAborts
  <2> QED BY <2>3, <2>4, Zenon
<1>5. CASE m.kind = "continue" /\ m.mark \notin r1.cancelled
  <2>1. ActiveAs(r0, m.goal) /\ r0.delivery # None /\ r0.delivery.mark = m.mark /\ r0.pending # None
    BY <1>1, <1>5 DEF Known
  <2>2. ~StalePrompt(r1, m) /\ Owners(r2, m) = {}
    BY <1>5 DEF StalePrompt, Owners
  <2>3. /\ IsMemory(r2) /\ r2.goal = r0.goal /\ r2.pending = r0.pending /\ r2.delivery = r0.delivery
    BY <1>1 DEF IsMemory
  <2> HIDE DEF r2
  <2>4. r = [r2 EXCEPT !.delivery = None, !.conts = @ \cup {[goal |-> m.goal, mark |-> m.mark]}]
    BY <1>5, <2>1, <2>2, <2>3 DEF Claim, ContinuationStarted
  <2>5. IsMemory(r) /\ r.goal = r0.goal /\ r.pending = r0.pending /\ [goal |-> m.goal, mark |-> m.mark] \in r.conts
    BY <2>3, <2>4 DEF IsMemory
  <2> HIDE DEF r
  <2>6. owned
    BY <1>5, <2>5
  <2>7. r.goal # None /\ IsGoal(r.goal) /\ r.goal.status = "active" /\ ~ActiveWrapUp(r)
    BY <2>1, <2>5 DEF ActiveAs, Active, ActiveWrapUp, Sensible
  <2>8. /\ ~(m.kind = "continue" /\ m.mark \in r1.cancelled)
    BY <1>5
  <2> HIDE DEF owned, origin
  <2>9. CASE r.pending.kind = "prioritize"
    <3>1. BeginPromptRun(r0, m) = Stopping(Foreigner(DisplacedUsage(r)), owned)
      BY <2>1, <2>2, <2>5, <2>7, <2>8, <2>9 DEF BeginPromptRun, Pending, r, r2, r1, owners, kept, owned
    <3>2. IsChange(r.pending) /\ Pending(r, "prioritize")
      BY <2>1, <2>5, <2>9 DEF Sensible, Pending
    <3>3. IsMemory(DisplacedUsage(r))
      BY <2>5, <2>7, <3>2, KeepsDisplaced DEF Shaped, Keeps
    <3> QED BY <1>2, <2>6, <3>1, <3>3, StoppingAborts
  <2>10. CASE r.pending.kind = "advance"
    <3>1. HasGoal(r, r.pending.goal) /\ Pending(r, "advance") /\ ~Pending(r, "prioritize")
      BY <2>1, <2>5, <2>7, <2>10 DEF HasGoal, Sensible, Pending
    <3>2. BeginPromptRun(r0, m) = Stopping(RunFor(r, IF owned THEN m.goal ELSE r.goal.id, origin), owned)
      BY <2>2, <2>7, <2>8, <3>1 DEF BeginPromptRun, r, r2, r1, owners, kept, owned, origin
    <3> QED BY <1>2, <2>5, <2>6, <3>2, StoppingAborts
  <2>11. r.pending.kind \in {"prioritize", "advance"}
    BY <2>1, <2>5 DEF Sensible, IsChange
  <2> QED BY <2>9, <2>10, <2>11
<1>6. m.kind \in {"prompt", "continue"}
  BY DEF Known
<1> QED BY <1>3, <1>4, <1>5, <1>6

\* A prompt or continuation that arrives too late does no work: Goal still knows its
\* marker, and aborts the run (beginPromptRun).
THEOREM StaleAlwaysStopped ==
  ASSUME NoneIsNoRecord, ~IsFiniteSet(Marks)
  PROVE  Spec => StaleWorkIsStopped
<1> DEFINE m == Head(inbox)
           Step == Deliver /\ m.kind \in {"prompt", "continue"} /\ ~(rt.pending = None /\ ActiveAs(rt, m.goal))
                     => rt'.abort \/ faults > 0
<1>1. IInv => Step
  <2> SUFFICES ASSUME IInv, Deliver, m.kind \in {"prompt", "continue"}, ~(rt.pending = None /\ ActiveAs(rt, m.goal)),
                      ~(faults > 0)
               PROVE  rt'.abort
    OBVIOUS
  <2>1. faults = 0
    BY FaultsNat
  <2>2. inbox # <<>> /\ IsBox(inbox) /\ IsMemory(rt) /\ Sensible(rt) /\ Carried(rt, inbox) /\ ~IsGoal(None)
    BY NoneIsNoGoal DEF Deliver, IInv, Good
  <2>3. m = inbox[1] /\ 1 \in DOMAIN inbox
    BY <2>2, DeliveredBox
  <2> DEFINE c == [rt EXCEPT !.mirror = SelectSeq(@, LAMBDA b : b # "idle")]
  <2>4. /\ IsMemory(c) /\ c.goal = rt.goal /\ c.queue = rt.queue /\ c.pending = rt.pending
        /\ c.delivery = rt.delivery /\ c.cancelled = rt.cancelled /\ c.prompts = rt.prompts
    BY <2>2 DEF IsMemory
  <2>5. rt' = BeginPromptRun(c, m)
    BY DEF Deliver, MessageStart
  <2> HIDE DEF c, m, Fields
  <2>6. Sensible(c) /\ ~(c.pending = None /\ ActiveAs(c, m.goal))
    BY <2>2, <2>4 DEF Sensible, Pending, ActiveAs, Active
  <2>7. Known(rt, m)
    <3>1. CASE m.kind = "prompt"
      BY <2>2, <2>3, <3>1 DEF Carried, Recorded, Known
    <3>2. CASE m.kind = "continue" /\ m.mark \notin rt.cancelled
      <4>1. 1 \in Continues(inbox) /\ inbox[1].mark = m.mark
        BY <2>3, <3>2 DEF Continues
      <4>2. ActiveAs(rt, m.goal) /\ ~rt.revived
        BY <2>1, <2>3, <3>2, <4>1 DEF IInv, Kept
      <4>3. m.mark \in ContMarks(rt, inbox) \ rt.cancelled
        BY <3>2, <4>1 DEF ContMarks
      <4> QED BY <2>2, <3>2, <4>2, <4>3 DEF Carried, OneDelivery, Known
    <3> QED BY <3>1, <3>2 DEF Known
  <2>8. Known(c, m)
    BY <2>4, <2>7 DEF Known, ActiveAs, Active
  <2> QED BY <2>2, <2>4, <2>5, <2>6, <2>8, StaleAborts
<1> HIDE DEF Step
<1>2. Step => [Step]_vars
  OBVIOUS
<1> QED BY <1>1, <1>2, Invariance, PTL DEF StaleWorkIsStopped, Step
=============================================================================
