------------------------ MODULE CodeModeLedgerProofs ------------------------
(***************************************************************************)
(* Proofs about CodeModeLedger, for any Tools, any number of calls, runs   *)
(* and faults, and commands that overlap or not: no effect is repeated,    *)
(* and none that requires approval happens without it.                     *)
(***************************************************************************)
EXTENDS CodeModeLedger, WellFoundedInduction, TLAPS

\* A call is invoked only as its record leaves "pending" or is created, and
\* a pending call of a running execution has been approved.
Accounted(s) ==
  /\ ~Known(s) => started[s] = <<>>
  /\ Known(s) /\ calls[s].status = "pending" =>
       started[s] = <<>> /\ (status = "running" => s \in approved)
  /\ Known(s) /\ calls[s].name \notin Reexecute => Len(started[s]) <= 1
  /\ Known(s) /\ calls[s].name \in Approval /\ started[s] # <<>> => s \in approved

\* A run does not settle its execution as running.
Concludes(c) == passes[c].phase = "decided" => passes[c].outcome # "running"

IInv ==
  /\ TypeOK
  /\ \A s \in Seqs : Accounted(s)
  /\ \A c \in Passes : Concludes(c)

LEMMA Initially == Init => IInv
<1> SUFFICES ASSUME Init PROVE IInv
  OBVIOUS
<1>1. TypeOK
  <2>1. passes \in [Passes -> Pass]
    BY BoundAssumption DEF Init, NewPass, Pass, ExecutionStatus
  <2>2. started \in [Seqs -> Seq(Flight)] /\ undone \in [Seqs -> Nat]
    BY DEF Init
  <2>3. rollback \in [phase : {"idle", "undo", "record"}, todo : SUBSET Seqs, failed : BOOLEAN]
    BY DEF Init, IdleRollback
  <2> QED BY <2>1, <2>2, <2>3 DEF Init, TypeOK, ExecutionStatus
<1>2. \A s \in Seqs : Accounted(s)
  BY DEF Init, Accounted, Known
<1>3. \A c \in Passes : Concludes(c)
  BY DEF Init, Concludes, NewPass
<1> QED BY <1>1, <1>2, <1>3 DEF IInv

-----------------------------------------------------------------------------
(* Types *)

\* What one invocation more does to the invocations of a call.
LEMMA Appended ==
  ASSUME NEW S, NEW old \in Seq(S), NEW x \in S, NEW new, new = Append(old, x)
  PROVE  /\ Len(old) \in Nat /\ Len(new) = Len(old) + 1
         /\ new[Len(old) + 1] = x /\ new # <<>>
  OBVIOUS

LEMMA AdvanceType ==
  ASSUME TypeOK, NEW c \in Passes, Plans(c)
  PROVE  /\ passes[c].cursor \in Seqs
         /\ Advance(c) \in [Passes -> Pass]
<1>1. /\ passes \in [Passes -> Pass] /\ passes[c] \in Pass
      /\ passes[c].cursor < MaxCalls /\ passes[c].cursor \in 0 .. MaxCalls
  BY DEF TypeOK, Plans, Pass
<1>2. passes[c].cursor \in Seqs /\ passes[c].cursor + 1 \in 0 .. MaxCalls
  BY <1>1, BoundAssumption DEF Seqs
<1>3. [passes[c] EXCEPT !.cursor = @ + 1] \in Pass
  BY <1>1, <1>2 DEF Pass
<1> QED BY <1>1, <1>2, <1>3 DEF Advance

LEMMA FinishType ==
  ASSUME TypeOK, NEW c \in Passes, NEW wanted \in ExecutionStatus, wanted # "running",
         Finish(c, wanted)
  PROVE  status' \in ExecutionStatus /\ status' # "running" /\ attempt' \in Nat
<1>1. passes[c].attempt \in Nat /\ attempt \in Nat
  BY DEF TypeOK, Pass
<1>2. "incomplete" \in ExecutionStatus
  BY DEF ExecutionStatus
<1> QED BY <1>1, <1>2 DEF Finish

LEMMA DecideType ==
  ASSUME TypeOK, NEW c \in Passes, NEW ending \in {"success", "error", "cancelled"}
  PROVE  Decide(c, ending) \in ExecutionStatus /\ Decide(c, ending) # "running"
BY DEF Decide, ExecutionStatus

-----------------------------------------------------------------------------
(* What keeps a call accounted for *)

LEMMA Untouched ==
  ASSUME NEW s \in Seqs, Accounted(s),
         calls'[s] = calls[s], started'[s] = started[s], approved \subseteq approved',
         status' = "running" => status = "running" \/ Pending \subseteq approved'
  PROVE  Accounted(s)'
BY DEF Accounted, Known, Pending

LEMMA Settled ==
  ASSUME NEW s \in Seqs, Accounted(s), Known(s), calls[s] \in CallState,
         calls[s].status # "pending",
         Known(s)', calls'[s].name = calls[s].name, calls'[s].status # "pending",
         started'[s] = started[s], approved \subseteq approved'
  PROVE  Accounted(s)'
BY DEF Accounted, Known

-----------------------------------------------------------------------------
(* The actions of a pass *)

LEMMA PlanKeeps ==
  ASSUME IInv, NEW c \in Passes, PlanCall(c)
  PROVE  IInv'
<1>1. Plans(c)
  BY DEF PlanCall, PlanPauses, PlanStrays, PlanDiverges, PlanRefused, PlanReplays, PlanUncertain, PlanAsks,
         PlanStarts
<1>2. passes[c].cursor \in Seqs /\ Advance(c) \in [Passes -> Pass]
  BY <1>1, AdvanceType DEF IInv
<1>3. passes \in [Passes -> Pass] /\ passes[c].phase = "live"
  BY <1>1 DEF IInv, TypeOK, Plans
<1> DEFINE s == passes[c].cursor
           f == [pass |-> c, attempt |-> passes[c].attempt, seq |-> s, held |-> FALSE]
           g == [pass |-> c, attempt |-> passes[c].attempt, seq |-> s, held |-> TRUE]
<1>4. f \in Flight /\ g \in Flight /\ passes[c].attempt \in Nat
  BY <1>2, <1>3 DEF Flight, Pass
<1>5. \A d \in Passes : Advance(c)[d].phase = passes[d].phase /\ Advance(c)[d].outcome = passes[d].outcome
  BY <1>3 DEF Advance, Pass
<1>6. ASSUME NEW t \in Tools, PlanPauses(c, t) \/ PlanStrays(c, t)
      PROVE  IInv'
  <2>1. passes' = Advance(c) /\ (flights' = flights \/ flights' = flights \cup {g})
    BY <1>6 DEF PlanPauses, PlanStrays
  <2>2. UNCHANGED <<execution, calls, rollback, faults, history>>
    BY <1>6 DEF PlanPauses, PlanStrays
  <2>3. TypeOK'
    BY <1>2, <1>4, <2>1, <2>2 DEF IInv, TypeOK, execution, history
  <2> QED BY <1>5, <2>1, <2>2, <2>3, Untouched DEF IInv, execution, history, Concludes
<1>7. CASE PlanDiverges(c)
  <2>1. status' \in ExecutionStatus /\ status' # "running" /\ attempt' \in Nat
    BY <1>7, FinishType DEF PlanDiverges, IInv, ExecutionStatus
  <2> QED BY <1>2, <1>5, <1>7, <2>1, Untouched DEF PlanDiverges, IInv, TypeOK, history, Concludes
<1>8. CASE PlanRefused(c)
  BY <1>2, <1>5, <1>8, Untouched DEF PlanRefused, IInv, TypeOK, execution, Concludes
<1>9. ASSUME NEW t \in Tools, PlanReplays(c, t)
      PROVE  IInv'
  BY <1>2, <1>5, <1>9, Untouched DEF PlanReplays, IInv, TypeOK, execution, history, Concludes
<1>10. ASSUME NEW t \in Tools, PlanUncertain(c, t)
       PROVE  IInv'
  <2>1. /\ passes' \in [Passes -> Pass]
        /\ \A d \in Passes : passes'[d].phase = passes[d].phase /\ passes'[d].outcome = passes[d].outcome
    <3>1. passes' = [Advance(c) EXCEPT ![c].incomplete = TRUE]
      BY <1>10 DEF PlanUncertain
    <3>2. Advance(c)[c] \in Pass
      BY <1>2
    <3>3. [Advance(c)[c] EXCEPT !.incomplete = TRUE] \in Pass
      BY <3>2 DEF Pass
    <3> QED BY <1>2, <1>5, <3>1, <3>2, <3>3 DEF Pass
  <2>2. /\ status' \in ExecutionStatus /\ attempt' \in Nat
        /\ status' = "running" => status = "running"
    BY <1>10, FinishType DEF PlanUncertain, IInv, ExecutionStatus, execution, TypeOK
  <2>3. faults' \in Nat
    BY <1>10 DEF PlanUncertain, Fault, IInv, TypeOK
  <2> QED BY <1>10, <2>1, <2>2, <2>3, Untouched DEF PlanUncertain, IInv, TypeOK, history, Concludes
<1>11. ASSUME NEW t \in Tools, PlanAsks(c, t)
       PROVE  IInv'
  <2>1. Opened(c, t, "pending") \in CallState
    BY <1>4 DEF Opened, CallState
  <2>2. /\ calls' = [calls EXCEPT ![s] = Opened(c, t, "pending")]
        /\ status' = "paused" /\ passes' = Advance(c)
        /\ started[s] = <<>>
    BY <1>2, <1>11 DEF PlanAsks, IInv, Accounted
  <2>3. attempt' \in Nat
    BY <1>4, <1>11 DEF PlanAsks, Larger, IInv, TypeOK
  <2>4. TypeOK'
    BY <1>2, <1>11, <2>1, <2>2, <2>3 DEF PlanAsks, IInv, TypeOK, history, ExecutionStatus
  <2>5. ASSUME NEW q \in Seqs PROVE Accounted(q)'
    <3>1. CASE q = s
      BY <1>2, <1>11, <2>1, <2>2, <3>1
      DEF PlanAsks, IInv, TypeOK, history, Accounted, Known, Opened
    <3>2. CASE q # s
      BY <1>11, <2>2, <3>2, Untouched DEF PlanAsks, IInv, TypeOK, history
    <3> QED BY <3>1, <3>2
  <2> QED BY <1>5, <2>2, <2>4, <2>5 DEF IInv, Concludes
<1>12. ASSUME NEW t \in Tools, PlanStarts(c, t)
       PROVE  IInv'
  <2>1. Opened(c, t, "running") \in CallState
    BY <1>4 DEF Opened, CallState
  <2>2. /\ calls' = [calls EXCEPT ![s] = Opened(c, t, "running")]
        /\ started' = [started EXCEPT ![s] = Append(@, f)]
        /\ passes' = Advance(c) /\ flights' = flights \cup {f}
    BY <1>12 DEF PlanStarts
  <2>3. attempt' \in Nat
    BY <1>4, <1>12 DEF PlanStarts, Larger, IInv, TypeOK
  <2>4. started' \in [Seqs -> Seq(Flight)] /\ started[s] \in Seq(Flight)
    BY <1>2, <1>4, <2>2 DEF IInv, TypeOK
  <2>5. TypeOK'
    <3>1. calls' \in [Seqs -> CallState \cup {NoCall}]
      BY <1>2, <2>1, <2>2 DEF IInv, TypeOK
    <3>2. passes' \in [Passes -> Pass] /\ flights' \subseteq Flight
      BY <1>2, <1>4, <2>2 DEF IInv, TypeOK
    <3>3. UNCHANGED <<status, rollback, faults, undone, approved, rejected, unrecorded, refused>>
      BY <1>12 DEF PlanStarts
    <3>. HIDE DEF f
    <3> QED BY <2>3, <2>4, <3>1, <3>2, <3>3 DEF IInv, TypeOK
  <2>6. ASSUME NEW q \in Seqs PROVE Accounted(q)'
    <3>1. CASE q = s
      <4>1. /\ calls'[q] = Opened(c, t, "running") /\ started'[q] = Append(started[q], f)
            /\ started[q] \in Seq(Flight) /\ approved' = approved
        BY <1>2, <1>12, <2>2, <2>4, <3>1 DEF PlanStarts, IInv, TypeOK
      <4>2. Known(q)' /\ calls'[q].name = t /\ calls'[q].status = "running"
        <5>1. calls'[q] \in CallState
          BY <2>1, <4>1
        <5>2. calls'[q] # NoCall
          BY <5>1, NoCallAssumption
        <5> QED BY <4>1, <5>2 DEF Known, Opened
      <4>3. t \notin Reexecute => started[q] = <<>> /\ (t \in Approval => q \in approved)
        <5>1. CASE Known(q)
          BY <1>2, <1>12, <3>1, <5>1 DEF PlanStarts, Held, Repeatable, IInv, Accounted
        <5>2. CASE ~Known(q)
          BY <1>2, <1>12, <3>1, <5>2 DEF PlanStarts, IInv, Accounted
        <5> QED BY <5>1, <5>2
      <4>4. t \in Approval => t \notin Reexecute
        BY PolicyAssumption
      <4>5. started[q] = <<>> => Len(started'[q]) = 1
        BY <1>4, <4>1
      <4> QED BY <4>1, <4>2, <4>3, <4>4, <4>5 DEF Accounted
    <3>2. CASE q # s
      BY <1>12, <2>2, <3>2, Untouched DEF PlanStarts, IInv, TypeOK
    <3> QED BY <3>1, <3>2
  <2> QED BY <1>5, <2>2, <2>5, <2>6 DEF IInv, Concludes
<1> QED BY <1>6, <1>7, <1>8, <1>9, <1>10, <1>11, <1>12 DEF PlanCall

LEMMA RunKeeps ==
  ASSUME IInv, NEW c \in Passes, RunStep(c)
  PROVE  IInv'
<1>1. passes \in [Passes -> Pass] /\ passes[c] \in Pass /\ attempt \in Nat
  BY DEF IInv, TypeOK
<1>2. CASE RetryPass(c)
  <2>1. NewPass("live", passes[c].attempt + 1) \in Pass
    BY <1>1, BoundAssumption DEF NewPass, Pass, ExecutionStatus
  <2>2. passes' = [passes EXCEPT ![c] = NewPass("live", passes[c].attempt + 1)]
    BY <1>2 DEF RetryPass
  <2>3. passes' \in [Passes -> Pass] /\ \A d \in Passes : Concludes(d)'
    BY <1>1, <2>1, <2>2 DEF IInv, Concludes, NewPass
  <2> QED BY <1>2, <2>3, Untouched DEF RetryPass, IInv, TypeOK, execution, history
<1>3. ASSUME passes' = [passes EXCEPT ![c].phase = "done"]
      PROVE  passes' \in [Passes -> Pass] /\ \A d \in Passes : Concludes(d)'
  <2>1. [passes[c] EXCEPT !.phase = "done"] \in Pass
    BY <1>1 DEF Pass
  <2> QED BY <1>1, <1>3, <2>1 DEF IInv, Concludes, Pass
<1>4. ASSUME NEW ending \in {"success", "error", "cancelled"}, PassThrows(c, ending)
      PROVE  IInv'
  <2>1. status' \in ExecutionStatus /\ status' # "running" /\ attempt' \in Nat
    BY <1>4, FinishType, DecideType DEF PassThrows, IInv
  <2> QED BY <1>3, <1>4, <2>1, Untouched DEF PassThrows, IInv, TypeOK, history
<1>5. ASSUME NEW ending \in {"success", "error", "cancelled"}, PassEnds(c, ending)
      PROVE  IInv'
  <2>1. Decide(c, ending) \in ExecutionStatus /\ Decide(c, ending) # "running"
    BY DecideType DEF IInv
  <2>2. passes' = [passes EXCEPT ![c].phase = "decided", ![c].outcome = Decide(c, ending)]
    BY <1>5 DEF PassEnds
  <2>3. [passes[c] EXCEPT !.phase = "decided", !.outcome = Decide(c, ending)] \in Pass
    BY <1>1, <2>1 DEF Pass
  <2>4. passes' \in [Passes -> Pass] /\ \A d \in Passes : Concludes(d)'
    BY <1>1, <2>1, <2>2, <2>3 DEF IInv, Concludes, Pass
  <2> QED BY <1>5, <2>4, Untouched DEF PassEnds, IInv, TypeOK, execution, history
<1>6. CASE SettleRun(c)
  <2>1. passes[c].outcome \in ExecutionStatus /\ passes[c].outcome # "running"
    BY <1>1, <1>6 DEF SettleRun, IInv, Concludes, Pass
  <2>2. status' \in ExecutionStatus /\ status' # "running" /\ attempt' \in Nat
    BY <1>6, <2>1, FinishType DEF SettleRun, IInv, ExecutionStatus
  <2> QED BY <1>3, <1>6, <2>2, Untouched DEF SettleRun, IInv, TypeOK, history
<1>7. CASE SettleFails(c)
  BY <1>3, <1>7, Untouched DEF SettleFails, Fault, IInv, TypeOK, execution, history
<1> QED BY <1>2, <1>4, <1>5, <1>6, <1>7 DEF RunStep

-----------------------------------------------------------------------------
(* Settlements, the loss of the Host and restarts *)

\* A call of which only the status, and not from "pending", or its
\* compensation changes.
LEMMA StatusType ==
  ASSUME TypeOK, NEW s \in Seqs, Known(s), NEW result \in {"success", "error"}
  PROVE  /\ calls[s] \in CallState
         /\ [calls[s] EXCEPT !.status = result] \in CallState
         /\ [calls[s] EXCEPT !.compensated = TRUE] \in CallState
BY DEF TypeOK, Known, CallState

LEMMA SettlementKeeps ==
  ASSUME IInv, Settlement
  PROVE  IInv'
<1>1. PICK f \in flights :
        ReturnUnrecorded(f) \/ \E result \in {"success", "error"} : Return(f, result)
  BY DEF Settlement
<1>2. f \in Flight /\ f.seq \in Seqs /\ f.pass \in Passes
  BY DEF IInv, TypeOK, Flight
<1>3. CASE ReturnUnrecorded(f)
  <2>1. passes' = [passes EXCEPT ![f.pass].incomplete = TRUE]
    BY <1>3 DEF ReturnUnrecorded
  <2>2. passes[f.pass] \in Pass /\ [passes[f.pass] EXCEPT !.incomplete = TRUE] \in Pass
    <3>1. passes[f.pass] \in Pass
      BY <1>2 DEF IInv, TypeOK
    <3> QED BY <3>1 DEF Pass
  <2>3. passes \in [Passes -> Pass] /\ \A d \in Passes : Concludes(d)
    BY DEF IInv, TypeOK
  <2>4. passes' \in [Passes -> Pass]
    BY <1>2, <2>1, <2>2, <2>3
  <2>5. \A d \in Passes : Concludes(d)'
    BY <1>2, <2>1, <2>2, <2>3 DEF Concludes, Pass
  <2> QED BY <1>2, <1>3, <2>4, <2>5, Untouched DEF ReturnUnrecorded, IInv, TypeOK, execution
<1>4. ASSUME NEW result \in {"success", "error"}, Return(f, result)
      PROVE  IInv'
  <2>1. CASE Records(f, result)
    <3>1. calls' = [calls EXCEPT ![f.seq].status = result] /\ UNCHANGED <<status, started, approved>>
      BY <1>4, <2>1 DEF Return, execution, history
    <3>2. /\ Known(f.seq) /\ calls[f.seq] \in CallState /\ calls[f.seq].status = "running"
          /\ [calls[f.seq] EXCEPT !.status = result] \in CallState
      BY <1>2, <2>1, StatusType DEF Records, Matches, IInv
    <3>3. calls \in [Seqs -> CallState \cup {NoCall}]
      BY DEF IInv, TypeOK
    <3>4. calls'[f.seq] = [calls[f.seq] EXCEPT !.status = result]
      BY <1>2, <3>1, <3>3
    <3>5. calls'[f.seq] # NoCall
      BY <3>2, <3>4, NoCallAssumption
    <3>6. calls'[f.seq].name = calls[f.seq].name /\ calls'[f.seq].status = result
      BY <3>2, <3>4 DEF CallState
    <3>7. calls' \in [Seqs -> CallState \cup {NoCall}]
      BY <1>2, <3>1, <3>2, <3>3
    <3>8. ASSUME NEW q \in Seqs PROVE Accounted(q)'
      <4>1. CASE q = f.seq
        BY <3>1, <3>2, <3>5, <3>6, <4>1, Settled DEF IInv, Known
      <4>2. CASE q # f.seq
        BY <3>1, <3>3, <4>2, Untouched DEF IInv
      <4> QED BY <4>1, <4>2
    <3> QED BY <1>4, <3>7, <3>8 DEF Return, IInv, TypeOK, execution, history, Concludes
  <2>2. CASE ~Records(f, result)
    BY <1>4, <2>2, Untouched DEF Return, IInv, TypeOK, execution, history, Concludes
  <2> QED BY <2>1, <2>2
<1> QED BY <1>1, <1>3, <1>4

LEMMA LossKeeps ==
  ASSUME IInv, HostLoss
  PROVE  IInv'
<1> DEFINE settled == {f \in flights : ~IsStep(f) /\ Records(f, "error")}
           seqs == {f.seq : f \in settled}
<1>1. \A s \in seqs : s \in Seqs /\ Known(s) /\ calls[s].status = "running"
  BY DEF IInv, TypeOK, Flight, Records, Matches
<1>2. /\ calls' = [s \in Seqs |->
                     IF s \in seqs THEN [calls[s] EXCEPT !.status = "error"] ELSE calls[s]]
      /\ UNCHANGED <<status, attempt, started, approved>>
  BY DEF HostLoss, execution
<1>3. calls \in [Seqs -> CallState \cup {NoCall}]
  BY DEF IInv, TypeOK
<1>4. ASSUME NEW s \in Seqs
      PROVE  calls'[s] \in CallState \cup {NoCall} /\ Accounted(s)'
  <2>1. CASE s \in seqs
    <3>1. calls'[s] = [calls[s] EXCEPT !.status = "error"]
      BY <1>2, <2>1
    <3>2. calls[s] \in CallState /\ calls'[s] \in CallState
      BY <1>1, <2>1, <3>1, StatusType DEF IInv
    <3>3. calls'[s] # NoCall
      BY <3>2, NoCallAssumption
    <3>4. calls'[s].name = calls[s].name /\ calls'[s].status = "error"
      BY <3>1, <3>2 DEF CallState
    <3> QED BY <1>1, <1>2, <2>1, <3>2, <3>3, <3>4, Settled DEF IInv, Known
  <2>2. CASE s \notin seqs
    BY <1>2, <1>3, <2>2, Untouched DEF IInv
  <2> QED BY <2>1, <2>2
<1>5. calls' \in [Seqs -> CallState \cup {NoCall}]
  BY <1>2, <1>4
<1>6. passes' \in [Passes -> Pass] /\ \A d \in Passes : Concludes(d)'
  <2>1. ASSUME NEW d \in Passes
        PROVE  [passes[d] EXCEPT !.phase = "lost"] \in Pass
    BY DEF IInv, TypeOK, Pass
  <2>2. passes' = [d \in Passes |->
          IF passes[d].phase = "live" THEN [passes[d] EXCEPT !.phase = "lost"] ELSE passes[d]]
    BY DEF HostLoss
  <2> QED BY <2>1, <2>2 DEF IInv, TypeOK, Concludes, Pass
<1>8. /\ faults' \in Nat /\ flights' = {}
      /\ UNCHANGED <<rollback, undone, rejected, unrecorded, refused>>
  BY DEF HostLoss, Fault, IInv, TypeOK
<1>9. TypeOK'
  BY <1>2, <1>5, <1>6, <1>8 DEF IInv, TypeOK
<1> QED BY <1>4, <1>6, <1>9 DEF IInv

LEMMA RestartKeeps ==
  ASSUME IInv, Restart
  PROVE  IInv'
<1>1. passes' \in [Passes -> Pass] /\ \A d \in Passes : Concludes(d)'
  <2>1. ASSUME NEW d \in Passes
        PROVE  [passes[d] EXCEPT !.phase = "done"] \in Pass
    BY DEF IInv, TypeOK, Pass
  <2>2. passes' = [d \in Passes |->
          IF passes[d].phase = "none" THEN passes[d] ELSE [passes[d] EXCEPT !.phase = "done"]]
    BY DEF Restart
  <2> QED BY <2>1, <2>2 DEF IInv, TypeOK, Concludes, Pass
<1> QED BY <1>1, Untouched DEF Restart, Fault, IdleRollback, IInv, TypeOK, execution, history

-----------------------------------------------------------------------------
(* Commands *)

LEMMA NextTargetType ==
  ASSUME IInv, NEW failed \in BOOLEAN
  PROVE  NextTarget(failed) \in
           [phase : {"idle", "undo", "record"}, todo : SUBSET Seqs, failed : BOOLEAN]
BY DEF NextTarget, IInv, TypeOK

LEMMA CommandKeeps ==
  ASSUME IInv, Command
  PROVE  IInv'
<1>1. ASSUME NEW c \in Passes, Resume(c)
      PROVE  IInv'
  <2>1. NextAttempt \in Nat /\ NewPass("live", NextAttempt) \in Pass
    BY BoundAssumption DEF NextAttempt, NewPass, Pass, ExecutionStatus, IInv, TypeOK
  <2>2. passes' = [passes EXCEPT ![c] = NewPass("live", NextAttempt)]
    BY <1>1 DEF Resume
  <2>3. passes' \in [Passes -> Pass] /\ \A d \in Passes : Concludes(d)'
    BY <2>1, <2>2 DEF IInv, TypeOK, Concludes, NewPass
  <2>4. Pending \subseteq Seqs
    BY DEF Pending
  <2> QED BY <1>1, <2>1, <2>3, <2>4, Untouched DEF Resume, IInv, TypeOK, ExecutionStatus
<1>2. CASE Reject
  BY <1>2, Untouched DEF Reject, IInv, TypeOK, ExecutionStatus, Pending, Concludes
<1>3. CASE Abandon
  BY <1>3, Untouched DEF Abandon, IInv, TypeOK, ExecutionStatus, history, Concludes
<1>4. CASE Expire
  BY <1>4, Untouched DEF Expire, IInv, TypeOK, ExecutionStatus, history, Concludes
<1>5. CASE RollbackStarts
  BY <1>5, Untouched DEF RollbackStarts, IInv, TypeOK, execution, history, Concludes
<1>6. CASE Undo
  <2>1. rollback' \in [phase : {"idle", "undo", "record"}, todo : SUBSET Seqs, failed : BOOLEAN]
    BY <1>6 DEF Undo, IInv, TypeOK
  <2>2. undone' \in [Seqs -> Nat]
    <3>1. undone \in [Seqs -> Nat] /\ undone' = [undone EXCEPT ![Target] = @ + 1]
      BY <1>6 DEF Undo, IInv, TypeOK
    <3>2. CASE Target \in Seqs
      BY <3>1, <3>2
    <3>3. CASE Target \notin Seqs
      BY <3>1, <3>3
    <3> QED BY <3>2, <3>3
  <2>3. UNCHANGED <<execution, calls, passes, flights, faults, started, approved, rejected,
                    unrecorded, refused>>
    BY <1>6 DEF Undo
  <2>4. TypeOK'
    BY <2>1, <2>2, <2>3 DEF IInv, TypeOK, execution
  <2>5. ASSUME NEW s \in Seqs PROVE Accounted(s)'
    BY <2>3, Untouched DEF IInv, execution
  <2> QED BY <2>3, <2>4, <2>5 DEF IInv, Concludes
<1>7. CASE UndoFails
  BY <1>7, NextTargetType, Untouched DEF UndoFails, IInv, TypeOK, execution, history, Concludes
<1>8. CASE RecordUndone
  <2>1. rollback' \in [phase : {"idle", "undo", "record"}, todo : SUBSET Seqs, failed : BOOLEAN]
    BY <1>8, NextTargetType DEF RecordUndone
  <2>2. CASE Applied(Target) /\ Target \in Seqs
    <3> DEFINE s == Target
    <3>1. /\ calls' = [calls EXCEPT ![Target].compensated = TRUE] /\ status' = "compensated"
          /\ UNCHANGED <<started, approved>>
      BY <1>8, <2>2 DEF RecordUndone, history
    <3>2. /\ calls[Target] \in CallState /\ calls[Target].status = "success" /\ Known(Target)
          /\ [calls[Target] EXCEPT !.compensated = TRUE] \in CallState
      BY <2>2, StatusType DEF Applied, IInv
    <3>3. calls \in [Seqs -> CallState \cup {NoCall}]
      BY DEF IInv, TypeOK
    <3>4. calls' \in [Seqs -> CallState \cup {NoCall}]
      BY <2>2, <3>1, <3>2, <3>3
    <3>5. ASSUME NEW q \in Seqs PROVE Accounted(q)'
      <4>1. CASE q = Target
        <5>1. calls'[q] = [calls[q] EXCEPT !.compensated = TRUE]
          BY <2>2, <3>1, <3>3, <4>1
        <5>2. calls'[q] # NoCall
          BY <3>2, <4>1, <5>1, NoCallAssumption
        <5>3. calls'[q].name = calls[q].name /\ calls'[q].status = "success"
          BY <3>2, <4>1, <5>1 DEF CallState
        <5> QED BY <3>1, <3>2, <4>1, <5>2, <5>3, Settled DEF IInv, Known
      <4>2. CASE q # Target
        BY <3>1, <3>3, <4>2, Untouched DEF IInv
      <4> QED BY <4>1, <4>2
    <3>6. status' \in ExecutionStatus
      BY <3>1 DEF ExecutionStatus
    <3> QED BY <1>8, <2>1, <3>4, <3>5, <3>6 DEF RecordUndone, IInv, TypeOK, history, Concludes
  <2>3. CASE Applied(Target) /\ Target \notin Seqs
    <3>1. calls' = calls /\ status' = "compensated" /\ UNCHANGED <<started, approved>>
      BY <1>8, <2>3 DEF RecordUndone, IInv, TypeOK, history
    <3> QED BY <1>8, <2>1, <3>1, Untouched
            DEF RecordUndone, IInv, TypeOK, ExecutionStatus, history, Concludes
  <2>4. CASE ~Applied(Target)
    BY <1>8, <2>1, <2>4, Untouched DEF RecordUndone, IInv, TypeOK, history, Concludes
  <2> QED BY <2>2, <2>3, <2>4
<1>9. CASE RecordFails
  <2>1. /\ rollback' \in [phase : {"idle", "undo", "record"}, todo : SUBSET Seqs, failed : BOOLEAN]
        /\ faults' \in Nat
    <3>1. rollback' = NextTarget(TRUE)
      BY <1>9 DEF RecordFails
    <3>2. faults \in Nat /\ faults' = faults + 1
      BY <1>9 DEF RecordFails, Fault, IInv, TypeOK
    <3>3. rollback' \in [phase : {"idle", "undo", "record"}, todo : SUBSET Seqs, failed : BOOLEAN]
      <4>1. TRUE \in BOOLEAN
        OBVIOUS
      <4> QED BY <3>1, <4>1, NextTargetType
    <3>4. faults' \in Nat
      BY <3>2
    <3> QED BY <3>3, <3>4
  <2>2. UNCHANGED <<execution, calls, passes, flights, history>>
    BY <1>9 DEF RecordFails
  <2>3. TypeOK'
    BY <2>1, <2>2 DEF IInv, TypeOK, execution, history
  <2>4. ASSUME NEW s \in Seqs PROVE Accounted(s)'
    BY <2>2, Untouched DEF IInv, execution, history
  <2> QED BY <2>2, <2>3, <2>4 DEF IInv, Concludes
<1>10. CASE RollbackEnds
  BY <1>10, Untouched DEF RollbackEnds, IdleRollback, IInv, TypeOK, ExecutionStatus, history, Concludes
<1> QED BY <1>1, <1>2, <1>3, <1>4, <1>5, <1>6, <1>7, <1>8, <1>9, <1>10 DEF Command

-----------------------------------------------------------------------------
LEMMA Inductive == IInv /\ [Next]_vars => IInv'
<1> SUFFICES ASSUME IInv, [Next]_vars PROVE IInv'
  OBVIOUS
<1>1. CASE UNCHANGED vars
  BY <1>1, Untouched DEF vars, IInv, TypeOK, execution, history, Concludes
<1>2. CASE Next
  BY <1>2, PlanKeeps, RunKeeps, SettlementKeeps, LossKeeps, CommandKeeps, RestartKeeps DEF Next
<1> QED BY <1>1, <1>2

(* The inductive invariant of the ledger, its passes and its commands.     *)
THEOREM Invariance == Spec => []IInv
BY Initially, Inductive, PTL DEF Spec

(* The variables of CodeModeLedger keep their types.                       *)
THEOREM TypeCorrect == Spec => []TypeOK
<1>1. IInv => TypeOK
  BY DEF IInv
<1> QED BY <1>1, Invariance, PTL

(* replayExisting and completeToolCall: a call of a Tool that may not be   *)
(* executed again is invoked at most once, whatever the number of Host     *)
(* losses, restarts, approvals and overlapping commands.  Named steps are  *)
(* excepted: beginStep runs them also while their execution is held.       *)
THEOREM NoEffectRepeated == Spec => []EffectOnce
<1>1. IInv => EffectOnce
  BY DEF IInv, Accounted, EffectOnce
<1> QED BY <1>1, Invariance, PTL

(* planCall and resume: no Tool that requires approval is invoked before   *)
(* its recorded action was approved.                                       *)
THEOREM NoEffectUnapproved == Spec => []ApprovedFirst
<1>1. IInv => ApprovedFirst
  BY DEF IInv, Accounted, ApprovedFirst
<1> QED BY <1>1, Invariance, PTL

-----------------------------------------------------------------------------
(* When a command is entered only while no other one is at work (the Host
   decides it; controls.ts does not), at most one pass is at work: attempts
   are numbered upwards, a rejection is final, and a call whose result was
   lost blocks what comes after it. *)

Active(c) == passes[c].phase \in {"live", "lost", "decided"}

\* One pass at a time, and none after a rejection.
OneAtATime ==
  /\ \A c, d \in Passes : Active(c) /\ Active(d) => c = d
  /\ rejected # {} => /\ status \notin {"running", "paused"}
                      /\ \A c \in Passes : ~Active(c)

-----------------------------------------------------------------------------

\* The pass that plans a call is at work.
LEMMA PlanFrame ==
  ASSUME IInv, NEW c \in Passes, PlanCall(c)
  PROVE  /\ passes[c].phase = "live" /\ passes[c].cursor \in Seqs
         /\ \A d \in Passes : /\ passes'[d].phase = passes[d].phase
                              /\ passes'[d].attempt = passes[d].attempt
                              /\ d # c => passes'[d] = passes[d]
         /\ passes'[c].cursor = passes[c].cursor + 1
         /\ rejected' = rejected /\ approved' = approved
<1>1. Plans(c)
  BY DEF PlanCall, PlanPauses, PlanStrays, PlanDiverges, PlanRefused, PlanReplays,
         PlanUncertain, PlanAsks, PlanStarts
<1>2. /\ passes \in [Passes -> Pass] /\ passes[c] \in Pass
      /\ passes[c].cursor \in Seqs /\ Advance(c) \in [Passes -> Pass]
  BY <1>1, AdvanceType DEF IInv, TypeOK
<1>3. passes' = Advance(c) \/ passes' = [Advance(c) EXCEPT ![c].incomplete = TRUE]
  BY DEF PlanCall, PlanPauses, PlanStrays, PlanDiverges, PlanRefused, PlanReplays,
         PlanUncertain, PlanAsks, PlanStarts
<1>4. /\ Advance(c)[c] = [passes[c] EXCEPT !.cursor = @ + 1]
      /\ \A d \in Passes \ {c} : Advance(c)[d] = passes[d]
  BY <1>2 DEF Advance
<1>5. passes'[c] = Advance(c)[c] \/ passes'[c] = [Advance(c)[c] EXCEPT !.incomplete = TRUE]
  BY <1>2, <1>3
<1>6. \A d \in Passes \ {c} : passes'[d] = passes[d]
  BY <1>2, <1>3, <1>4
<1>7. /\ passes'[c].phase = passes[c].phase /\ passes'[c].attempt = passes[c].attempt
      /\ passes'[c].cursor = passes[c].cursor + 1
  BY <1>2, <1>4, <1>5 DEF Pass
<1>8. rejected' = rejected /\ approved' = approved
  BY DEF PlanCall, PlanPauses, PlanStrays, PlanDiverges, PlanRefused, PlanReplays,
         PlanUncertain, PlanAsks, PlanStarts, history
<1>. QED BY <1>1, <1>2, <1>6, <1>7, <1>8 DEF Plans

\* A step of a run concerns the pass at work and ends it or goes on with it.
LEMMA RunFrame ==
  ASSUME IInv, NEW c \in Passes, RunStep(c)
  PROVE  /\ Active(c) /\ \A d \in Passes \ {c} : passes'[d] = passes[d]
         /\ UNCHANGED <<calls, flights, history>>
<1>1. passes \in [Passes -> Pass]
  BY DEF IInv, TypeOK
<1>. QED BY <1>1 DEF RunStep, RetryPass, SettleRun, SettleFails, PassEnds, PassThrows,
     Active, history, execution

\* Settlements and losses end no pass and start none.
LEMMA SettlementFrame ==
  ASSUME IInv, Settlement \/ HostLoss \/ Restart
  PROVE  /\ \A d \in Passes : Active(d)' => Active(d)
         /\ UNCHANGED <<status, attempt, rejected, started, refused>>
<1>1. passes \in [Passes -> Pass]
  BY DEF IInv, TypeOK
<1>2. CASE Settlement
  <2>1. PICK f \in flights :
          ReturnUnrecorded(f) \/ \E result \in {"success", "error"} : Return(f, result)
    BY <1>2 DEF Settlement
  <2>2. f.pass \in Passes
    BY DEF IInv, TypeOK, Flight
  <2>3. passes' = passes \/ passes' = [passes EXCEPT ![f.pass].incomplete = TRUE]
    BY <2>1 DEF ReturnUnrecorded, Return
  <2>4. \A d \in Passes : passes'[d].phase = passes[d].phase
    BY <1>1, <2>2, <2>3 DEF Pass
  <2>. QED BY <2>1, <2>4 DEF Active, ReturnUnrecorded, Return, execution, history
<1>3. CASE HostLoss
  <2>1. \A d \in Passes :
          passes'[d] = passes[d] \/ passes[d].phase = "live"
    BY <1>3 DEF HostLoss
  <2>. QED BY <1>3, <2>1 DEF HostLoss, Active, execution
<1>4. CASE Restart
  <2>1. ASSUME NEW d \in Passes PROVE ~Active(d)'
    <3>1. [passes[d] EXCEPT !.phase = "done"].phase = "done"
      BY <1>1 DEF Pass
    <3>. QED BY <1>4, <3>1 DEF Restart, Active
  <2>. QED BY <1>4, <2>1 DEF Restart, execution, history
<1>. QED BY <1>2, <1>3, <1>4

LEMMA OneAtATimeInit == Init => OneAtATime
BY DEF Init, OneAtATime, Active, NewPass

LEMMA OneAtATimeNext ==
  ASSUME Overlap = FALSE, IInv, OneAtATime, [Next]_vars
  PROVE  OneAtATime'
<1>0. passes \in [Passes -> Pass]
  BY DEF IInv, TypeOK
<1>. USE DEF OneAtATime
<1>1. CASE UNCHANGED vars
  BY <1>1 DEF vars, execution, history, Active
<1>2. ASSUME NEW c \in Passes, PlanCall(c) PROVE OneAtATime'
  <2>1. \A d \in Passes : Active(d)' <=> Active(d)
    BY <1>2, PlanFrame DEF Active
  <2>2. rejected' = {}
    BY <1>2, PlanFrame DEF Active
  <2>. QED BY <2>1, <2>2
<1>3. ASSUME NEW c \in Passes, RunStep(c) PROVE OneAtATime'
  <2>1. \A d \in Passes : Active(d)' => Active(d)
    BY <1>3, RunFrame DEF Active
  <2>2. rejected' = {}
    BY <1>3, RunFrame DEF history
  <2>. QED BY <2>1, <2>2
<1>4. CASE Settlement \/ HostLoss \/ Restart
  BY <1>4, SettlementFrame
<1>5. ASSUME NEW c \in Passes, Resume(c) PROVE OneAtATime'
  <2>1. \A d \in Passes : ~Active(d)
    BY <1>5 DEF Resume, CommandMayRun, TurnIsOver, Active
  <2>2. \A d \in Passes \ {c} : passes'[d] = passes[d]
    BY <1>0, <1>5 DEF Resume
  <2>3. rejected' = {}
    BY <1>5 DEF Resume, Resumable
  <2>. QED BY <2>1, <2>2, <2>3 DEF Active
<1>6. CASE Reject
  <2>1. \A d \in Passes : ~Active(d)
    BY <1>6 DEF Reject, CommandMayRun, TurnIsOver, Active
  <2>. QED BY <1>6, <2>1 DEF Reject, Active
<1>7. CASE Abandon \/ Expire
  BY <1>7 DEF Abandon, Expire, history, Active
<1>8. CASE RollbackStarts \/ Undo \/ UndoFails \/ RecordUndone \/ RecordFails \/ RollbackEnds
  BY <1>8 DEF RollbackStarts, Undo, UndoFails, RecordUndone, RecordFails, RollbackEnds,
              execution, history, Active
<1>. QED BY <1>1, <1>2, <1>3, <1>4, <1>5, <1>6, <1>7, <1>8 DEF Next, Command

\* controls.ts, reject: a rejected action is never executed, whatever Host
\* losses, restarts, rollbacks and expiries follow.
THEOREM RejectedNeverStarts ==
  ASSUME Overlap = FALSE
  PROVE  Spec => RejectionIsFinal
<1>1. IInv /\ OneAtATime /\ [Next]_vars
        => [\A s \in rejected : started'[s] = started[s]]_vars
  <2> SUFFICES ASSUME IInv, OneAtATime, Next, NEW s \in rejected
               PROVE  started'[s] = started[s]
    OBVIOUS
  <2>1. \A c \in Passes : ~Active(c)
    BY DEF OneAtATime
  <2>2. ASSUME NEW c \in Passes PROVE ~PlanCall(c)
    BY <2>1, PlanFrame DEF Active
  <2>3. \A c \in Passes : RunStep(c) => started' = started
    BY RunFrame DEF history
  <2>4. Command => started' = started
    BY DEF Command, Resume, Reject, Abandon, Expire, RollbackStarts, Undo, UndoFails,
           RecordUndone, RecordFails, RollbackEnds, history
  <2>. QED BY <2>2, <2>3, <2>4, SettlementFrame DEF Next
<1>2. IInv /\ OneAtATime /\ [Next]_vars => OneAtATime'
  BY OneAtATimeNext
<1>. QED BY <1>1, <1>2, OneAtATimeInit, Invariance, PTL DEF Spec, RejectionIsFinal

-----------------------------------------------------------------------------
(* Attempts *)

\* The pass at work is numbered at least as high as the ledger, and above
\* every invocation of the calls that are still ahead of it.
Ahead(c) ==
  Active(c) =>
    /\ attempt <= passes[c].attempt
    /\ \A s \in Seqs : passes[c].cursor <= s =>
         \A i \in DOMAIN started[s] : started[s][i].attempt < passes[c].attempt

\* The invocations of a call are its own and numbered upwards.
Numbered(s) ==
  /\ \A i \in DOMAIN started[s] :
       started[s][i].seq = s /\ started[s][i].attempt <= attempt
  /\ \A i, j \in DOMAIN started[s] :
       i < j => started[s][i].attempt < started[s][j].attempt
  /\ Known(s) /\ calls[s].status = "running" =>
       /\ started[s] # <<>>
       /\ calls[s].attempt = started[s][Len(started[s])].attempt

FlightsStarted ==
  \A f \in flights : ~f.held => \E i \in DOMAIN started[f.seq] : started[f.seq][i] = f

\* While the pass of a step that ran held can still record it, its number is
\* used up and belongs to no invocation of that attempt.
Stray(f) ==
  /\ passes[f.pass].phase # "none" /\ f.attempt <= passes[f.pass].attempt
  /\ passes[f.pass].phase = "live" /\ passes[f.pass].attempt = f.attempt =>
       /\ f.seq < passes[f.pass].cursor
       /\ \A i \in DOMAIN started[f.seq] : started[f.seq][i].attempt # f.attempt

Ordered ==
  /\ \A c \in Passes : Ahead(c)
  /\ \A s \in Seqs : Numbered(s)
  /\ FlightsStarted
  /\ \A f \in flights : f.held => Stray(f)

\* A pass goes on, or ends, under its number.
Proceeds(d) ==
  /\ Active(d)' => Active(d)
  /\ passes'[d].phase = "live" => passes[d].phase = "live"
  /\ passes[d].phase # "none" => passes'[d].phase # "none"
  /\ passes'[d].attempt = passes[d].attempt
  /\ passes'[d].cursor \in Nat
  /\ passes[d].cursor <= passes'[d].cursor

LEMMA OrderedInit == Init => Ordered
<1> SUFFICES ASSUME Init PROVE Ordered
  OBVIOUS
<1>1. \A s \in Seqs : started[s] = <<>> /\ DOMAIN started[s] = {} /\ ~Known(s)
  BY DEF Init, Known
<1>2. \A c \in Passes : passes[c].attempt = 0
  BY DEF Init, NewPass
<1>. QED BY <1>1, <1>2 DEF Init, Ordered, Ahead, Numbered, FlightsStarted

\* A pass keeps ahead when it, its place and the starts stay, and the ledger
\* takes over its number.
LEMMA AheadKept ==
  ASSUME IInv, Ordered, OneAtATime, NEW d \in Passes, Active(d)' => Active(d),
         passes'[d].attempt = passes[d].attempt,
         passes'[d].cursor \in Nat, passes[d].cursor <= passes'[d].cursor,
         \/ attempt' = attempt
         \/ \E c \in Passes : Active(c) /\ attempt' = passes[c].attempt,
         started' = started
  PROVE  Ahead(d)'
<1> SUFFICES ASSUME Active(d)' PROVE Ahead(d)'
  BY DEF Ahead
<1>1. Active(d) /\ Ahead(d)
  BY DEF Ordered
<1>2. attempt' <= passes[d].attempt
  <2>1. passes[d].attempt \in Nat
    BY DEF IInv, TypeOK, Pass
  <2>. QED BY <1>1, <2>1 DEF Ahead, OneAtATime
<1>3. passes[d].cursor \in Nat
  BY BoundAssumption DEF IInv, TypeOK, Pass
<1>4. ASSUME NEW s \in Seqs, passes'[d].cursor <= s
      PROVE  \A i \in DOMAIN started[s] : started[s][i].attempt < passes[d].attempt
  <2>1. s \in Nat /\ passes[d].cursor <= s
    BY <1>3, <1>4 DEF Seqs
  <2>. QED BY <1>1, <2>1 DEF Ahead
<1>. QED BY <1>2, <1>4 DEF Ahead

\* The attempt of the ledger never goes back.
LEMMA AttemptGrows ==
  ASSUME IInv, Ordered, NEW c \in Passes, Active(c),
         attempt' = attempt \/ attempt' = passes[c].attempt
  PROVE  attempt' \in Nat /\ attempt <= attempt'
<1>1. attempt \in Nat /\ passes[c].attempt \in Nat
  BY DEF IInv, TypeOK, Pass
<1>. QED BY <1>1 DEF Ordered, Ahead

LEMMA StartedFlights ==
  ASSUME IInv, NEW s \in Seqs, NEW i \in DOMAIN started[s]
  PROVE  started[s][i] \in Flight /\ started[s][i].attempt \in Nat
<1>1. started[s] \in Seq(Flight)
  BY DEF IInv, TypeOK
<1>2. started[s][i] \in Flight
  BY <1>1
<1>. QED BY <1>2 DEF Flight

LEMMA NumberedKept ==
  ASSUME IInv, Ordered, NEW s \in Seqs, started'[s] = started[s],
         attempt' \in Nat, attempt <= attempt',
         (Known(s) /\ calls[s].status = "running")' =>
           /\ Known(s) /\ calls[s].status = "running"
           /\ calls'[s].attempt = calls[s].attempt
  PROVE  Numbered(s)'
<1>1. /\ Numbered(s) /\ attempt \in Nat
      /\ started[s] \in Seq(Flight)
  BY DEF Ordered, IInv, TypeOK
<1>2. \A i \in DOMAIN started[s] : started[s][i].attempt \in Nat
  BY StartedFlights
<1>. QED BY <1>1, <1>2 DEF Numbered

\* What a call becomes, other than by being invoked.
LEMMA OrderedKept ==
  ASSUME IInv, Ordered, OneAtATime, UNCHANGED started,
         \/ attempt' = attempt
         \/ \E c \in Passes : Active(c) /\ attempt' = passes[c].attempt,
         \A d \in Passes : Proceeds(d),
         \A s \in Seqs : (Known(s) /\ calls[s].status = "running")' =>
                           /\ Known(s) /\ calls[s].status = "running"
                           /\ calls'[s].attempt = calls[s].attempt,
         \A f \in flights' \ flights : f.held /\ Stray(f)'
  PROVE  Ordered'
<1>1. attempt' \in Nat /\ attempt <= attempt'
  <2>1. attempt \in Nat
    BY DEF IInv, TypeOK
  <2>. QED BY <2>1, AttemptGrows
<1>2. \A d \in Passes : Ahead(d)'
  BY AheadKept DEF Proceeds
<1>3. \A s \in Seqs : Numbered(s)'
  BY <1>1, NumberedKept
<1>4. FlightsStarted'
  BY DEF Ordered, FlightsStarted
<1>5. ASSUME NEW f \in flights, f.held PROVE Stray(f)'
  <2>1. f.pass \in Passes /\ f.seq \in Nat /\ passes[f.pass].cursor \in Nat
    BY BoundAssumption DEF IInv, TypeOK, Flight, Pass, Seqs
  <2>2. Stray(f) /\ Proceeds(f.pass)
    BY <1>5, <2>1 DEF Ordered
  <2>. QED BY <2>1, <2>2 DEF Stray, Proceeds
<1>. QED BY <1>2, <1>3, <1>4, <1>5 DEF Ordered

LEMMA PassesKept ==
  ASSUME IInv, NEW d \in Passes, passes'[d] = passes[d]
  PROVE  Proceeds(d)
<1>1. passes[d].cursor \in Nat
  BY BoundAssumption DEF IInv, TypeOK, Pass
<1>. QED BY <1>1 DEF Proceeds, Active

\* The invocation of a call.
LEMMA StartKeepsOrder ==
  ASSUME IInv, Ordered, OneAtATime, NEW c \in Passes, NEW t \in Tools, PlanStarts(c, t)
  PROVE  Ordered'
<1>. DEFINE s == passes[c].cursor
            n == passes[c].attempt
            f == [pass |-> c, attempt |-> n, seq |-> s, held |-> FALSE]
<1>1. /\ Active(c) /\ s \in Seqs /\ s \in Nat /\ n \in Nat /\ attempt \in Nat
      /\ \A d \in Passes : /\ passes'[d].phase = passes[d].phase
                           /\ passes'[d].attempt = passes[d].attempt
      /\ passes'[c].cursor = s + 1
  BY PlanFrame DEF PlanCall, Active, IInv, TypeOK, Pass, Seqs
<1>2. attempt' = n
  BY <1>1 DEF PlanStarts, Larger, Ordered, Ahead
<1>3. /\ started' = [started EXCEPT ![s] = Append(@, f)]
      /\ calls' = [calls EXCEPT ![s] = Opened(c, t, "running")]
      /\ flights' = flights \cup {f}
  BY DEF PlanStarts
<1>4. started \in [Seqs -> Seq(Flight)] /\ calls \in [Seqs -> CallState \cup {NoCall}]
  BY DEF IInv, TypeOK
<1>5. f \in Flight
  BY <1>1 DEF Flight
<1>6. /\ started'[s] = Append(started[s], f)
      /\ \A q \in Seqs \ {s} : started'[q] = started[q] /\ calls'[q] = calls[q]
      /\ calls'[s] = Opened(c, t, "running")
  BY <1>1, <1>3, <1>4
<1>. HIDE DEF s, n
<1>7. f.seq = s /\ f.attempt = n /\ ~f.held
  OBVIOUS
<1>. HIDE DEF f
<1>8. /\ DOMAIN started'[s] = 1 .. Len(started[s]) + 1
      /\ DOMAIN started[s] = 1 .. Len(started[s])
      /\ Len(started[s]) \in Nat /\ Len(started'[s]) = Len(started[s]) + 1
      /\ started'[s][Len(started[s]) + 1] = f
      /\ \A i \in DOMAIN started[s] : started'[s][i] = started[s][i]
  BY <1>1, <1>4, <1>5, <1>6
<1>9. \A q \in Seqs : \A i \in DOMAIN started[q] : started[q][i].attempt \in Nat
  BY StartedFlights
<1>10. \A i \in DOMAIN started[s] : started[s][i].attempt < n
  BY <1>1 DEF Ordered, Ahead, s, n
<1>11. \A d \in Passes : Ahead(d)'
  <2> SUFFICES ASSUME NEW d \in Passes, Active(d)' PROVE Ahead(d)'
    BY DEF Ahead
  <2>1. d = c
    BY <1>1 DEF OneAtATime, Active
  <2>2. ASSUME NEW q \in Seqs, s + 1 <= q
        PROVE  \A i \in DOMAIN started'[q] : started'[q][i].attempt < n
    <3>1. q # s /\ s <= q
      BY <1>1, <2>2 DEF Seqs
    <3>. QED BY <1>1, <1>6, <3>1 DEF Ordered, Ahead, s, n
  <2>3. passes'[c].attempt = n
    BY <1>1 DEF n
  <2>. QED BY <1>1, <1>2, <2>1, <2>2, <2>3 DEF Ahead
<1>12. attempt <= n
  BY <1>1 DEF Ordered, Ahead, n
<1>13. ASSUME NEW q \in Seqs PROVE Numbered(q)'
  <2>1. CASE q # s
    BY <1>1, <1>2, <1>6, <1>12, <2>1, NumberedKept DEF Known
  <2>2. CASE q = s
    <3>1. \A i \in DOMAIN started[s] :
            started[s][i].seq = s /\ started[s][i].attempt <= attempt
      BY <2>2 DEF Ordered, Numbered
    <3>2. \A i \in DOMAIN started'[s] :
            started'[s][i].seq = s /\ started'[s][i].attempt <= n
      BY <1>1, <1>7, <1>8, <1>9, <1>12, <3>1
    <3>3. \A i, j \in DOMAIN started'[s] :
            i < j => started'[s][i].attempt < started'[s][j].attempt
      <4> SUFFICES ASSUME NEW i \in DOMAIN started'[s], NEW j \in DOMAIN started'[s], i < j
                   PROVE  started'[s][i].attempt < started'[s][j].attempt
        OBVIOUS
      <4>1. i \in DOMAIN started[s]
        BY <1>8
      <4>2. CASE j \in DOMAIN started[s]
        BY <1>8, <2>2, <4>1, <4>2 DEF Ordered, Numbered
      <4>3. CASE j = Len(started[s]) + 1
        BY <1>7, <1>8, <1>10, <4>1, <4>3
      <4>. QED BY <1>8, <4>2, <4>3
    <3>4. /\ calls'[s].attempt = n /\ started'[s] # <<>>
          /\ started'[s][Len(started'[s])].attempt = n
      BY <1>6, <1>7, <1>8 DEF Opened, n
    <3>. QED BY <1>2, <2>2, <3>2, <3>3, <3>4 DEF Numbered
  <2>. QED BY <2>1, <2>2
<1>14. FlightsStarted'
  <2> SUFFICES ASSUME NEW g \in flights', ~g.held
               PROVE  \E i \in DOMAIN started'[g.seq] : started'[g.seq][i] = g
    BY DEF FlightsStarted
  <2>1. CASE g = f
    <3>1. Len(started[s]) + 1 \in DOMAIN started'[s]
      BY <1>8
    <3>. QED BY <1>7, <1>8, <2>1, <3>1
  <2>2. CASE g \in flights
    <3>1. g.seq \in Seqs
      BY <2>2 DEF IInv, TypeOK, Flight
    <3>2. PICK i \in DOMAIN started[g.seq] : started[g.seq][i] = g
      BY <2>2 DEF Ordered, FlightsStarted
    <3>3. i \in DOMAIN started'[g.seq] /\ started'[g.seq][i] = g
      BY <1>6, <1>8, <3>1, <3>2
    <3>. QED BY <3>3
  <2>. QED BY <1>3, <2>1, <2>2
<1>15. ASSUME NEW g \in flights', g.held PROVE Stray(g)'
  <2>1. g \in flights /\ Stray(g) /\ g.pass \in Passes /\ g.seq \in Seqs /\ g.seq \in Nat
    BY <1>3, <1>7, <1>15 DEF Ordered, IInv, TypeOK, Flight, Seqs
  <2>2. CASE passes[g.pass].phase = "live"
    <3>1. g.pass = c
      BY <1>1, <2>1, <2>2 DEF OneAtATime, Active
    <3>2. /\ g.attempt <= passes'[c].attempt /\ passes'[c].phase # "none"
          /\ passes'[c].attempt = g.attempt =>
               g.seq < s /\ \A i \in DOMAIN started[g.seq] : started[g.seq][i].attempt # g.attempt
      BY <1>1, <2>1, <2>2, <3>1 DEF Stray, s
    <3>3. g.seq < s => g.seq < s + 1 /\ started'[g.seq] = started[g.seq]
      BY <1>1, <1>6, <2>1
    <3>. QED BY <1>1, <3>1, <3>2, <3>3 DEF Stray
  <2>3. CASE passes[g.pass].phase # "live"
    BY <1>1, <2>1, <2>3 DEF Stray
  <2>. QED BY <2>2, <2>3
<1>. QED BY <1>11, <1>13, <1>14, <1>15 DEF Ordered

\* A pass that begins is numbered above every invocation.
LEMMA BeginKeepsOrder ==
  ASSUME IInv, Ordered, OneAtATime, NEW c \in Passes, NEW n \in Nat,
         passes' = [passes EXCEPT ![c] = NewPass("live", n)],
         attempt < n, attempt' \in {attempt, n},
         passes[c].phase = "none" \/ passes[c].attempt < n,
         UNCHANGED <<calls, flights, started>>,
         \A d \in Passes \ {c} : ~Active(d)
  PROVE  Ordered'
<1>1. passes \in [Passes -> Pass] /\ attempt \in Nat
  BY DEF IInv, TypeOK
<1>2. passes'[c] = NewPass("live", n) /\ \A d \in Passes \ {c} : passes'[d] = passes[d]
  BY <1>1
<1>3. attempt' \in Nat /\ attempt <= attempt' /\ attempt' <= n
  BY <1>1
<1>4. ASSUME NEW s \in Seqs, NEW i \in DOMAIN started[s]
      PROVE  started[s][i].attempt < n
  BY <1>1, StartedFlights DEF Ordered, Numbered
<1>5. \A d \in Passes : Ahead(d)'
  BY <1>2, <1>3, <1>4 DEF Ahead, Active, NewPass
<1>6. \A s \in Seqs : Numbered(s)'
  BY <1>3, NumberedKept DEF Known
<1>7. ASSUME NEW f \in flights, f.held PROVE Stray(f)'
  <2>1. /\ f.pass \in Passes /\ f.attempt \in Nat /\ passes[f.pass].attempt \in Nat
        /\ Stray(f)
    BY <1>7 DEF Ordered, IInv, TypeOK, Flight, Pass
  <2>2. CASE f.pass = c
    <3>1. f.attempt < n
      BY <2>1, <2>2 DEF Stray
    <3>2. passes'[f.pass].phase = "live" /\ passes'[f.pass].attempt = n
      BY <1>2, <2>2 DEF NewPass
    <3>. QED BY <2>1, <3>1, <3>2 DEF Stray
  <2>3. CASE f.pass # c
    BY <1>2, <2>1, <2>3 DEF Stray
  <2>. QED BY <2>2, <2>3
<1>. QED BY <1>5, <1>6, <1>7 DEF Ordered, FlightsStarted

LEMMA OrderedNext ==
  ASSUME Overlap = FALSE, IInv, Ordered, OneAtATime, [Next]_vars
  PROVE  Ordered'
<1>0. /\ passes \in [Passes -> Pass] /\ attempt \in Nat
      /\ calls \in [Seqs -> CallState \cup {NoCall}]
      /\ flights \subseteq Flight
  BY DEF IInv, TypeOK
<1>1. CASE UNCHANGED vars
  BY <1>1, OrderedKept, PassesKept DEF vars, execution, history, Known
<1>2. ASSUME NEW c \in Passes, PlanCall(c) PROVE Ordered'
  <2>1. \A d \in Passes : Proceeds(d)
    <3>1. passes[c].cursor \in Nat /\ passes'[c].cursor = passes[c].cursor + 1
      BY <1>2, PlanFrame DEF Seqs
    <3>. QED BY <1>2, <3>1, PlanFrame, PassesKept DEF Proceeds, Active
  <2>2. Active(c)
    BY <1>2, PlanFrame DEF Active
  <2>3. CASE PlanRefused(c) \/ \E t \in Tools : PlanPauses(c, t) \/ PlanReplays(c, t)
    BY <2>1, <2>3, OrderedKept
       DEF PlanPauses, PlanRefused, PlanReplays, execution, history, Known
  <2>4. CASE PlanDiverges(c) \/ \E t \in Tools : PlanUncertain(c, t)
    <3>1. /\ attempt' = attempt \/ attempt' = passes[c].attempt
          /\ UNCHANGED <<calls, flights, started>>
      BY <2>4 DEF PlanDiverges, PlanUncertain, Finish, execution, history
    <3>. QED BY <2>1, <2>2, <3>1, OrderedKept DEF Known
  <2>5. ASSUME NEW t \in Tools, PlanAsks(c, t) PROVE Ordered'
    <3>. DEFINE s == passes[c].cursor
    <3>1. s \in Seqs /\ calls' = [calls EXCEPT ![s] = Opened(c, t, "pending")]
      BY <1>2, <2>5, PlanFrame DEF PlanAsks
    <3>2. calls'[s].status = "pending" /\ \A q \in Seqs \ {s} : calls'[q] = calls[q]
      BY <1>0, <3>1 DEF Opened
    <3>3. /\ attempt' = attempt \/ attempt' = passes[c].attempt
          /\ UNCHANGED <<flights, started>>
      BY <2>5 DEF PlanAsks, Larger, history
    <3>4. \A q \in Seqs : (Known(q) /\ calls[q].status = "running")' =>
                            /\ Known(q) /\ calls[q].status = "running"
                            /\ calls'[q].attempt = calls[q].attempt
      BY <3>2 DEF Known
    <3>. HIDE DEF s
    <3>. QED BY <2>1, <2>2, <3>3, <3>4, OrderedKept
  <2>6. ASSUME NEW t \in Tools, PlanStarts(c, t) PROVE Ordered'
    BY <2>6, StartKeepsOrder
  <2>7. ASSUME NEW t \in Tools, PlanStrays(c, t) PROVE Ordered'
    <3>. DEFINE s == passes[c].cursor
                f == [pass |-> c, attempt |-> passes[c].attempt, seq |-> s, held |-> TRUE]
    <3>1. /\ s \in Seqs /\ s \in Nat /\ passes[c].attempt \in Nat
          /\ passes[c].phase = "live" /\ passes'[c].phase = "live"
          /\ passes'[c].attempt = passes[c].attempt /\ passes'[c].cursor = s + 1
      BY <1>0, <1>2, PlanFrame DEF Pass, Seqs
    <3>2. flights' = flights \cup {f} /\ UNCHANGED <<attempt, calls, started>>
      BY <2>7 DEF PlanStrays, execution, history
    <3>3. \A i \in DOMAIN started[s] : started[s][i].attempt < passes[c].attempt
      BY <2>2, <3>1 DEF Ordered, Ahead
    <3>4. \A i \in DOMAIN started[s] : started[s][i].attempt \in Nat
      BY <3>1, StartedFlights
    <3>5. ASSUME NEW h \in flights' \ flights PROVE h.held /\ Stray(h)'
      <4>1. h.pass = c /\ h.attempt = passes[c].attempt /\ h.seq = s /\ h.held
        BY <3>2, <3>5
      <4>2. /\ passes'[h.pass].phase = "live" /\ passes'[h.pass].attempt = h.attempt
            /\ h.seq < passes'[h.pass].cursor
        BY <3>1, <4>1
      <4>3. \A i \in DOMAIN started'[h.seq] : started'[h.seq][i].attempt # h.attempt
        BY <3>1, <3>2, <3>3, <3>4, <4>1
      <4>. QED BY <3>1, <4>1, <4>2, <4>3 DEF Stray
    <3>. QED BY <2>1, <3>2, <3>5, OrderedKept DEF Known
  <2>. QED BY <1>2, <2>3, <2>4, <2>5, <2>6, <2>7 DEF PlanCall
<1>3. ASSUME NEW c \in Passes, RunStep(c) PROVE Ordered'
  <2>1. /\ Active(c) /\ \A d \in Passes \ {c} : passes'[d] = passes[d]
        /\ UNCHANGED <<calls, flights, started>>
    BY <1>3, RunFrame DEF history
  <2>2. passes[c].attempt \in Nat /\ passes[c].cursor \in Nat
    BY BoundAssumption DEF IInv, TypeOK, Pass
  <2>3. CASE RetryPass(c)
    <3>1. attempt <= passes[c].attempt
      BY <2>1 DEF Ordered, Ahead
    <3>2. passes[c].attempt + 1 \in Nat /\ attempt < passes[c].attempt + 1
      BY <1>0, <2>2, <3>1
    <3>3. \A d \in Passes \ {c} : ~Active(d)
      BY <2>1 DEF OneAtATime
    <3>4. /\ passes' = [passes EXCEPT ![c] = NewPass("live", passes[c].attempt + 1)]
          /\ attempt' = attempt
      BY <2>3 DEF RetryPass, execution
    <3>5. passes[c].attempt < passes[c].attempt + 1
      BY <2>2
    <3>. QED BY <2>1, <3>2, <3>3, <3>4, <3>5, BeginKeepsOrder
  <2>4. ASSUME passes'[c].attempt = passes[c].attempt,
               passes'[c].cursor = passes[c].cursor,
               passes'[c].phase \in {"decided", "done"},
               attempt' = attempt \/ attempt' = passes[c].attempt
        PROVE  Ordered'
    <3>1. \A d \in Passes : Proceeds(d)
      BY <2>1, <2>2, <2>4, PassesKept DEF Proceeds
    <3>. QED BY <2>1, <2>4, <3>1, OrderedKept DEF Known
  <2>5. \A x : [passes EXCEPT ![c].phase = x][c].attempt = passes[c].attempt
            /\ [passes EXCEPT ![c].phase = x][c].cursor = passes[c].cursor
            /\ [passes EXCEPT ![c].phase = x][c].phase = x
    BY <1>0 DEF Pass
  <2>6. \A x, y :
          /\ [passes EXCEPT ![c].phase = x, ![c].outcome = y][c].attempt = passes[c].attempt
          /\ [passes EXCEPT ![c].phase = x, ![c].outcome = y][c].cursor = passes[c].cursor
          /\ [passes EXCEPT ![c].phase = x, ![c].outcome = y][c].phase = x
    BY <1>0 DEF Pass
  <2>7. CASE SettleRun(c) \/ SettleFails(c)
    <3>1. passes' = [passes EXCEPT ![c].phase = "done"]
      BY <2>7 DEF SettleRun, SettleFails
    <3>2. /\ passes'[c].attempt = passes[c].attempt /\ passes'[c].cursor = passes[c].cursor
          /\ passes'[c].phase = "done"
      BY <2>5, <3>1
    <3>3. attempt' = attempt \/ attempt' = passes[c].attempt
      BY <2>7 DEF SettleRun, SettleFails, Finish, execution
    <3>. QED BY <2>4, <3>2, <3>3
  <2>8. ASSUME NEW ending \in {"success", "error", "cancelled"},
               PassEnds(c, ending) \/ PassThrows(c, ending)
        PROVE  Ordered'
    <3>. DEFINE x == Decide(c, ending)
    <3>1. CASE PassEnds(c, ending)
      <4>1. passes' = [passes EXCEPT ![c].phase = "decided", ![c].outcome = x]
        BY <3>1 DEF PassEnds
      <4>. HIDE DEF x
      <4>2. /\ passes'[c].attempt = passes[c].attempt /\ passes'[c].cursor = passes[c].cursor
            /\ passes'[c].phase = "decided"
        BY <2>6, <4>1
      <4>. QED BY <2>4, <3>1, <4>2 DEF PassEnds, execution
    <3>2. CASE PassThrows(c, ending)
      <4>1. passes' = [passes EXCEPT ![c].phase = "done"]
        BY <3>2 DEF PassThrows
      <4>2. attempt' = attempt \/ attempt' = passes[c].attempt
        BY <3>2 DEF PassThrows, Finish
      <4>. QED BY <2>4, <2>5, <4>1, <4>2
    <3>. QED BY <2>8, <3>1, <3>2
  <2>. QED BY <1>3, <2>3, <2>7, <2>8 DEF RunStep
<1>4. CASE Settlement
  <2>1. PICK f \in flights :
          ReturnUnrecorded(f) \/ \E result \in {"success", "error"} : Return(f, result)
    BY <1>4 DEF Settlement
  <2>2. f.pass \in Passes /\ f.seq \in Seqs
    BY <1>0 DEF Flight
  <2>3. passes' = passes \/ passes' = [passes EXCEPT ![f.pass].incomplete = TRUE]
    BY <2>1 DEF ReturnUnrecorded, Return
  <2>4. \A d \in Passes : /\ passes'[d].phase = passes[d].phase
                          /\ passes'[d].attempt = passes[d].attempt
                          /\ passes'[d].cursor = passes[d].cursor
    BY <1>0, <2>2, <2>3 DEF Pass
  <2>5. \A d \in Passes : passes[d].cursor \in Nat
    BY <1>0, BoundAssumption DEF Pass
  <2>6. \A s \in Seqs : (Known(s) /\ calls[s].status = "running")' =>
                           /\ Known(s) /\ calls[s].status = "running"
                           /\ calls'[s].attempt = calls[s].attempt
    <3>1. CASE calls' = calls
      BY <3>1 DEF Known
    <3>2. ASSUME NEW result \in {"success", "error"},
                 calls' = [calls EXCEPT ![f.seq].status = result], Known(f.seq)
          PROVE  /\ calls'[f.seq].status # "running"
                 /\ \A q \in Seqs \ {f.seq} : calls'[q] = calls[q]
      <4>1. calls[f.seq] \in CallState
        BY <1>0, <2>2, <3>2 DEF Known
      <4>2. calls'[f.seq] = [calls[f.seq] EXCEPT !.status = result]
        BY <1>0, <2>2, <3>2
      <4>. QED BY <1>0, <2>2, <3>2, <4>1, <4>2 DEF CallState
    <3>. QED BY <2>1, <3>1, <3>2 DEF Return, ReturnUnrecorded, Records, Matches, Known
  <2>7. flights' \subseteq flights /\ UNCHANGED <<attempt, started>>
    BY <2>1 DEF Return, ReturnUnrecorded, execution, history
  <2>8. \A d \in Passes : Proceeds(d)
    BY <2>4, <2>5 DEF Proceeds, Active
  <2>. QED BY <2>6, <2>7, <2>8, OrderedKept
<1>5. CASE HostLoss
  <2>1. ASSUME NEW d \in Passes
        PROVE  \/ passes'[d] = passes[d]
               \/ passes[d].phase = "live" /\ passes'[d] = [passes[d] EXCEPT !.phase = "lost"]
    BY <1>5 DEF HostLoss
  <2>2. \A d \in Passes : Proceeds(d)
    <3>1. \A d \in Passes : passes[d] \in Pass /\ passes[d].cursor \in Nat
      BY <1>0, BoundAssumption DEF Pass
    <3>2. \A d \in Passes : /\ passes'[d].attempt = passes[d].attempt
                            /\ passes'[d].cursor = passes[d].cursor
                            /\ passes'[d].phase \in {passes[d].phase, "lost"}
                            /\ passes[d].phase = "none" => passes'[d].phase = "none"
      BY <2>1, <3>1 DEF Pass
    <3>. QED BY <1>5, <3>1, <3>2, SettlementFrame DEF Proceeds
  <2>3. ASSUME NEW s \in Seqs
        PROVE  \/ calls'[s] = calls[s]
               \/ calls[s] \in CallState /\ calls'[s] = [calls[s] EXCEPT !.status = "error"]
    BY <1>0, <1>5 DEF HostLoss, Records, Matches, Known
  <2>4. \A s \in Seqs : (Known(s) /\ calls[s].status = "running")' =>
                          /\ Known(s) /\ calls[s].status = "running"
                          /\ calls'[s].attempt = calls[s].attempt
    BY <2>3 DEF Known, CallState
  <2>. QED BY <1>5, <2>2, <2>4, OrderedKept DEF HostLoss, execution
<1>6. CASE Restart
  <2>1. \A d \in Passes : passes'[d] = passes[d] \/ passes'[d] = [passes[d] EXCEPT !.phase = "done"]
    BY <1>6 DEF Restart
  <2>2. \A d \in Passes : Proceeds(d)
    <3>1. \A d \in Passes : passes[d] \in Pass /\ passes[d].cursor \in Nat
      BY <1>0, BoundAssumption DEF Pass
    <3>2. \A d \in Passes : /\ passes'[d].attempt = passes[d].attempt
                            /\ passes'[d].cursor = passes[d].cursor
                            /\ passes'[d].phase \in {passes[d].phase, "done"}
      BY <2>1, <3>1 DEF Pass
    <3>. QED BY <1>6, <3>1, <3>2, SettlementFrame DEF Proceeds
  <2>. QED BY <1>6, <2>2, OrderedKept DEF Restart, execution, history, Known
<1>7. ASSUME NEW c \in Passes, Resume(c) PROVE Ordered'
  <2>1. \A d \in Passes : ~Active(d)
    BY <1>7 DEF Resume, CommandMayRun, TurnIsOver, Active
  <2>2. attempt + 1 \in Nat /\ attempt < attempt + 1
    BY <1>0
  <2>3. /\ passes' = [passes EXCEPT ![c] = NewPass("live", attempt + 1)]
        /\ attempt' = attempt + 1 /\ UNCHANGED <<calls, flights, started>>
        /\ passes[c].phase = "none"
    BY <1>7 DEF Resume, NextAttempt
  <2>. QED BY <2>1, <2>2, <2>3, BeginKeepsOrder
<1>8. CASE Reject \/ Abandon \/ Expire \/ RollbackStarts \/ Undo \/ UndoFails
           \/ RecordFails \/ RollbackEnds
  <2>1. UNCHANGED <<attempt, calls, passes, flights, started>>
    BY <1>8 DEF Reject, Abandon, Expire, RollbackStarts, Undo, UndoFails, RecordFails,
                RollbackEnds, execution, history
  <2>. QED BY <2>1, OrderedKept, PassesKept DEF Known
<1>9. CASE RecordUndone
  <2>1. UNCHANGED <<attempt, passes, flights, started>>
    BY <1>9 DEF RecordUndone, history
  <2>2. ASSUME NEW s \in Seqs
        PROVE  \/ calls'[s] = calls[s]
               \/ calls[s] \in CallState /\ calls'[s] = [calls[s] EXCEPT !.compensated = TRUE]
    BY <1>0, <1>9 DEF RecordUndone, Applied, Known
  <2>3. \A s \in Seqs : (Known(s) /\ calls[s].status = "running")' =>
                          /\ Known(s) /\ calls[s].status = "running"
                          /\ calls'[s].attempt = calls[s].attempt
    <3>1. \A s \in Seqs : calls[s] \in CallState =>
            /\ [calls[s] EXCEPT !.compensated = TRUE].status = calls[s].status
            /\ [calls[s] EXCEPT !.compensated = TRUE].attempt = calls[s].attempt
      BY DEF CallState
    <3>. QED BY <2>2, <3>1, NoCallAssumption DEF Known
  <2>. QED BY <2>1, <2>3, OrderedKept, PassesKept
<1>. QED BY <1>1, <1>2, <1>3, <1>4, <1>5, <1>6, <1>7, <1>8, <1>9 DEF Next, Command

\* Attempts of a call are numbered upwards, and no settlement is ahead of them.
THEOREM OrderedAlways ==
  ASSUME Overlap = FALSE
  PROVE  Spec => [](OneAtATime /\ Ordered)
<1>1. IInv /\ OneAtATime /\ [Next]_vars => OneAtATime'
  BY OneAtATimeNext
<1>2. IInv /\ OneAtATime /\ Ordered /\ [Next]_vars => Ordered'
  BY OrderedNext
<1>. QED BY <1>1, <1>2, OneAtATimeInit, OrderedInit, Invariance, PTL DEF Spec

\* A step that ran while its execution was held settles nothing.
LEMMA StraysSettleNothing ==
  ASSUME IInv, Ordered, NEW f \in flights, f.held, CanReturn(f)
  PROVE  ~Matches(f)
<1>. SUFFICES ASSUME Matches(f) PROVE FALSE
  OBVIOUS
<1>1. f.seq \in Seqs
  BY DEF IInv, TypeOK, Flight
<1>2. /\ started[f.seq] # <<>>
      /\ f.attempt = started[f.seq][Len(started[f.seq])].attempt
  BY <1>1 DEF Ordered, Numbered, Matches
<1>3. started[f.seq] \in Seq(Flight)
  BY <1>1 DEF IInv, TypeOK
<1>4. Len(started[f.seq]) \in DOMAIN started[f.seq]
  BY <1>2, <1>3
<1>5. \A i \in DOMAIN started[f.seq] : started[f.seq][i].attempt # f.attempt
  BY DEF Ordered, Stray, CanReturn, IsStep
<1>. QED BY <1>2, <1>4, <1>5

\* An invocation whose attempt is the one of its running call is its latest.
LEMMA MatchIsLatest ==
  ASSUME IInv, Ordered, NEW f \in flights, CanReturn(f), Matches(f)
  PROVE  f = started[f.seq][Len(started[f.seq])]
<1>. DEFINE s == f.seq
<1>1. s \in Seqs
  BY DEF IInv, TypeOK, Flight
<1>2. /\ started[s] # <<>> /\ Known(s) /\ calls[s].status = "running"
      /\ f.attempt = started[s][Len(started[s])].attempt
  BY <1>1 DEF Ordered, Numbered, Matches
<1>3. PICK i \in DOMAIN started[s] : started[s][i] = f
  BY StraysSettleNothing DEF Ordered, FlightsStarted
<1>4. started[s] \in Seq(Flight)
  BY <1>1 DEF IInv, TypeOK
<1>5. /\ i \in 1 .. Len(started[s]) /\ Len(started[s]) \in DOMAIN started[s]
      /\ Len(started[s]) \in Nat
  BY <1>2, <1>3, <1>4
<1>6. CASE i < Len(started[s])
  <2>1. f.attempt < f.attempt
    BY <1>1, <1>2, <1>3, <1>5, <1>6 DEF Ordered, Numbered
  <2>2. f.attempt \in Nat
    BY DEF IInv, TypeOK, Flight
  <2>. QED BY <2>1, <2>2
<1>. QED BY <1>3, <1>5, <1>6

\* completeToolCall and failAll: what settles a call is its latest invocation,
\* whatever the number of Host losses, retries and approvals before.
THEOREM LatestAttemptAlwaysWins ==
  ASSUME Overlap = FALSE
  PROVE  Spec => LatestAttemptWins
<1>1. IInv /\ OneAtATime /\ Ordered /\ [Next]_vars =>
        [\A s \in Seqs :
           Known(s) /\ calls[s].status = "running" /\ calls'[s].status \in {"success", "error"} =>
             LET f == started[s][Len(started[s])] IN f \in flights /\ f \notin flights']_vars
  <2> SUFFICES ASSUME IInv, OneAtATime, Ordered, Next, NEW s \in Seqs, Known(s),
                      calls[s].status = "running", calls'[s].status \in {"success", "error"}
               PROVE  \E f \in flights : f = started[s][Len(started[s])] /\ f \notin flights'
    OBVIOUS
  <2>0. /\ calls \in [Seqs -> CallState \cup {NoCall}] /\ flights \subseteq Flight
        /\ calls[s] \in CallState
    BY DEF IInv, TypeOK, Known
  <2>1. CASE calls'[s] = calls[s]
    BY <2>1
  <2>2. ASSUME NEW c \in Passes, PlanCall(c) PROVE FALSE
    <3>1. passes[c].cursor \in Seqs
      BY <2>2, PlanFrame
    <3>2. CASE calls' = calls
      BY <2>1, <3>2
    <3>3. ASSUME NEW t \in Tools, PlanAsks(c, t) \/ PlanStarts(c, t) PROVE FALSE
      <4>1. calls'[s] = calls[s] \/ calls'[s] = Opened(c, t, "pending")
              \/ calls'[s] = Opened(c, t, "running")
        BY <2>0, <3>1, <3>3 DEF PlanAsks, PlanStarts
      <4>. QED BY <4>1 DEF Opened
    <3>. QED BY <2>2, <3>2, <3>3 DEF PlanCall, PlanPauses, PlanStrays, PlanDiverges, PlanRefused,
         PlanReplays, PlanUncertain
  <2>3. CASE Settlement
    <3>1. PICK f \in flights :
            ReturnUnrecorded(f) \/ \E result \in {"success", "error"} : Return(f, result)
      BY <2>3 DEF Settlement
    <3>2. Matches(f) /\ CanReturn(f) /\ f.seq = s /\ f \notin flights'
      <4>1. f.seq \in Seqs
        BY <2>0 DEF Flight
      <4>. QED BY <2>0, <3>1, <4>1 DEF Return, ReturnUnrecorded, Records
    <3>. QED BY <3>2, MatchIsLatest
  <2>4. CASE HostLoss
    <3>1. PICK f \in flights : Matches(f) /\ CanReturn(f) /\ f.seq = s
      BY <2>4 DEF HostLoss, Records, CanReturn
    <3>. QED BY <2>4, <3>1, MatchIsLatest DEF HostLoss
  <2>5. CASE RecordUndone
    <3>1. calls'[s] = calls[s] \/ calls'[s] = [calls[s] EXCEPT !.compensated = TRUE]
      BY <2>0, <2>5 DEF RecordUndone
    <3>. QED BY <2>0, <3>1 DEF CallState
  <2>6. CASE calls' = calls
    BY <2>1, <2>6
  <2>7. CASE Restart
    BY <2>6, <2>7 DEF Restart
  <2>8. ASSUME NEW c \in Passes, Resume(c) PROVE FALSE
    BY <2>6, <2>8 DEF Resume
  <2>9. CASE Reject \/ Abandon \/ Expire \/ RollbackStarts \/ Undo \/ UndoFails
             \/ RecordFails \/ RollbackEnds
    BY <2>6, <2>9 DEF Reject, Abandon, Expire, RollbackStarts, Undo, UndoFails, RecordFails,
                      RollbackEnds
  <2>10. ASSUME NEW c \in Passes, RunStep(c) PROVE FALSE
    BY <2>6, <2>10, RunFrame
  <2>. QED BY <2>2, <2>3, <2>4, <2>5, <2>7, <2>8, <2>9, <2>10 DEF Next, Command
<1>. QED BY <1>1, OrderedAlways, Invariance, PTL DEF Spec, LatestAttemptWins

-----------------------------------------------------------------------------
(* Calls whose result was lost *)

\* A call that is recorded as running and may not be run again.
Open(s) ==
  Known(s) /\ calls[s].status = "running" /\ calls[s].name \notin Reexecute

\* No invocation is left that could still settle such a call.
Lost(s) ==
  s \in unrecorded =>
    /\ Known(s)
    /\ calls[s].name \notin Reexecute =>
         Open(s) /\ \A f \in flights : ~f.held => f.seq # s

\* A pass that may invoke something has left open only calls of its own,
\* whose result is not lost.
MayInvoke(c) ==
  passes[c].phase = "live" /\ ~passes[c].incomplete /\ status = "running"

Passed(c, s) ==
  MayInvoke(c) /\ s < passes[c].cursor /\ Open(s) /\ s \notin refused =>
    started[s] # <<>> /\ started[s][1].pass = c /\ s \notin unrecorded

Blocking ==
  \A s \in Seqs : Lost(s) /\ \A c \in Passes : Passed(c, s)

LEMMA BlockingInit == Init => Blocking
BY DEF Init, Blocking, Lost, Passed, MayInvoke, Open, Known

\* The only invocation of a call that may not be run again.
LEMMA OnlyStart ==
  ASSUME IInv, Ordered, NEW f \in flights, ~f.held, Open(f.seq)
  PROVE  started[f.seq] # <<>> /\ f = started[f.seq][1]
<1>1. PICK i \in DOMAIN started[f.seq] : started[f.seq][i] = f
  BY DEF Ordered, FlightsStarted
<1>2. f.seq \in Seqs
  BY DEF IInv, TypeOK, Flight
<1>3. Len(started[f.seq]) <= 1 /\ started[f.seq] \in Seq(Flight)
  BY <1>2 DEF IInv, TypeOK, Accounted, Open
<1>4. i \in 1 .. Len(started[f.seq]) /\ Len(started[f.seq]) \in Nat
  BY <1>1, <1>3
<1>5. i = 1
  BY <1>3, <1>4
<1>. QED BY <1>1, <1>4, <1>5

\* What is not a call, a settlement or a new pass keeps lost calls blocking.
LEMMA BlockingKept ==
  ASSUME Blocking, UNCHANGED <<started, unrecorded>>,
         refused \subseteq refused', flights' \subseteq flights,
         status' = "running" => status = "running",
         \A s \in Seqs : calls'[s] = calls[s],
         \A d \in Passes : passes'[d].phase = "live" /\ ~passes'[d].incomplete =>
           /\ passes[d].phase = "live" /\ ~passes[d].incomplete
           /\ passes'[d].cursor = passes[d].cursor
  PROVE  Blocking'
<1>1. \A s \in Seqs : (Open(s)' <=> Open(s)) /\ (Known(s)' <=> Known(s))
  BY DEF Open, Known
<1>2. \A s \in Seqs : Lost(s)'
  BY <1>1 DEF Blocking, Lost
<1>3. \A s \in Seqs, c \in Passes : Passed(c, s)'
  BY <1>1 DEF Blocking, Passed, MayInvoke
<1>. QED BY <1>2, <1>3 DEF Blocking

LEMMA OpenedType ==
  ASSUME IInv, NEW c \in Passes, NEW t \in Tools
  PROVE  Opened(c, t, "running") \in CallState
<1>1. passes[c].attempt \in Nat
  BY DEF IInv, TypeOK, Pass
<1>. QED BY <1>1 DEF Opened, CallState

\* The calls of a pass.
LEMMA PlanBlocks ==
  ASSUME IInv, IInv', OneAtATime, Ordered, Blocking, NEW c \in Passes, PlanCall(c)
  PROVE  Blocking'
<1>. DEFINE s == passes[c].cursor
<1>0. /\ s \in Seqs /\ s \in Nat /\ passes'[c].cursor = s + 1
      /\ \A d \in Passes \ {c} : passes'[d].phase # "live"
      /\ passes[c].phase = "live"
  BY PlanFrame DEF OneAtATime, Active, Seqs
<1>1. /\ Plans(c)
      /\ passes' = Advance(c) \/ passes' = [Advance(c) EXCEPT ![c].incomplete = TRUE]
  BY DEF PlanCall, PlanPauses, PlanStrays, PlanDiverges, PlanRefused, PlanReplays,
         PlanUncertain, PlanAsks, PlanStarts
<1>2. ~passes[c].incomplete
  BY <1>1 DEF Plans
<1>3. calls \in [Seqs -> CallState \cup {NoCall}]
  BY DEF IInv, TypeOK
\* It is enough that the number that is used up leaves nothing open.
<1>4. ASSUME UNCHANGED <<started, unrecorded, calls>>, refused \subseteq refused',
             \A f \in flights' \ flights : f.held,
             status' = "running" => status = "running",
             (status = "running" /\ status' = "running" /\ Open(s) /\ s \notin refused')
                => passes'[c].incomplete
      PROVE  Blocking'
  <2>1. \A q \in Seqs : (Open(q)' <=> Open(q)) /\ (Known(q)' <=> Known(q))
    BY <1>4 DEF Open, Known
  <2>2. \A q \in Seqs : Lost(q)'
    BY <1>4, <2>1 DEF Blocking, Lost
  <2>3. ASSUME NEW q \in Seqs, NEW d \in Passes PROVE Passed(d, q)'
    <3> SUFFICES ASSUME d = c, q < s + 1, Open(q), q \notin refused', status' = "running",
                        ~passes'[c].incomplete
                 PROVE  started[q] # <<>> /\ started[q][1].pass = c /\ q \notin unrecorded
      BY <1>0, <1>4, <2>1 DEF Passed, MayInvoke
    <3>1. q < s
      BY <1>0, <1>4 DEF Seqs
    <3>. QED BY <1>0, <1>2, <1>4, <3>1 DEF Blocking, Passed, MayInvoke
  <2>. QED BY <2>2, <2>3 DEF Blocking
<1>5. ASSUME NEW t \in Tools, PlanPauses(c, t) \/ PlanStrays(c, t) PROVE Blocking'
  <2>1. \A f \in flights' \ flights : f.held
    BY <1>5 DEF PlanPauses, PlanStrays
  <2>2. status # "running" /\ UNCHANGED <<status, calls, started, unrecorded, refused>>
    BY <1>5 DEF PlanPauses, PlanStrays, Held, execution, history
  <2>. QED BY <1>4, <2>1, <2>2
<1>6. CASE PlanDiverges(c)
  <2>1. status' # "running"
    BY <1>6, FinishType DEF PlanDiverges, IInv, ExecutionStatus
  <2>. QED BY <1>4, <1>6, <2>1 DEF PlanDiverges, history
<1>7. CASE PlanRefused(c)
  BY <1>4, <1>7 DEF PlanRefused, Open, execution
<1>8. ASSUME NEW t \in Tools, PlanReplays(c, t) PROVE Blocking'
  BY <1>4, <1>8 DEF PlanReplays, Open, execution, history
<1>9. ASSUME NEW t \in Tools, PlanUncertain(c, t) PROVE Blocking'
  <2>1. passes'[c].incomplete
    <3>1. Advance(c) \in [Passes -> Pass]
      BY <1>1, AdvanceType DEF IInv
    <3>. QED BY <1>9, <3>1 DEF PlanUncertain, Pass
  <2>2. status' = "running" => status = "running"
    BY <1>9, FinishType DEF PlanUncertain, IInv, ExecutionStatus, execution
  <2>. QED BY <1>4, <1>9, <2>1, <2>2 DEF PlanUncertain, history
<1>10. ASSUME NEW t \in Tools, PlanAsks(c, t) PROVE Blocking'
  <2>1. /\ status' = "paused" /\ ~Known(s) /\ UNCHANGED <<flights, unrecorded>>
        /\ calls' = [calls EXCEPT ![s] = Opened(c, t, "pending")]
    BY <1>10 DEF PlanAsks, history
  <2>2. \A q \in Seqs : q # s => calls'[q] = calls[q]
    BY <1>3, <2>1
  <2>3. ASSUME NEW q \in Seqs PROVE Lost(q)'
    <3>1. CASE q \in unrecorded
      <4>1. Known(q) /\ q # s
        BY <2>1, <3>1 DEF Blocking, Lost
      <4>. QED BY <2>1, <2>2, <4>1 DEF Blocking, Lost, Open, Known
    <3>. QED BY <2>1, <3>1 DEF Lost
  <2>. QED BY <2>1, <2>3 DEF Blocking, Passed, MayInvoke
<1>11. ASSUME NEW t \in Tools, PlanStarts(c, t) PROVE Blocking'
  <2>. DEFINE f == [pass |-> c, attempt |-> passes[c].attempt, seq |-> s, held |-> FALSE]
  <2>1. /\ calls' = [calls EXCEPT ![s] = Opened(c, t, "running")]
        /\ flights' = flights \cup {f} /\ status' = status
        /\ started' = [started EXCEPT ![s] = Append(@, f)]
        /\ UNCHANGED <<unrecorded, refused>>
        /\ Known(s) => Repeatable(calls[s]) /\ calls[s].name = t
    BY <1>11 DEF PlanStarts
  <2>2. /\ \A q \in Seqs : q # s => calls'[q] = calls[q] /\ started'[q] = started[q]
        /\ calls'[s] = Opened(c, t, "running") /\ started'[s] = Append(started[s], f)
        /\ f \in Flight /\ started[s] \in Seq(Flight)
    BY <1>0, <1>3, <2>1 DEF IInv, TypeOK, Flight, Pass
  <2>3. s \in unrecorded => t \in Reexecute
    BY <1>0, <2>1 DEF Blocking, Lost, Open, Repeatable
  <2>4. calls'[s] # NoCall /\ calls'[s].name = t
    <3>1. Opened(c, t, "running") \in CallState
      BY OpenedType
    <3>2. calls'[s] # NoCall
      BY <2>2, <3>1, NoCallAssumption
    <3>3. calls'[s].name = t
      BY <2>2 DEF Opened
    <3>. QED BY <3>2, <3>3
  <2>5. ASSUME NEW q \in Seqs PROVE Lost(q)'
    <3>1. CASE q = s
      BY <2>1, <2>3, <2>4, <3>1 DEF Lost, Known
    <3>2. CASE q # s
      <4>1. (Open(q)' <=> Open(q)) /\ (Known(q)' <=> Known(q)) /\ f.seq # q
            /\ calls'[q] = calls[q]
        BY <2>2, <3>2 DEF Open, Known
      <4>. HIDE DEF f
      <4>. QED BY <2>1, <4>1 DEF Blocking, Lost
    <3>. QED BY <3>1, <3>2
  <2>6. ASSUME NEW q \in Seqs, NEW d \in Passes PROVE Passed(d, q)'
    <3> SUFFICES ASSUME d = c, q < s + 1, Open(q)', q \notin refused, status = "running"
                 PROVE  started'[q] # <<>> /\ started'[q][1].pass = c /\ q \notin unrecorded
      BY <1>0, <2>1 DEF Passed, MayInvoke
    <3>1. CASE q = s
      <4>1. t \notin Reexecute
        BY <2>4, <3>1 DEF Open
      <4>2. Len(started'[q]) <= 1
        BY DEF IInv, Accounted, Open
      <4>3. /\ Len(started[s]) \in Nat
            /\ Len(started'[s]) = Len(started[s]) + 1
            /\ started'[s][Len(started[s]) + 1] = f /\ started'[s] # <<>>
        <5>. HIDE DEF f
        <5>. QED BY <2>2, Appended
      <4>4. started'[s][1] = f
        BY <3>1, <4>2, <4>3
      <4>. QED BY <2>3, <3>1, <4>1, <4>3, <4>4
    <3>2. CASE q # s
      <4>1. q < s /\ Open(q) /\ started'[q] = started[q]
        BY <1>0, <2>2, <3>2 DEF Seqs, Open, Known
      <4>. QED BY <1>0, <1>2, <4>1 DEF Blocking, Passed, MayInvoke
    <3>. QED BY <3>1, <3>2
  <2>. QED BY <2>5, <2>6 DEF Blocking
<1>. QED BY <1>5, <1>6, <1>7, <1>8, <1>9, <1>10, <1>11 DEF PlanCall

LEMMA BlockingNext ==
  ASSUME Overlap = FALSE, IInv, IInv', OneAtATime, Ordered, Blocking, [Next]_vars
  PROVE  Blocking'
<1>0. /\ passes \in [Passes -> Pass] /\ flights \subseteq Flight
      /\ calls \in [Seqs -> CallState \cup {NoCall}]
  BY DEF IInv, TypeOK
<1>1. CASE UNCHANGED vars
  BY <1>1, BlockingKept DEF vars, execution, history
<1>2. ASSUME NEW c \in Passes, PlanCall(c) PROVE Blocking'
  BY <1>2, PlanBlocks
<1>3. ASSUME NEW c \in Passes, RunStep(c) PROVE Blocking'
  <2>1. /\ Active(c) /\ \A d \in Passes \ {c} : passes'[d].phase # "live"
        /\ UNCHANGED <<calls, flights, started, unrecorded, refused>>
    BY <1>3, RunFrame DEF OneAtATime, Active, history
  <2>2. CASE RetryPass(c)
    <3>1. passes'[c].cursor = 0
      BY <1>0, <2>2 DEF RetryPass, NewPass
    <3>2. \A q \in Seqs : Lost(q)'
      BY <2>1 DEF Blocking, Lost, Open, Known
    <3>3. \A q \in Seqs, d \in Passes : Passed(d, q)'
      BY <2>1, <3>1 DEF Passed, MayInvoke, Seqs
    <3>. QED BY <3>2, <3>3 DEF Blocking
  <2>3. CASE passes'[c].phase # "live"
    <3>1. \A q \in Seqs : Lost(q)'
      BY <2>1 DEF Blocking, Lost, Open, Known
    <3>2. \A q \in Seqs, d \in Passes : Passed(d, q)'
      BY <2>1, <2>3 DEF Passed, MayInvoke
    <3>. QED BY <3>1, <3>2 DEF Blocking
  <2>4. CASE \/ SettleRun(c) \/ SettleFails(c)
             \/ \E ending \in {"success", "error", "cancelled"} :
                  PassEnds(c, ending) \/ PassThrows(c, ending)
    <3>1. passes'[c].phase # "live"
      BY <1>0, <2>4 DEF SettleRun, SettleFails, PassEnds, PassThrows, Pass
    <3>. QED BY <2>3, <3>1
  <2>. QED BY <1>3, <2>2, <2>4 DEF RunStep
<1>4. ASSUME NEW f \in flights, ReturnUnrecorded(f) PROVE Blocking'
  <2>1. /\ f.seq \in Seqs /\ f.pass \in Passes
        /\ passes' = [passes EXCEPT ![f.pass].incomplete = TRUE]
        /\ unrecorded' = unrecorded \cup {f.seq} /\ flights' = flights \ {f}
        /\ UNCHANGED <<status, calls, started, refused>>
        /\ Known(f.seq) /\ calls[f.seq].status = "running" /\ ~f.held
    BY <1>0, <1>4, StraysSettleNothing DEF ReturnUnrecorded, Matches, Flight, execution
  <2>2. \A q \in Seqs : (Open(q)' <=> Open(q)) /\ (Known(q)' <=> Known(q))
    BY <2>1 DEF Open, Known
  <2>3. /\ \A d \in Passes : /\ passes'[d].phase = passes[d].phase
                             /\ passes'[d].cursor = passes[d].cursor
                             /\ ~passes'[d].incomplete => ~passes[d].incomplete
        /\ passes'[f.pass].incomplete
    BY <1>0, <2>1 DEF Pass
  <2>4. ASSUME NEW q \in Seqs PROVE Lost(q)'
    <3>1. ASSUME q = f.seq, Open(q), NEW g \in flights, ~g.held, g.seq = q PROVE g = f
      BY <2>1, <3>1, OnlyStart
    <3>. QED BY <2>1, <2>2, <3>1 DEF Blocking, Lost, Open, Known
  <2>5. ASSUME NEW q \in Seqs, NEW d \in Passes PROVE Passed(d, q)'
    <3> SUFFICES ASSUME MayInvoke(d)', q < passes[d].cursor, Open(q), q \notin refused
                 PROVE  started[q] # <<>> /\ started[q][1].pass = d /\ q \notin unrecorded'
      BY <2>1, <2>2, <2>3 DEF Passed
    <3>1. MayInvoke(d) /\ d # f.pass
      BY <2>1, <2>3 DEF MayInvoke
    <3>2. started[q] # <<>> /\ started[q][1].pass = d /\ q \notin unrecorded
      BY <3>1 DEF Blocking, Passed
    <3>3. q # f.seq
      BY <2>1, <3>1, <3>2, OnlyStart
    <3>. QED BY <2>1, <3>2, <3>3
  <2>. QED BY <2>4, <2>5 DEF Blocking
\* A result, or a compensation, leaves a lost call as it is.
<1>5. ASSUME UNCHANGED <<started, unrecorded, refused>>,
             flights' \subseteq flights, status' = "running" => status = "running",
             \A d \in Passes : passes'[d].phase = "live" => passes'[d] = passes[d],
             \A q \in Seqs :
               \/ calls'[q] = calls[q]
               \/ /\ Known(q) /\ calls'[q] # NoCall
                  /\ calls'[q].name = calls[q].name
                  /\ calls'[q].status # "running"
                  /\ Open(q) => \E f \in flights : ~f.held /\ f.seq = q
      PROVE  Blocking'
  <2>1. \A q \in Seqs : Open(q)' => Open(q)
    BY <1>5 DEF Open, Known
  <2>2. \A q \in Seqs : Lost(q)'
    BY <1>5 DEF Blocking, Lost, Open, Known
  <2>3. \A q \in Seqs, d \in Passes : Passed(d, q)'
    BY <1>5, <2>1 DEF Blocking, Passed, MayInvoke
  <2>. QED BY <2>2, <2>3 DEF Blocking
<1>6. ASSUME NEW f \in flights, NEW result \in {"success", "error"}, Return(f, result)
      PROVE  Blocking'
  <2>1. f.seq \in Seqs
    BY <1>0 DEF Flight
  <2>2. ASSUME NEW q \in Seqs, calls'[q] # calls[q]
        PROVE  /\ q = f.seq /\ Known(q) /\ calls'[q] # NoCall /\ ~f.held
               /\ calls'[q].name = calls[q].name /\ calls'[q].status # "running"
    <3>1. /\ calls' = [calls EXCEPT ![f.seq].status = result] /\ Known(f.seq) /\ q = f.seq
          /\ Matches(f) /\ CanReturn(f)
      BY <1>0, <1>6, <2>1, <2>2 DEF Return, Records, Matches
    <3>2. calls[q] \in CallState /\ calls'[q] = [calls[q] EXCEPT !.status = result]
      BY <1>0, <2>1, <3>1 DEF Known
    <3>3. calls'[q] \in CallState
      BY <3>2 DEF CallState
    <3>. QED BY <3>1, <3>2, <3>3, NoCallAssumption, StraysSettleNothing DEF CallState
  <2>. QED BY <1>5, <1>6, <2>2 DEF Return, execution, history
<1>7. CASE HostLoss
  <2>1. ASSUME NEW q \in Seqs, calls'[q] # calls[q]
        PROVE  /\ Known(q) /\ calls'[q] # NoCall
               /\ calls'[q].name = calls[q].name /\ calls'[q].status # "running"
               /\ \E f \in flights : ~f.held /\ f.seq = q
    <3>1. /\ calls'[q] = [calls[q] EXCEPT !.status = "error"]
          /\ Known(q) /\ \E f \in flights : ~f.held /\ f.seq = q
      BY <1>7, <2>1 DEF HostLoss, IsStep, Records, Matches
    <3>2. calls[q] \in CallState
      BY <1>0, <3>1 DEF Known
    <3>3. calls'[q] \in CallState
      BY <3>1, <3>2 DEF CallState
    <3>. QED BY <3>1, <3>2, <3>3, NoCallAssumption DEF CallState
  <2>2. ASSUME NEW d \in Passes PROVE passes'[d].phase # "live"
    BY <1>0, <1>7 DEF HostLoss, Pass
  <2>. QED BY <1>5, <1>7, <2>1, <2>2 DEF HostLoss, execution
<1>8. CASE Restart
  <2>1. ASSUME NEW d \in Passes PROVE passes'[d].phase # "live"
    BY <1>0, <1>8 DEF Restart, Pass
  <2>. QED BY <1>8, <2>1, BlockingKept DEF Restart, execution, history
<1>9. CASE RecordUndone
  <2>1. ASSUME NEW q \in Seqs, calls'[q] # calls[q]
        PROVE  /\ Known(q) /\ calls'[q] # NoCall /\ ~Open(q)
               /\ calls'[q].name = calls[q].name /\ calls'[q].status # "running"
    <3>1. /\ calls'[q] = [calls[q] EXCEPT !.compensated = TRUE]
          /\ Known(q) /\ calls[q].status = "success"
      BY <1>0, <1>9, <2>1 DEF RecordUndone, Applied
    <3>2. calls[q] \in CallState
      BY <1>0, <3>1 DEF Known
    <3>3. calls'[q] \in CallState
      BY <3>1, <3>2 DEF CallState
    <3>. QED BY <3>1, <3>2, <3>3, NoCallAssumption DEF CallState, Open
  <2>. QED BY <1>5, <1>9, <2>1 DEF RecordUndone, history
<1>10. ASSUME NEW c \in Passes, Resume(c) PROVE Blocking'
  <2>1. \A d \in Passes : ~Active(d)
    BY <1>10 DEF Resume, CommandMayRun, TurnIsOver, Active
  <2>2. /\ passes'[c].cursor = 0 /\ \A d \in Passes \ {c} : passes'[d].phase # "live"
        /\ UNCHANGED <<calls, flights, started, unrecorded, refused>>
    BY <1>0, <1>10, <2>1 DEF Resume, NewPass, Active
  <2>3. \A q \in Seqs : Lost(q)'
    BY <2>2 DEF Blocking, Lost, Open, Known
  <2>4. \A q \in Seqs, d \in Passes : Passed(d, q)'
    BY <2>2 DEF Passed, MayInvoke, Seqs
  <2>. QED BY <2>3, <2>4 DEF Blocking
<1>11. CASE Reject \/ Abandon \/ Expire \/ RollbackStarts \/ Undo \/ UndoFails
            \/ RecordFails \/ RollbackEnds
  <2>1. /\ UNCHANGED <<calls, passes, flights, started, unrecorded, refused>>
        /\ status' = "running" => status = "running"
    BY <1>11 DEF Reject, Abandon, Expire, RollbackStarts, Undo, UndoFails, RecordFails,
                 RollbackEnds, execution, history
  <2>. QED BY <2>1, BlockingKept
<1>. QED BY <1>1, <1>2, <1>3, <1>4, <1>6, <1>7, <1>8, <1>9, <1>10, <1>11
         DEF Next, Command, Settlement

\* An effect whose result could not be recorded stops whatever comes behind
\* it, in this pass and in every replay, for any program.
THEOREM UnrecordedAlwaysBlocks ==
  ASSUME Overlap = FALSE
  PROVE  Spec => UnrecordedBlocks
<1>1. IInv /\ OneAtATime /\ Blocking /\ [Next]_vars =>
        [\A q \in Seqs, s \in unrecorded \ refused :
           started'[q] # started[q] /\ s < q => calls[s].name \in Reexecute]_vars
  <2> SUFFICES ASSUME IInv, OneAtATime, Blocking, Next, NEW q \in Seqs,
                      NEW s \in unrecorded \ refused, started'[q] # started[q], s < q,
                      calls[s].name \notin Reexecute
               PROVE  FALSE
    OBVIOUS
  <2>1. s \in Seqs
    BY DEF IInv, TypeOK
  <2>2. PICK c \in Passes, t \in Tools : PlanStarts(c, t)
    <3>1. Command => started' = started
      BY DEF Command, Resume, Reject, Abandon, Expire, RollbackStarts, Undo, UndoFails,
             RecordUndone, RecordFails, RollbackEnds, history
    <3>2. \A c \in Passes : RunStep(c) => started' = started
      BY RunFrame DEF history
    <3>. QED BY <3>1, <3>2, SettlementFrame DEF Next, PlanCall, PlanPauses, PlanStrays, PlanDiverges,
             PlanRefused, PlanReplays, PlanUncertain, PlanAsks, history
  <2>3. q = passes[c].cursor /\ MayInvoke(c)
    BY <2>2 DEF PlanStarts, Plans, Held, MayInvoke, IInv, TypeOK
  <2>4. Open(s)
    BY <2>1 DEF Blocking, Lost
  <2>. QED BY <2>1, <2>3, <2>4 DEF Blocking, Passed
<1>2. IInv /\ IInv' /\ OneAtATime /\ Ordered /\ Blocking /\ [Next]_vars => Blocking'
  BY BlockingNext
<1>. QED BY <1>1, <1>2, BlockingInit, OrderedAlways, Invariance, PTL
         DEF Spec, UnrecordedBlocks

-----------------------------------------------------------------------------
(* Compensation.  An invocation pays for one inverse operation, and so does
   every restart or failed append: what is still to be undone is paid for.  *)

Invoked(s) == Known(s) /\ calls[s].status # "pending"

\* Its inverse operation took effect and is not recorded.
Unconfirmed(s) == rollback.phase = "record" /\ s = Target

Paid(s) == Len(started[s]) + faults

\* A target that was invoked again since it was chosen has paid once more.
Repaid(s) ==
  /\ undone[s] <= Paid(s)
  /\ Invoked(s) /\ ~calls[s].compensated /\ ~Unconfirmed(s) => undone[s] + 1 <= Paid(s)
  /\ rollback.phase # "idle" /\ s \in rollback.todo =>
       /\ Invoked(s)
       /\ IF Unconfirmed(s)
          THEN calls[s].status # "success" => undone[s] + 1 <= Paid(s)
          ELSE /\ ~calls[s].compensated
               /\ calls[s].status # "success" => undone[s] + 2 <= Paid(s)

Repayment ==
  /\ rollback.phase = "record" => rollback.todo # {}
  /\ \A s \in Seqs : Repaid(s)

\* A set of calls that is not empty has a last one.
LEMMA LastExists ==
  ASSUME NEW S \in SUBSET Seqs, S # {}
  PROVE  \E s \in S : \A q \in S : q <= s
<1>. DEFINE R == OpToRel(<, Nat)
            T == {n \in Nat : \E s \in S : n = MaxCalls - 1 - s}
<1>1. \A s \in S : MaxCalls - 1 - s \in Nat /\ s \in Nat
  BY BoundAssumption DEF Seqs
<1>2. T \subseteq Nat /\ T # {}
  BY <1>1
<1>3. IsWellFoundedOn(R, Nat)
  BY NatLessThanWellFounded
<1>4. PICK n \in T : \A m \in T : <<m, n>> \notin R
  <2>. HIDE DEF R, T
  <2>. QED BY <1>2, <1>3, WFMin
<1>5. \A m \in T : ~(m < n)
  BY <1>4 DEF OpToRel
<1>6. PICK s \in S : n = MaxCalls - 1 - s
  OBVIOUS
<1>7. ASSUME NEW q \in S PROVE q <= s
  <2>1. MaxCalls - 1 - q \in T
    BY <1>1
  <2>2. ~(MaxCalls - 1 - q < MaxCalls - 1 - s)
    BY <1>5, <1>6, <2>1
  <2>. QED BY <1>1, <2>2, BoundAssumption
<1>. QED BY <1>7

LEMMA TargetIsChosen ==
  ASSUME IInv, rollback.todo # {}
  PROVE  Target \in rollback.todo /\ Target \in Seqs
<1>1. rollback.todo \in SUBSET Seqs
  BY DEF IInv, TypeOK
<1>2. \E s \in rollback.todo : \A q \in rollback.todo : q <= s
  BY <1>1, LastExists
<1>. QED BY <1>1, <1>2 DEF Target

\* What settles a running call or costs a fault leaves the rest paid.
LEMMA RepaidKept ==
  ASSUME TypeOK, TypeOK', NEW s \in Seqs, Repaid(s),
         started'[s] = started[s], undone' = undone, rollback' = rollback, faults <= faults',
         \/ calls'[s] = calls[s]
         \/ /\ Known(s) /\ Known(s)' /\ calls[s].status = "running"
            /\ calls'[s].status \in {"success", "error"}
            /\ calls'[s].compensated = calls[s].compensated
  PROVE  Repaid(s)'
<1>1. /\ undone[s] \in Nat /\ Len(started[s]) \in Nat /\ faults \in Nat /\ faults' \in Nat
  BY DEF TypeOK
<1>2. Paid(s) \in Nat /\ Paid(s)' \in Nat /\ Paid(s) <= Paid(s)'
  BY <1>1 DEF Paid
<1>3. Unconfirmed(s)' <=> Unconfirmed(s)
  BY DEF Unconfirmed, Target
<1>4. Invoked(s)' <=> Invoked(s)
  BY DEF Invoked, Known
<1>5. CASE calls'[s] = calls[s]
  BY <1>1, <1>2, <1>3, <1>4, <1>5 DEF Repaid
<1>6. CASE /\ Known(s) /\ Known(s)' /\ calls[s].status = "running"
           /\ calls'[s].status \in {"success", "error"}
           /\ calls'[s].compensated = calls[s].compensated
  BY <1>1, <1>2, <1>3, <1>4, <1>6 DEF Repaid
<1>. QED BY <1>5, <1>6

LEMMA PlanRepays ==
  ASSUME IInv, IInv', Repayment, NEW c \in Passes, PlanCall(c)
  PROVE  Repayment'
<1>. TypeOK /\ TypeOK'
  BY DEF IInv
<1>. DEFINE p == passes[c].cursor
<1>0. p \in Seqs /\ calls \in [Seqs -> CallState \cup {NoCall}] /\ started \in [Seqs -> Seq(Flight)]
      /\ undone \in [Seqs -> Nat] /\ faults \in Nat
  BY PlanFrame DEF IInv, TypeOK
<1>1. undone' = undone /\ rollback' = rollback /\ faults' \in Nat /\ faults <= faults'
  BY <1>0 DEF PlanCall, PlanPauses, PlanStrays, PlanDiverges, PlanRefused, PlanReplays, PlanUncertain, PlanAsks, PlanStarts,
     history, Fault
<1>2. \/ calls' = calls /\ started' = started
      \/ \E t \in Tools : PlanAsks(c, t) \/ PlanStarts(c, t)
  BY DEF PlanCall, PlanPauses, PlanStrays, PlanDiverges, PlanRefused, PlanReplays, PlanUncertain, history
<1>3. ASSUME NEW s \in Seqs PROVE Repaid(s)'
  <2>. Repaid(s)
    BY DEF Repayment
  <2>1. CASE calls'[s] = calls[s] /\ started'[s] = started[s]
    BY <1>1, <2>1, RepaidKept
  <2>2. ASSUME NEW t \in Tools, PlanAsks(c, t), s = p PROVE Repaid(s)'
    <3>1. ~Known(s) /\ calls'[s] = Opened(c, t, "pending") /\ started'[s] = started[s]
      BY <1>0, <2>2 DEF PlanAsks, history
    <3>2. ~Invoked(s) /\ ~Invoked(s)'
      BY <3>1 DEF Invoked, Opened
    <3>3. Paid(s)' = Len(started[s]) + faults' /\ Len(started[s]) \in Nat
      BY <1>0, <3>1 DEF Paid
    <3>. QED BY <1>0, <1>1, <3>2, <3>3 DEF Repaid, Paid
  <2>3. ASSUME NEW t \in Tools, PlanStarts(c, t), s = p PROVE Repaid(s)'
    <3>1. /\ calls'[s] = Opened(c, t, "running") /\ faults' = faults
          /\ \E f \in Flight : started'[s] = Append(started[s], f)
      <4>1. [pass |-> c, attempt |-> passes[c].attempt, seq |-> p, held |-> FALSE] \in Flight
        BY <1>0 DEF Flight, TypeOK, Pass
      <4>. QED BY <1>0, <2>3, <4>1 DEF PlanStarts
    <3>2. Paid(s)' = Paid(s) + 1 /\ Paid(s) \in Nat
      <4>1. PICK f \in Flight : started'[s] = Append(started[s], f)
        BY <3>1
      <4>2. Len(Append(started[s], f)) = Len(started[s]) + 1 /\ Len(started[s]) \in Nat
        BY <1>0
      <4>3. Len(started'[s]) = Len(started[s]) + 1
        BY <4>1, <4>2
      <4>4. ASSUME NEW n \in Nat, NEW m \in Nat PROVE (n + 1) + m = (n + m) + 1 /\ n + m \in Nat
        OBVIOUS
      <4>5. faults \in Nat
        BY <1>0
      <4>6. Paid(s) = Len(started[s]) + faults
        BY DEF Paid
      <4>7. Paid(s)' = (Len(started[s]) + 1) + faults
        BY <3>1, <4>3 DEF Paid
      <4>. QED BY <4>2, <4>4, <4>5, <4>6, <4>7
    <3>3. Known(s)' /\ Invoked(s)' /\ ~calls'[s].compensated /\ calls'[s].status = "running"
      <4>1. calls'[s] \in CallState
        BY <3>1, OpenedType
      <4>2. calls'[s] # NoCall
        BY <4>1, NoCallAssumption
      <4>3. calls'[s].status = "running" /\ ~calls'[s].compensated
        BY <3>1 DEF Opened
      <4>. QED BY <4>2, <4>3 DEF Known, Invoked
    <3>4. Unconfirmed(s)' <=> Unconfirmed(s)
      BY <1>1 DEF Unconfirmed, Target
    <3>5. undone[s] + 1 <= Paid(s)' /\ undone[s] \in Nat
      BY <1>0, <3>2 DEF Repaid
    <3>6. rollback.phase # "idle" /\ s \in rollback.todo /\ ~Unconfirmed(s) => undone[s] + 2 <= Paid(s)'
      BY <3>2, <3>5 DEF Repaid
    <3>. QED BY <1>1, <3>2, <3>3, <3>4, <3>5, <3>6 DEF Repaid
  <2>4. ASSUME NEW t \in Tools, PlanAsks(c, t) \/ PlanStarts(c, t), s # p
        PROVE  calls'[s] = calls[s] /\ started'[s] = started[s]
    BY <1>0, <2>4 DEF PlanAsks, PlanStarts, history
  <2>. QED BY <1>2, <2>1, <2>2, <2>3, <2>4
<1>. QED BY <1>1, <1>3 DEF Repayment

LEMMA CommandRepays ==
  ASSUME IInv, IInv', Repayment, Command
  PROVE  Repayment'
<1>. TypeOK /\ TypeOK'
  BY DEF IInv
<1>0. /\ calls \in [Seqs -> CallState \cup {NoCall}] /\ started \in [Seqs -> Seq(Flight)]
      /\ undone \in [Seqs -> Nat] /\ faults \in Nat
      /\ rollback \in [phase : {"idle", "undo", "record"}, todo : SUBSET Seqs, failed : BOOLEAN]
      /\ \A s \in Seqs : Repaid(s) /\ Paid(s) \in Nat
  BY DEF TypeOK, Repayment, Paid
<1>1. CASE UNCHANGED <<calls, started, undone, rollback, faults>>
  BY <1>1, RepaidKept DEF Repayment, TypeOK
<1>2. CASE RollbackStarts
  <2>1. /\ rollback.phase = "idle" /\ rollback'.phase = "undo" /\ rollback'.todo = {s \in Seqs : Applied(s)}
        /\ UNCHANGED <<calls, started, undone, faults>>
    BY <1>2 DEF RollbackStarts, history
  <2>2. ASSUME NEW s \in Seqs PROVE Repaid(s)'
    BY <1>0, <2>1 DEF Repaid, Applied, Invoked, Known, Unconfirmed, Paid
  <2>. QED BY <2>1, <2>2 DEF Repayment
<1>3. CASE Undo
  <2>1. /\ rollback.phase = "undo" /\ Target \in rollback.todo /\ Target \in Seqs
        /\ rollback'.phase = "record" /\ rollback'.todo = rollback.todo
        /\ undone' = [undone EXCEPT ![Target] = @ + 1]
        /\ UNCHANGED <<calls, started, faults>>
    BY <1>0, <1>3, TargetIsChosen DEF Undo
  <2>2. Target' = Target
    BY <2>1 DEF Target
  <2>3. ASSUME NEW s \in Seqs PROVE Repaid(s)'
    <3>1. /\ ~Unconfirmed(s) /\ (Unconfirmed(s)' <=> s = Target)
          /\ Invoked(s)' = Invoked(s) /\ Paid(s)' = Paid(s) /\ calls'[s] = calls[s]
          /\ undone'[s] = IF s = Target THEN undone[s] + 1 ELSE undone[s]
      BY <1>0, <2>1, <2>2 DEF Unconfirmed, Invoked, Known, Paid
    <3>2. Repaid(s) /\ undone[s] \in Nat /\ Paid(s) \in Nat
      BY <1>0
    <3>3. CASE s = Target
      <4>1. /\ Invoked(s) /\ undone[s] + 1 <= Paid(s)
            /\ calls[s].status # "success" => undone[s] + 2 <= Paid(s)
        BY <2>1, <3>1, <3>2, <3>3 DEF Repaid
      <4>. QED BY <2>1, <3>1, <3>2, <3>3, <4>1 DEF Repaid
    <3>4. CASE s # Target
      BY <2>1, <3>1, <3>2, <3>4 DEF Repaid
    <3>. QED BY <3>3, <3>4
  <2>. QED BY <2>1, <2>3 DEF Repayment
<1>4. ASSUME rollback.todo # {}, rollback'.phase = "undo", rollback'.todo = rollback.todo \ {Target},
             UNCHANGED <<started, undone>>, faults' \in Nat,
             \A s \in Seqs \ {Target} : calls'[s] = calls[s],
             faults' = faults \/ faults' = faults + 1,
             \/ rollback.phase = "undo" /\ calls' = calls
             \/ rollback.phase = "record" /\ calls' = calls /\ faults' = faults + 1
             \/ rollback.phase = "record" /\ calls' = calls /\ ~Applied(Target)
             \/ rollback.phase = "record" /\ calls'[Target].compensated
      PROVE  Repayment'
  <2>1. Target \in rollback.todo /\ Target \in Seqs
    BY <1>4, TargetIsChosen
  <2>2. ASSUME NEW s \in Seqs, s # Target PROVE Repaid(s)'
    <3>1. /\ ~Unconfirmed(s) /\ ~Unconfirmed(s)' /\ Invoked(s)' = Invoked(s) /\ calls'[s] = calls[s]
          /\ Paid(s) <= Paid(s)' /\ Paid(s) \in Nat /\ Paid(s)' \in Nat /\ undone'[s] = undone[s] /\ undone[s] \in Nat
      BY <1>0, <1>4, <2>2 DEF Unconfirmed, Invoked, Known, Paid
    <3>2. Repaid(s) /\ (s \in rollback'.todo <=> s \in rollback.todo) /\ rollback.phase # "idle"
      BY <1>0, <1>4, <2>2
    <3>. QED BY <1>4, <3>1, <3>2 DEF Repaid
  <2>3. ASSUME NEW s \in Seqs, s = Target PROVE Repaid(s)'
    <3>1. /\ s \in rollback.todo /\ s \notin rollback'.todo /\ ~Unconfirmed(s)'
          /\ undone'[s] = undone[s] /\ undone[s] \in Nat
          /\ Paid(s) \in Nat /\ Paid(s)' \in Nat
          /\ Paid(s)' = Paid(s) \/ Paid(s)' = Paid(s) + 1
      <4>1. s \in rollback.todo /\ s \notin rollback'.todo /\ ~Unconfirmed(s)'
        BY <1>4, <2>1, <2>3 DEF Unconfirmed
      <4>2. undone[s] \in Nat /\ Len(started[s]) \in Nat /\ faults \in Nat
        BY <1>0
      <4>. QED BY <1>4, <4>1, <4>2 DEF Paid
    <3>2. Repaid(s) /\ Invoked(s)
      BY <1>0, <1>4, <3>1 DEF Repaid
    <3>3. CASE rollback.phase = "undo" /\ calls' = calls
      <4>1. ~Unconfirmed(s)
        BY <3>3 DEF Unconfirmed
      <4>2. undone[s] + 1 <= Paid(s)
        BY <1>4, <3>1, <3>2, <3>3, <4>1 DEF Repaid
      <4>. QED BY <3>1, <4>2 DEF Repaid
    <3>4. CASE calls' = calls /\ faults' = faults + 1
      <4>1. Paid(s)' = Paid(s) + 1
        BY <1>0, <1>4, <3>4 DEF Paid
      <4>. QED BY <3>1, <3>2, <4>1 DEF Repaid
    <3>5. CASE rollback.phase = "record" /\ calls' = calls /\ ~Applied(Target)
      <4>1. calls[s].status # "success" \/ calls[s].compensated
        BY <2>3, <3>2, <3>5 DEF Applied, Invoked
      <4>2. Unconfirmed(s) /\ (calls[s].status # "success" => undone[s] + 1 <= Paid(s))
        BY <2>3, <3>1, <3>2, <3>5 DEF Unconfirmed, Repaid
      <4>3. calls'[s] = calls[s]
        BY <3>5
      <4>. QED BY <3>1, <3>2, <4>1, <4>2, <4>3 DEF Repaid
    <3>6. CASE rollback.phase = "record" /\ calls'[Target].compensated
      BY <2>3, <3>1, <3>2, <3>6 DEF Repaid
    <3>. QED BY <1>4, <3>3, <3>4, <3>5, <3>6
  <2>. QED BY <1>4, <2>2, <2>3 DEF Repayment
<1>5. CASE UndoFails
  <2>1. rollback' = NextTarget(TRUE) /\ rollback.phase = "undo" /\ rollback.todo # {}
        /\ UNCHANGED <<calls, started, undone, faults>>
    BY <1>5 DEF UndoFails, history
  <2>. QED BY <1>0, <1>4, <2>1 DEF NextTarget
<1>6. CASE RecordFails
  <2>1. rollback' = NextTarget(TRUE) /\ rollback.phase = "record" /\ rollback.todo # {} /\ faults' = faults + 1
        /\ UNCHANGED <<calls, started, undone>>
    BY <1>6 DEF RecordFails, Fault, history, Repayment
  <2>. QED BY <1>0, <1>4, <2>1 DEF NextTarget
<1>7. CASE RecordUndone
  <2>1. /\ rollback.phase = "record" /\ rollback.todo # {}
        /\ rollback'.phase = "undo" /\ rollback'.todo = rollback.todo \ {Target}
        /\ UNCHANGED <<started, undone, faults>>
    BY <1>7 DEF RecordUndone, NextTarget, history, Repayment
  <2>2. CASE Applied(Target)
    <3>1. calls' = [calls EXCEPT ![Target].compensated = TRUE] /\ Target \in Seqs
      BY <1>7, <2>1, <2>2, TargetIsChosen DEF RecordUndone
    <3>2. calls[Target] \in CallState
      BY <1>0, <2>2, <3>1 DEF Applied, Known
    <3>3. calls'[Target].compensated
      BY <1>0, <3>1, <3>2 DEF CallState
    <3>4. \A s \in Seqs \ {Target} : calls'[s] = calls[s]
      BY <1>0, <3>1
    <3>. QED BY <1>0, <1>4, <2>1, <3>3, <3>4
  <2>3. CASE ~Applied(Target)
    <3>1. calls' = calls
      BY <1>7, <2>3 DEF RecordUndone
    <3>. QED BY <1>0, <1>4, <2>1, <2>3, <3>1
  <2>. QED BY <2>2, <2>3
<1>8. CASE RollbackEnds
  <2>1. rollback'.phase = "idle" /\ UNCHANGED <<calls, started, undone, faults>> /\ rollback.phase = "undo"
    BY <1>8 DEF RollbackEnds, IdleRollback, history
  <2>2. ASSUME NEW s \in Seqs PROVE Repaid(s)'
    BY <1>0, <2>1 DEF Repaid, Invoked, Known, Unconfirmed, Paid
  <2>. QED BY <2>1, <2>2 DEF Repayment
<1>9. CASE (\E c \in Passes : Resume(c)) \/ Reject \/ Abandon \/ Expire
  BY <1>1, <1>9 DEF Resume, Reject, Abandon, Expire, history
<1>. QED BY <1>2, <1>3, <1>5, <1>6, <1>7, <1>8, <1>9 DEF Command

\* Settlements pay nothing and owe nothing; a fault pays for what it loses.
LEMMA OthersRepay ==
  ASSUME IInv, IInv', Repayment,
         (\E c \in Passes : RunStep(c)) \/ Settlement \/ HostLoss \/ Restart
  PROVE  Repayment'
<1>. /\ TypeOK /\ TypeOK' /\ faults \in Nat /\ calls \in [Seqs -> CallState \cup {NoCall}]
     /\ \A s \in Seqs : Repaid(s)
  BY DEF IInv, TypeOK, Repayment
<1>1. CASE \E c \in Passes : RunStep(c)
  <2>1. UNCHANGED <<calls, started, undone, rollback>>
    BY <1>1 DEF RunStep, RetryPass, SettleRun, SettleFails, PassEnds, PassThrows, history
  <2>2. faults <= faults'
    BY <1>1 DEF RunStep, RetryPass, SettleRun, SettleFails, PassEnds, PassThrows, Fault
  <2>. QED BY <2>1, <2>2, RepaidKept DEF Repayment
<1>2. CASE Settlement
  <2>1. PICK f \in flights :
          ReturnUnrecorded(f) \/ \E result \in {"success", "error"} : Return(f, result)
    BY <1>2 DEF Settlement
  <2>2. UNCHANGED <<started, undone, rollback, faults>> /\ f.seq \in Seqs
    BY <2>1 DEF ReturnUnrecorded, Return, history, TypeOK, Flight
  <2>3. ASSUME NEW s \in Seqs
        PROVE  \/ calls'[s] = calls[s]
               \/ /\ Known(s) /\ Known(s)' /\ calls[s].status = "running"
                  /\ calls'[s].status \in {"success", "error"}
                  /\ calls'[s].compensated = calls[s].compensated
    <3>1. CASE calls' = calls
      BY <3>1
    <3>2. ASSUME NEW result \in {"success", "error"}, Matches(f), calls' = [calls EXCEPT ![f.seq].status = result],
                 s = f.seq
          PROVE  /\ Known(s) /\ Known(s)' /\ calls[s].status = "running"
                 /\ calls'[s].status \in {"success", "error"}
                 /\ calls'[s].compensated = calls[s].compensated
      <4>1. Known(s) /\ calls[s].status = "running" /\ calls[s] \in CallState
            /\ [calls[s] EXCEPT !.status = result] \in CallState
        BY <3>2, StatusType DEF Matches
      <4>2. calls'[s] = [calls[s] EXCEPT !.status = result]
        BY <3>2
      <4>3. calls'[s] # NoCall
        BY <4>1, <4>2, NoCallAssumption
      <4>. QED BY <4>1, <4>2, <4>3 DEF Known, CallState
    <3>3. ASSUME NEW result \in {"success", "error"}, calls' = [calls EXCEPT ![f.seq].status = result], s # f.seq
          PROVE  calls'[s] = calls[s]
      BY <2>2, <3>3
    <3>. QED BY <2>1, <3>1, <3>2, <3>3 DEF ReturnUnrecorded, Return, Records
  <2>. QED BY <2>2, <2>3, RepaidKept DEF Repayment
<1>3. CASE HostLoss
  <2>1. UNCHANGED <<started, undone, rollback>> /\ faults <= faults'
    BY <1>3 DEF HostLoss, Fault
  <2>2. ASSUME NEW s \in Seqs
        PROVE  \/ calls'[s] = calls[s]
               \/ /\ Known(s) /\ Known(s)' /\ calls[s].status = "running"
                  /\ calls'[s].status \in {"success", "error"}
                  /\ calls'[s].compensated = calls[s].compensated
    <3>1. \/ calls'[s] = calls[s]
          \/ /\ calls'[s] = [calls[s] EXCEPT !.status = "error"]
             /\ Known(s) /\ calls[s].status = "running"
      BY <1>3 DEF HostLoss, Records, Matches
    <3>2. CASE /\ calls'[s] = [calls[s] EXCEPT !.status = "error"]
               /\ Known(s) /\ calls[s].status = "running"
      <4>1. calls[s] \in CallState /\ calls'[s] \in CallState
        BY <3>2, StatusType
      <4>2. calls'[s] # NoCall
        BY <4>1, NoCallAssumption
      <4>. QED BY <3>2, <4>1, <4>2 DEF Known, CallState
    <3>. QED BY <3>1, <3>2
  <2>. QED BY <2>1, <2>2, RepaidKept DEF Repayment
<1>4. CASE Restart
  <2>1. UNCHANGED <<calls, started, undone>> /\ rollback'.phase = "idle" /\ faults' = faults + 1
    BY <1>4 DEF Restart, IdleRollback, Fault, history
  <2>2. ASSUME NEW s \in Seqs PROVE Repaid(s)'
    <3>1. undone[s] \in Nat /\ Len(started[s]) \in Nat
      BY DEF TypeOK
    <3>2. Paid(s)' = Paid(s) + 1 /\ Paid(s) \in Nat
      <4>1. ASSUME NEW n \in Nat, NEW f \in Nat PROVE n + (f + 1) = (n + f) + 1 /\ n + f \in Nat
        OBVIOUS
      <4>2. faults \in Nat
        BY DEF TypeOK
      <4>3. Paid(s) = Len(started[s]) + faults
        BY DEF Paid
      <4>4. Paid(s)' = Len(started[s]) + (faults + 1)
        BY <2>1 DEF Paid
      <4>. QED BY <3>1, <4>1, <4>2, <4>3, <4>4
    <3>3. undone[s] <= Paid(s)
      BY DEF Repaid
    <3>. QED BY <2>1, <3>1, <3>2, <3>3 DEF Repaid
  <2>. QED BY <2>1, <2>2 DEF Repayment
<1>. QED BY <1>1, <1>2, <1>3, <1>4

(* The inverse operation of a call is repeated only when a restart or a    *)
(* failed append lost its record (rollback of controls.ts), also when      *)
(* commands overlap and the call is executed again meanwhile.              *)
THEOREM RepeatAlwaysNeedsFault == Spec => []RepeatNeedsFault
<1>1. Init => Repayment
  <2>. SUFFICES ASSUME Init PROVE Repayment
    OBVIOUS
  <2>. QED BY DEF Init, Repayment, Repaid, Paid, Invoked, Known, Unconfirmed, IdleRollback
<1>2. IInv /\ IInv' /\ Repayment /\ [Next]_vars => Repayment'
  <2>. SUFFICES ASSUME IInv, IInv', Repayment, [Next]_vars PROVE Repayment'
    OBVIOUS
  <2>1. CASE UNCHANGED vars
    BY <2>1 DEF vars, execution, history, Repayment, Repaid, Paid, Invoked, Known, Unconfirmed, Target
  <2>2. CASE Next
    BY <2>2, PlanRepays, CommandRepays, OthersRepay DEF Next
  <2>. QED BY <2>1, <2>2
<1>3. Repayment => RepeatNeedsFault
  BY DEF Repayment, Repaid, Paid, RepeatNeedsFault
<1>. QED BY <1>1, <1>2, <1>3, Invariance, PTL DEF Spec
=============================================================================
