--------------------------- MODULE CodeModeLedger ---------------------------
(***************************************************************************)
(* One durable Code Mode execution (code-mode/ledger.ts, ledger-state.ts)  *)
(* and the passes that run its program (runtime.ts) in the V8 Host         *)
(* (host/delegate-runtime.ts, host/host-client.ts).                        *)
(*                                                                         *)
(* A pass numbers the Tool calls of the program.  The Session ledger keeps *)
(* the calls by number: a later pass, after a Host loss, an approval or a  *)
(* restart, replays what is recorded and never repeats an effect it cannot *)
(* account for.  Commands (controls.ts) act on the same ledger while a     *)
(* pass, or a pass that awaits the end of its run, is at work.             *)
(*                                                                         *)
(* The program is any program: at every call number it calls any Tool.     *)
(***************************************************************************)
EXTENDS Naturals, Sequences, FiniteSets

CONSTANTS
  Tools,       \* Tools and the named steps of the program
  Approval,    \* Tools with requiresApproval
  Reexecute,   \* Tools with replay: reexecute; all others are never or record
  Steps,       \* codemode.step: recorded by the program, not by the Host
  MaxCalls,    \* bound: calls of one pass
  MaxPasses,   \* bound: the first run and the approvals
  MaxFaults,   \* bound: Host losses, failed appends and restarts
  Overlap,     \* a command may be entered while another one is at work
  NoCall       \* the ledger holds no call of that number

\* planCall refuses a Tool that combines the two; a step is a record Tool.
ASSUME PolicyAssumption ==
  /\ Approval \subseteq Tools /\ Reexecute \subseteq Tools /\ Steps \subseteq Tools
  /\ Approval \cap Reexecute = {} /\ Steps \cap (Approval \cup Reexecute) = {}

ASSUME BoundAssumption ==
  MaxCalls \in Nat /\ MaxPasses \in Nat \ {0} /\ MaxFaults \in Nat /\ Overlap \in BOOLEAN

HOST_RECOVERY_LIMIT == 1

Seqs == 0 .. MaxCalls - 1
Passes == 1 .. MaxPasses

ExecutionStatus ==
  {"running", "paused", "incomplete", "success", "error", "cancelled",
   "rejected", "expired", "abandoned", "compensated", "rolled_back"}

CallState ==
  [name : Tools, status : {"pending", "running", "success", "error"},
   attempt : Nat, compensated : BOOLEAN]

ASSUME NoCallAssumption == NoCall \notin CallState

\* An invocation of a Tool, or a run of a named step, that has not returned;
\* `held`: a step that runs although its execution was not running.
Flight == [pass : Passes, attempt : Nat, seq : Seqs, held : BOOLEAN]

\* "lost": its Host is gone; "decided": it awaits the check of its media.
Pass ==
  [phase : {"none", "live", "lost", "decided", "done"}, attempt : Nat,
   cursor : 0 .. MaxCalls, incomplete : BOOLEAN, outcome : ExecutionStatus]

VARIABLES
  status, attempt,  \* the execution as folded from the ledger
  calls,            \* its calls by number
  passes,           \* CodeModeExecutionController and its run
  flights,          \* Tool invocations at work
  rollback,         \* the rollback command at work
  faults,
  \* What happened, for the properties:
  started,          \* the invocations that each call recorded
  undone,           \* how often each call was compensated
  approved,         \* calls that were pending at an approval
  rejected,         \* calls that were pending at a rejection
  unrecorded,       \* calls whose result could not be recorded
  refused           \* recorded calls whose number a later pass used up

execution == <<status, attempt>>
history == <<started, undone, approved, rejected, unrecorded, refused>>
vars == <<execution, calls, passes, flights, rollback, faults, history>>

TypeOK ==
  /\ status \in ExecutionStatus /\ attempt \in Nat
  /\ calls \in [Seqs -> CallState \cup {NoCall}]
  /\ passes \in [Passes -> Pass]
  /\ flights \subseteq Flight
  /\ rollback \in [phase : {"idle", "undo", "record"}, todo : SUBSET Seqs, failed : BOOLEAN]
  /\ faults \in Nat
  /\ started \in [Seqs -> Seq(Flight)]
  /\ undone \in [Seqs -> Nat]
  /\ approved \subseteq Seqs /\ rejected \subseteq Seqs
  /\ unrecorded \subseteq Seqs /\ refused \subseteq Seqs

NewPass(phase, n) ==
  [phase |-> phase, attempt |-> n, cursor |-> 0, incomplete |-> FALSE, outcome |-> "running"]

IdleRollback == [phase |-> "idle", todo |-> {}, failed |-> FALSE]

\* begin and the first beginPass
Init ==
  /\ status = "running" /\ attempt = 0
  /\ calls = [s \in Seqs |-> NoCall]
  /\ passes = [c \in Passes |-> NewPass(IF c = 1 THEN "live" ELSE "none", 0)]
  /\ flights = {} /\ rollback = IdleRollback /\ faults = 0
  /\ started = [s \in Seqs |-> <<>>] /\ undone = [s \in Seqs |-> 0]
  /\ approved = {} /\ rejected = {} /\ unrecorded = {} /\ refused = {}

Fault == faults < MaxFaults /\ faults' = faults + 1

Larger(m, n) == IF m < n THEN n ELSE m

Known(s) == calls[s] # NoCall
Pending == {s \in Seqs : Known(s) /\ calls[s].status = "pending"}

-----------------------------------------------------------------------------
(* finish: the end of a run in the ledger *)

\* An unchanged status is recorded again only with another error text.
Finish(c, wanted) ==
  LET s == IF passes'[c].incomplete THEN "incomplete" ELSE wanted IN
  /\ status' = s
  /\ attempt' \in IF status = s THEN {attempt, passes[c].attempt} ELSE {passes[c].attempt}

-----------------------------------------------------------------------------
(* planCall: the next call of a pass *)

Advance(c) == [passes EXCEPT ![c].cursor = @ + 1]

Plans(c) ==
  passes[c].phase = "live" /\ ~passes[c].incomplete /\ passes[c].cursor < MaxCalls

\* A plausible slip, for the mutation runs: only a settled execution stops a pass.
Held_Settled == status \notin {"running", "paused"}

Held == status # "running"

\* A Tool is answered with the pause.
PlanPauses(c, t) ==
  /\ Plans(c) /\ Held /\ t \notin Steps
  /\ passes' = Advance(c)
  /\ UNCHANGED <<execution, calls, flights, rollback, faults, history>>

\* beginStep looks at the replay alone: a step is told to execute, unrecorded.
PlanStrays(c, t) ==
  LET f == [pass |-> c, attempt |-> passes[c].attempt, seq |-> passes[c].cursor, held |-> TRUE] IN
  /\ Plans(c) /\ Held /\ t \in Steps
  /\ passes' = Advance(c)
  /\ flights' = flights \cup {f}
  /\ UNCHANGED <<execution, calls, rollback, faults, history>>

\* Another Tool, or other arguments, than the recorded call.
PlanDiverges(c) ==
  /\ Plans(c) /\ ~Held /\ Known(passes[c].cursor)
  /\ passes' = Advance(c)
  /\ Finish(c, "error")
  /\ UNCHANGED <<calls, flights, rollback, faults, history>>

\* A plausible slip, for the mutation runs: a call that is still running is run again.
Repeatable_Running(call) == call.status \in {"pending", "running"}

\* An approved call, or one that may be executed again; its error is replayed.
Repeatable(call) ==
  \/ call.status = "pending"
  \/ call.name \in Reexecute /\ call.status # "error"

\* The result or the error of the recorded call is given to the program.
PlanReplays(c, t) ==
  LET s == passes[c].cursor IN
  /\ Plans(c) /\ ~Held /\ Known(s)
  /\ calls[s].name = t /\ calls[s].status \in {"success", "error"} /\ ~Repeatable(calls[s])
  /\ passes' = Advance(c)
  /\ UNCHANGED <<execution, calls, flights, rollback, faults, history>>

\* An unsettled call that must not be repeated stops the execution.
PlanUncertain(c, t) ==
  LET s == passes[c].cursor IN
  /\ Plans(c) /\ ~Held /\ Known(s)
  /\ calls[s].name = t /\ calls[s].status = "running" /\ ~Repeatable(calls[s])
  /\ passes' = [Advance(c) EXCEPT ![c].incomplete = TRUE]
  /\ \/ Finish(c, "incomplete") /\ UNCHANGED faults
     \/ Fault /\ UNCHANGED execution
  /\ UNCHANGED <<calls, flights, rollback, history>>

Opened(c, t, state) ==
  [name |-> t, status |-> state, attempt |-> passes[c].attempt, compensated |-> FALSE]

\* call-pending
PlanAsks(c, t) ==
  LET s == passes[c].cursor IN
  /\ Plans(c) /\ ~Held /\ ~Known(s) /\ t \in Approval
  /\ passes' = Advance(c)
  /\ calls' = [calls EXCEPT ![s] = Opened(c, t, "pending")]
  /\ status' = "paused" /\ attempt' = Larger(attempt, passes[c].attempt)
  /\ UNCHANGED <<flights, rollback, faults, history>>

\* call-started, and the Tool is invoked.
PlanStarts(c, t) ==
  LET s == passes[c].cursor
      f == [pass |-> c, attempt |-> passes[c].attempt, seq |-> s, held |-> FALSE]
  IN
  /\ Plans(c) /\ ~Held
  /\ IF Known(s) THEN calls[s].name = t /\ Repeatable(calls[s]) ELSE t \notin Approval
  /\ passes' = Advance(c)
  /\ calls' = [calls EXCEPT ![s] = Opened(c, t, "running")]
  /\ attempt' = Larger(attempt, passes[c].attempt)
  /\ flights' = flights \cup {f}
  /\ started' = [started EXCEPT ![s] = Append(@, f)]
  /\ UNCHANGED <<status, rollback, faults, undone, approved, rejected, unrecorded, refused>>

\* The arguments cannot be recorded, or the ledger cannot be written: the
\* number is used up and no call is made.
PlanRefused(c) ==
  LET s == passes[c].cursor IN
  /\ Plans(c) /\ ~Held
  /\ passes' = Advance(c)
  /\ refused' = IF Known(s) THEN refused \cup {s} ELSE refused
  /\ UNCHANGED <<execution, calls, flights, rollback, faults, started, undone, approved, rejected,
                 unrecorded>>

-----------------------------------------------------------------------------
(* completeToolCall: the settlement of an invocation *)

\* A plausible slip, for the mutation runs: any running call of that number is settled.
Matches_AnyAttempt(f) == Known(f.seq) /\ calls[f.seq].status = "running"

\* completeStep also wants the recorded call to be a step.
Matches(f) ==
  /\ Known(f.seq) /\ calls[f.seq].status = "running"
  /\ calls[f.seq].attempt = f.attempt
  /\ f.held => calls[f.seq].name \in Steps

IsStep(f) == f.held \/ calls[f.seq].name \in Steps

\* A step is recorded by the pass that runs it ...
CanReturn(f) ==
  IsStep(f) => passes[f.pass].phase = "live" /\ passes[f.pass].attempt = f.attempt

\* ... and only when it succeeds.
Records(f, result) ==
  /\ Matches(f) /\ ~passes[f.pass].incomplete
  /\ IsStep(f) => result = "success"

\* The Tool returns, fails or is cancelled; an obsolete result is refused.
Return(f, result) ==
  /\ f \in flights /\ CanReturn(f)
  /\ flights' = flights \ {f}
  /\ calls' = IF Records(f, result) THEN [calls EXCEPT ![f.seq].status = result] ELSE calls
  /\ UNCHANGED <<execution, passes, rollback, faults, history>>

\* A plausible slip, for the mutation runs: the pass goes on after a failed record.
ReturnUnrecorded_Unmarked(f) ==
  /\ f \in flights /\ CanReturn(f) /\ Matches(f)
  /\ flights' = flights \ {f}
  /\ unrecorded' = unrecorded \cup {f.seq}
  /\ UNCHANGED <<execution, calls, passes, rollback, faults, started, undone, approved, rejected, refused>>

\* The effect happened but its result cannot be stored or serialized.
ReturnUnrecorded(f) ==
  /\ f \in flights /\ CanReturn(f) /\ Matches(f)
  /\ flights' = flights \ {f}
  /\ passes' = [passes EXCEPT ![f.pass].incomplete = TRUE]
  /\ unrecorded' = unrecorded \cup {f.seq}
  /\ UNCHANGED <<execution, calls, rollback, faults, started, undone, approved, rejected, refused>>

\* failAll: every invocation is interrupted, which settles it as an error;
\* a step has no invocation in the Host.
HostLoss ==
  LET settled == {f \in flights : ~IsStep(f) /\ Records(f, "error")}
      seqs == {f.seq : f \in settled}
  IN
  /\ Fault
  /\ flights' = {}
  /\ calls' = [s \in Seqs |->
                 IF s \in seqs THEN [calls[s] EXCEPT !.status = "error"] ELSE calls[s]]
  /\ passes' = [c \in Passes |->
                  IF passes[c].phase = "live" THEN [passes[c] EXCEPT !.phase = "lost"] ELSE passes[c]]
  /\ UNCHANGED <<execution, rollback, started, undone, approved, rejected, unrecorded, refused>>

-----------------------------------------------------------------------------
(* run: the passes of one controller and its end *)

\* The one retry, unless the run was cancelled.
RetryPass(c) ==
  /\ passes[c].phase = "lost" /\ ~passes[c].incomplete
  /\ passes[c].attempt < HOST_RECOVERY_LIMIT
  /\ passes' = [passes EXCEPT ![c] = NewPass("live", passes[c].attempt + 1)]
  /\ UNCHANGED <<execution, calls, flights, rollback, faults, history>>

Decide(c, ending) ==
  IF passes[c].incomplete THEN "incomplete" ELSE IF status = "paused" THEN "paused" ELSE ending

\* The Host lost, the run cancelled or the executor failed.
PassThrows(c, ending) ==
  /\ passes[c].phase \in {"live", "lost"} /\ ending \in {"error", "cancelled"}
  /\ passes' = [passes EXCEPT ![c].phase = "done"]
  /\ Finish(c, Decide(c, ending))
  /\ UNCHANGED <<calls, flights, rollback, faults, history>>

\* The program ended; the check of its media is awaited before the ledger is settled.
PassEnds(c, ending) ==
  /\ passes[c].phase = "live" /\ ending \in {"success", "error", "cancelled"}
  /\ passes' = [passes EXCEPT ![c].phase = "decided", ![c].outcome = Decide(c, ending)]
  /\ UNCHANGED <<execution, calls, flights, rollback, faults, history>>

\* "error": its media cannot be decoded.
SettleRun(c) ==
  /\ passes[c].phase = "decided"
  /\ passes' = [passes EXCEPT ![c].phase = "done"]
  /\ \E wanted \in {passes[c].outcome, "error"} : Finish(c, wanted)
  /\ UNCHANGED <<calls, flights, rollback, faults, history>>

SettleFails(c) ==
  /\ passes[c].phase = "decided" /\ Fault
  /\ passes' = [passes EXCEPT ![c].phase = "done"]
  /\ UNCHANGED <<execution, calls, flights, rollback, history>>

-----------------------------------------------------------------------------
(* Commands *)

TurnIsOver == passes[1].phase = "done"

CommandMayRun ==
  \/ Overlap
  \/ /\ rollback.phase = "idle"
     /\ \A c \in Passes \ {1} : passes[c].phase \in {"none", "done"}

NextAttempt == attempt + 1

\* A plausible slip, for the mutation runs: the pending action alone is checked.
Resumable_Pending == Pending # {}

Resumable == status = "paused" /\ Pending # {}

\* approve: waits for the end of the turn, then resumes.
Resume(c) ==
  /\ CommandMayRun /\ TurnIsOver /\ Resumable
  /\ passes[c].phase = "none" /\ \A d \in 1 .. c - 1 : passes[d].phase # "none"
  /\ status' = "running" /\ attempt' = NextAttempt
  /\ passes' = [passes EXCEPT ![c] = NewPass("live", NextAttempt)]
  /\ approved' = approved \cup Pending
  /\ UNCHANGED <<calls, flights, rollback, faults, started, undone, rejected, unrecorded, refused>>

Reject ==
  /\ CommandMayRun /\ TurnIsOver /\ status = "paused" /\ Pending # {}
  /\ status' = "rejected"
  /\ rejected' = rejected \cup Pending
  /\ UNCHANGED <<attempt, calls, passes, flights, rollback, faults, started, undone, approved,
                 unrecorded, refused>>

\* The other commands do not wait for the end of the turn.
Abandon ==
  /\ CommandMayRun /\ status \in {"running", "incomplete"}
  /\ status' = "abandoned"
  /\ UNCHANGED <<attempt, calls, passes, flights, rollback, faults, history>>

\* expire, or the begin of another execution, after a day without an event.
Expire ==
  /\ status \in {"running", "incomplete", "paused"}
  /\ status' = IF status = "paused" THEN "rejected" ELSE "expired"
  /\ UNCHANGED <<attempt, calls, passes, flights, rollback, faults, history>>

\* A plausible slip, for the mutation runs: what was compensated is a target again.
Applied_Again(s) == Known(s) /\ calls[s].status = "success"

Applied(s) == Known(s) /\ calls[s].status = "success" /\ ~calls[s].compensated

RollbackStarts ==
  /\ CommandMayRun /\ rollback.phase = "idle"
  /\ rollback' = [phase |-> "undo", todo |-> {s \in Seqs : Applied(s)}, failed |-> FALSE]
  /\ UNCHANGED <<execution, calls, passes, flights, faults, history>>

\* The last of the targets comes first.
Target == CHOOSE s \in rollback.todo : \A q \in rollback.todo : q <= s

\* The inverse operation takes effect ...
Undo ==
  /\ rollback.phase = "undo" /\ rollback.todo # {}
  /\ rollback' = [rollback EXCEPT !.phase = "record"]
  /\ undone' = [undone EXCEPT ![Target] = @ + 1]
  /\ UNCHANGED <<execution, calls, passes, flights, faults, started, approved, rejected,
                 unrecorded, refused>>

NextTarget(failed) ==
  [phase |-> "undo", todo |-> rollback.todo \ {Target}, failed |-> rollback.failed \/ failed]

UndoFails ==
  /\ rollback.phase = "undo" /\ rollback.todo # {}
  /\ rollback' = NextTarget(TRUE)
  /\ UNCHANGED <<execution, calls, passes, flights, faults, history>>

\* ... and is then recorded, if the call still counts as applied.
RecordUndone ==
  LET applied == Known(Target) /\ calls[Target].status = "success" IN
  /\ rollback.phase = "record"
  /\ rollback' = NextTarget(~applied)
  /\ IF Applied(Target)
     THEN calls' = [calls EXCEPT ![Target].compensated = TRUE] /\ status' = "compensated"
     ELSE UNCHANGED <<calls, status>>
  /\ UNCHANGED <<attempt, passes, flights, faults, history>>

RecordFails ==
  /\ rollback.phase = "record" /\ Fault
  /\ rollback' = NextTarget(TRUE)
  /\ UNCHANGED <<execution, calls, passes, flights, history>>

\* markCompensationComplete
RollbackEnds ==
  LET complete == /\ ~rollback.failed
                  /\ \E s \in Seqs : Known(s) /\ calls[s].compensated
                  /\ \A s \in Seqs : ~Applied(s)
  IN
  /\ rollback.phase = "undo" /\ rollback.todo = {}
  /\ rollback' = IdleRollback
  /\ status' = IF complete THEN "rolled_back" ELSE status
  /\ UNCHANGED <<attempt, calls, passes, flights, faults, history>>

\* The Pi process ends; the Session is opened again with its ledger.
Restart ==
  /\ Fault
  /\ passes' = [c \in Passes |->
                  IF passes[c].phase = "none" THEN passes[c] ELSE [passes[c] EXCEPT !.phase = "done"]]
  /\ flights' = {} /\ rollback' = IdleRollback
  /\ UNCHANGED <<execution, calls, history>>

-----------------------------------------------------------------------------
PlanCall(c) ==
  \/ PlanDiverges(c) \/ PlanRefused(c)
  \/ \E t \in Tools :
       \/ PlanPauses(c, t) \/ PlanStrays(c, t)
       \/ PlanReplays(c, t) \/ PlanUncertain(c, t) \/ PlanAsks(c, t) \/ PlanStarts(c, t)

RunStep(c) ==
  \/ RetryPass(c) \/ SettleRun(c) \/ SettleFails(c)
  \/ \E ending \in {"success", "error", "cancelled"} : PassEnds(c, ending) \/ PassThrows(c, ending)

Settlement ==
  \E f \in flights :
    ReturnUnrecorded(f) \/ \E result \in {"success", "error"} : Return(f, result)

Command ==
  \/ \E c \in Passes : Resume(c)
  \/ Reject \/ Abandon \/ Expire
  \/ RollbackStarts \/ Undo \/ UndoFails \/ RecordUndone \/ RecordFails \/ RollbackEnds

Next ==
  \/ \E c \in Passes : PlanCall(c) \/ RunStep(c)
  \/ Settlement \/ HostLoss \/ Command \/ Restart

Spec == Init /\ [][Next]_vars
-----------------------------------------------------------------------------
(* Whatever Host losses, restarts, approvals and rollbacks do, a call of a *)
(* Tool that may not be executed again is invoked at most once.  A named   *)
(* step has no such promise: while its execution waits for an approval it  *)
(* runs without a record (PlanStrays), and it runs again afterwards.       *)
EffectOnce ==
  \A s \in Seqs :
    Known(s) /\ calls[s].name \notin Reexecute \cup Steps => Len(started[s]) <= 1

(* A Tool that requires approval is invoked only after the user approved   *)
(* the recorded action, also when the Host is lost while it is pending.    *)
ApprovedFirst ==
  \A s \in Seqs : Known(s) /\ calls[s].name \in Approval /\ started[s] # <<>> => s \in approved

(* The result that settles a call comes from its latest invocation: a      *)
(* delayed result of an earlier attempt, or of a step that ran while its   *)
(* execution was held, settles nothing.                                    *)
LatestAttemptWins ==
  [][\A s \in Seqs :
       Known(s) /\ calls[s].status = "running" /\ calls'[s].status \in {"success", "error"} =>
         LET f == started[s][Len(started[s])] IN f \in flights /\ f \notin flights']_vars

(* After an effect whose result could not be recorded, the ledger begins   *)
(* no call behind it, in this pass or in a replay that asks for it again.  *)
UnrecordedBlocks ==
  [][\A q \in Seqs, s \in unrecorded \ refused :
       started'[q] # started[q] /\ s < q => calls[s].name \in Reexecute]_vars

(* A rejected action is never executed.                                    *)
RejectionIsFinal == [][\A s \in rejected : started'[s] = started[s]]_vars

(* The inverse operation of a call is repeated only when its record was     *)
(* lost: every further compensation of an invocation costs a restart or a  *)
(* failed append between the operation and its record.                     *)
RepeatNeedsFault == \A s \in Seqs : undone[s] <= Len(started[s]) + faults
=============================================================================
