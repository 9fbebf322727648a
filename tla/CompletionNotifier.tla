-------------------------- MODULE CompletionNotifier --------------------------
(***************************************************************************)
(* CompletionNotifier of every Pi Host, for the outcome of one background  *)
(* run (extension/completion-handling.ts and, for the message itself,      *)
(* conversation-ui/suite-agent-message.ts).  A delivery waits until the    *)
(* Host is idle, is put into the conversation as a message, and is         *)
(* accepted when a provider request includes that message.                 *)
(*                                                                         *)
(* told, row and stopped are entries of the Session the run belongs to;    *)
(* they survive the Host.  Everything else is memory of one Host.          *)
(***************************************************************************)
EXTENDS Naturals

CONSTANTS
  Hosts,
  MaxTurns,  \* bound: turns the user starts
  MaxFaults  \* bound: failed operations

ASSUME BoundsAssumption ==
  MaxTurns \in Nat /\ MaxFaults \in Nat

VARIABLES
  stage,     \* of each Host: down, leaving a Session, open, watching results
  home,      \* is its current Session the one of the run?
  busy,      \* ~isIdle()
  sent,      \* the message was handed to the agent and is not yet in its context
  told,      \* messages each Host brought into the Session
  row,       \* the outcome entry of the Session
  stopped,   \* the continuation entry that ends the run
  ended,     \* runs.get(runId) = null
  delivered, \* the key is in the delivered set
  pending,   \* the PendingCompletion
  flush,     \* where flush() is: waiting for dialogs, or preparing a message
  answer,    \* what the promise of deliver() resolved to
  turns, faults

hostVars == <<stage, home>>
calm == <<busy, sent, told, row, stopped, ended, delivered, pending, flush,
          answer, turns>>
notifierVars == <<calm, faults>>

NotifierTypeOK ==
  /\ stage \in [Hosts -> {"down", "leaving", "open", "watching"}]
  /\ \A f \in {home, busy, sent, ended, delivered} : f \in [Hosts -> BOOLEAN]
  /\ told \in [Hosts -> Nat] /\ row \in BOOLEAN /\ stopped \in BOOLEAN
  /\ pending \in [Hosts -> {"none", "waiting", "submitted", "observed"}]
  /\ flush \in [Hosts -> {"off", "gate", "prepare"}]
  /\ answer \in [Hosts -> {"none", "yes", "no"}]
  /\ turns \in Nat /\ faults \in Nat

NotifierInit ==
  /\ stage = [h \in Hosts |-> "down"]
  /\ pending = [h \in Hosts |-> "none"]
  /\ flush = [h \in Hosts |-> "off"]
  /\ answer = [h \in Hosts |-> "none"]
  /\ told = [h \in Hosts |-> 0]
  /\ row = FALSE /\ stopped = FALSE /\ turns = 0 /\ faults = 0
  /\ home = [h \in Hosts |-> FALSE] /\ busy = [h \in Hosts |-> FALSE]
  /\ sent = [h \in Hosts |-> FALSE] /\ ended = [h \in Hosts |-> FALSE]
  /\ delivered = [h \in Hosts |-> FALSE]

Set(f, h, value) == [f EXCEPT ![h] = value]

Fault == faults < MaxFaults /\ faults' = faults + 1

\* The outcome is in the Session: as a message or as an entry.
InSession == row \/ \E h \in Hosts : told[h] > 0

MayContinue(h) == ~ended[h]

\* scheduleFlush: one flush at a time, and only for what is not submitted.
Scheduled(h) ==
  IF flush[h] = "off" /\ pending[h] = "waiting" THEN Set(flush, h, "gate") ELSE flush

\* An observed message stands even if its entry cannot be appended.
Finish(h, accepted, saved) ==
  LET stands == accepted /\ (saved \/ pending[h] = "observed")
  IN  /\ pending' = Set(pending, h, "none")
      /\ answer' = Set(answer, h, IF stands THEN "yes" ELSE "no")
      /\ delivered' = Set(delivered, h, delivered[h] \/ stands)
      /\ row' = (row \/ (accepted /\ saved))

Accept(h) ==
  \E saved \in BOOLEAN :
    /\ Finish(h, TRUE, saved)
    /\ IF saved THEN UNCHANGED faults ELSE Fault

Refuse(h) == Finish(h, FALSE, FALSE) /\ UNCHANGED faults

unresolved == <<pending, answer, delivered, row, faults>>
agent == <<busy, sent, told>>
runs == <<stopped, ended>>

\* deliver(), as far as it decides at once.
Known(h) == delivered[h]

Enqueue(h) ==
  /\ pending' = Set(pending, h, "waiting")
  /\ flush' = IF flush[h] = "off" THEN Set(flush, h, "gate") ELSE flush
  /\ UNCHANGED <<answer, delivered, row, faults, agent, runs, turns>>

-----------------------------------------------------------------------------
\* flush() after coordinator.whenIdle().
Gate(h) ==
  /\ flush[h] = "gate"
  /\ \/ /\ pending[h] = "none"
        /\ flush' = Set(flush, h, "off")
        /\ UNCHANGED unresolved
     \/ /\ pending[h] = "waiting" /\ ~MayContinue(h)
        /\ flush' = Set(flush, h, "off")
        /\ Accept(h)
     \/ /\ pending[h] = "waiting" /\ MayContinue(h)
        /\ IF busy[h]
           THEN flush' = Set(flush, h, "off") /\ UNCHANGED unresolved
           ELSE /\ flush' = Set(flush, h, "prepare")
                /\ pending' = Set(pending, h, "submitted")
                /\ UNCHANGED <<answer, delivered, row, faults>>
  /\ UNCHANGED <<hostVars, agent, runs, turns>>

\* sendSuiteAgentMessage after its preparation: current() looks the key up.
Send(h) ==
  /\ flush[h] = "prepare"
  /\ IF pending[h] # "none" /\ MayContinue(h) /\ ~busy[h]
     THEN /\ sent' = Set(sent, h, TRUE)
          /\ busy' = Set(busy, h, TRUE)
          /\ flush' = Set(flush, h, "off")
          /\ UNCHANGED pending
     ELSE /\ pending' = IF pending[h] = "submitted"
                        THEN Set(pending, h, "waiting") ELSE pending
          /\ flush' = Set(flush, h, IF pending[h] # "none" /\ ~busy[h]
                                    THEN "gate" ELSE "off")
          /\ UNCHANGED <<sent, busy>>
  /\ UNCHANGED <<hostVars, told, runs, answer, delivered, row, faults, turns>>

\* The preparation or the Host refuses the message.
SendFails(h) ==
  /\ flush[h] = "prepare" /\ pending[h] # "none"
  /\ Fault
  /\ Finish(h, FALSE, FALSE)
  /\ flush' = Set(flush, h, "off")
  /\ UNCHANGED <<hostVars, agent, runs, turns>>

\* message_end: the message is in the conversation.
Observe(h) ==
  /\ sent[h]
  /\ sent' = Set(sent, h, FALSE)
  /\ told' = Set(told, h, told[h] + 1)
  /\ pending' = IF pending[h] = "submitted" THEN Set(pending, h, "observed") ELSE pending
  /\ UNCHANGED <<hostVars, busy, runs, answer, delivered, row, flush, turns, faults>>

\* before_provider_request
Request(h) ==
  /\ busy[h] /\ pending[h] = "observed"
  /\ Accept(h)
  /\ UNCHANGED <<hostVars, agent, runs, flush, turns>>

\* agent_settled: a submitted message that was not observed is lost.
Settle(h) ==
  /\ busy[h]
  /\ busy' = Set(busy, h, FALSE)
  /\ sent' = Set(sent, h, FALSE)
  /\ CASE pending[h] = "observed" -> Accept(h)
       [] pending[h] = "submitted" -> Refuse(h)
       [] OTHER -> UNCHANGED unresolved
  /\ flush' = Scheduled(h)
  /\ UNCHANGED <<hostVars, told, runs, turns>>

UserTurn(h) ==
  /\ stage[h] # "down" /\ ~busy[h] /\ turns < MaxTurns
  /\ busy' = Set(busy, h, TRUE)
  /\ turns' = turns + 1
  /\ UNCHANGED <<hostVars, sent, told, runs, unresolved, flush>>

\* endRun: the user stops the run, or cancels the task it belongs to.
EndRun(h) ==
  /\ stage[h] \in {"open", "watching"} /\ home[h] /\ ~ended[h]
  /\ ended' = Set(ended, h, TRUE)
  /\ stopped' = TRUE
  /\ flush' = Scheduled(h)
  /\ UNCHANGED <<hostVars, agent, unresolved, turns>>

\* A plausible slip, for the mutation runs: only the outcome entries count, not the messages.
Reset_FromRows(h, own) ==
  /\ pending' = Set(pending, h, "none")
  /\ answer' = Set(answer, h, "none")
  /\ flush' = Set(flush, h, "off")
  /\ delivered' = Set(delivered, h, own /\ row)
  /\ ended' = Set(ended, h, own /\ stopped)
  /\ busy' = Set(busy, h, FALSE)
  /\ sent' = Set(sent, h, FALSE)
  /\ UNCHANGED <<told, row, stopped, turns, faults>>

\* reset(entries) of a Session that is the run's own or another one.
Reset(h, own) ==
  /\ pending' = Set(pending, h, "none")
  /\ answer' = Set(answer, h, "none")
  /\ flush' = Set(flush, h, "off")
  /\ delivered' = Set(delivered, h, own /\ InSession)
  /\ ended' = Set(ended, h, own /\ stopped)
  /\ busy' = Set(busy, h, FALSE)
  /\ sent' = Set(sent, h, FALSE)
  /\ UNCHANGED <<told, row, stopped, turns, faults>>

NotifierStep(h) ==
  \/ Gate(h) \/ Send(h) \/ SendFails(h) \/ Observe(h) \/ Request(h)
  \/ Settle(h) \/ UserTurn(h) \/ EndRun(h)
=============================================================================
