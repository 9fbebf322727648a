------------------------------ MODULE WorkNotices ------------------------------
(***************************************************************************)
(* The notifications of a BackgroundWorkRuntime (background-work/src/      *)
(* runtime.ts): outcomes that settled wait in a list; one loop takes all   *)
(* of them and sends them in batches through sendSuiteAgentMessage, while  *)
(* more may settle.  A batch that fails goes back with all that follow it. *)
(* Monitors that poll (monitor.ts) have no process and settle here.        *)
(***************************************************************************)
EXTENDS WorkProcesses, Sequences

CONSTANTS
  Hosts, NoHost,
  Monitors, \* that poll a file, a log or a URL
  MaxBatch  \* MAX_NOTIFICATION_OUTCOMES

ASSUME MaxBatchAssumption == MaxBatch \in Nat \ {0}
ASSUME MonitorsAssumption == NoHost \notin Hosts /\ Monitors \cap Tasks = {}

VARIABLES
  watcher,  \* the Host of each Monitor
  polling,  \* monitors
  notices,  \* notifications
  flight,   \* what flushNotifications took and has not sent
  told      \* what the Agent was told

queueVars == <<notices, flight, told>>
noticeVars == <<watcher, polling, queueVars>>

Activity == Tasks \cup Monitors

NoticesTypeOK ==
  /\ watcher \in [Monitors -> Hosts \cup {NoHost}]
  /\ polling \subseteq Monitors
  /\ notices \in [Hosts -> Seq(Activity)]
  /\ flight \in [Hosts -> Seq(Activity)]
  /\ told \in [Hosts -> Seq(Activity)]

NoticesInit ==
  /\ watcher = [m \in Monitors |-> NoHost]
  /\ polling = {}
  /\ notices = [h \in Hosts |-> <<>>]
  /\ flight = [h \in Hosts |-> <<>>]
  /\ told = [h \in Hosts |-> <<>>]

Enqueue(h, a) ==
  /\ notices' = [notices EXCEPT ![h] = Append(@, a)]
  /\ UNCHANGED <<flight, told>>

-----------------------------------------------------------------------------
(* Monitors *)

Polling(h) == {m \in polling : watcher[m] = h}

StartPolling(h, m) ==
  /\ watcher[m] = NoHost
  /\ watcher' = [watcher EXCEPT ![m] = h]
  /\ polling' = polling \cup {m}
  /\ UNCHANGED queueVars

\* A condition that is met, a failure or the time limit; shutdown cancels all.
PollingEnds(m) ==
  /\ m \in polling
  /\ polling' = polling \ {m}
  /\ Enqueue(watcher[m], m)
  /\ UNCHANGED watcher

\* A Monitor the user cancels is not announced.
CancelPolling(m) ==
  /\ m \in polling
  /\ polling' = polling \ {m}
  /\ UNCHANGED <<watcher, queueVars>>

-----------------------------------------------------------------------------
(* Delivery *)

\* notificationLoop runs once; flushNotifications takes the whole list.
Flush(h) ==
  /\ flight[h] = <<>> /\ notices[h] # <<>>
  /\ flight' = [flight EXCEPT ![h] = notices[h]]
  /\ notices' = [notices EXCEPT ![h] = <<>>]
  /\ UNCHANGED <<watcher, polling, told>>

BatchSize(h) == IF Len(flight[h]) < MaxBatch THEN Len(flight[h]) ELSE MaxBatch

SendBatch(h) ==
  /\ flight[h] # <<>>
  /\ told' = [told EXCEPT ![h] = @ \o SubSeq(flight[h], 1, BatchSize(h))]
  /\ flight' = [flight EXCEPT ![h] = SubSeq(@, BatchSize(h) + 1, Len(@))]
  /\ UNCHANGED <<watcher, polling, notices>>

\* A plausible slip, for the mutation runs: what failed is queued behind what settled since.
Requeued_Behind(h) == notices[h] \o flight[h]

Requeued(h) == flight[h] \o notices[h]

SendFails(h) ==
  /\ flight[h] # <<>>
  /\ notices' = [notices EXCEPT ![h] = Requeued(h)]
  /\ flight' = [flight EXCEPT ![h] = <<>>]
  /\ UNCHANGED <<watcher, polling, told>>

\* shutdown empties the list; a flush under way sees disposed and returns.
DropNotices(h) ==
  /\ notices' = [notices EXCEPT ![h] = <<>>]
  /\ flight' = [flight EXCEPT ![h] = <<>>]
  /\ polling' = polling \ Polling(h)
  /\ UNCHANGED <<watcher, told>>
=============================================================================
