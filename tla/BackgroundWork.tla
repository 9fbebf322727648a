---------------------------- MODULE BackgroundWork ----------------------------
(***************************************************************************)
(* The shell activities of BackgroundWorkRuntime (background-work/src/     *)
(* runtime.ts, shell-activity.ts, shell-activity-launch.ts): launch with   *)
(* authorization, stop, finalization and shutdown, and the recovery record *)
(* (storage.ts) from which a later Host reaps what a dead one left.        *)
(*                                                                         *)
(* A Host is one Pi process with one Session.  Every Host of the project   *)
(* works in the same directory; any may end at any time.                   *)
(***************************************************************************)
EXTENDS WorkNotices, FiniteSets

CONSTANTS
  NoTask,
  Workers,        \* bound: Hosts that launch commands; the others only recover
  MaxActivities,  \* MAX_CONCURRENT_ACTIVITIES
  MaxFaults       \* bound: failed operations and lost supervisors

ASSUME NamesAssumption ==
  NoTask \notin Tasks /\ Workers \subseteq Hosts

VARIABLES
  host,       \* the process of each Host
  by,         \* the Host that launched the activity
  launch,     \* where spawnProcessTransaction is
  fin,        \* finalization
  why,        \* stopReason
  stopping,   \* stop() is under way
  back,       \* backgrounded
  heard,      \* the last report of the supervisor the Host consumed
  tries,      \* attempts left of the fiber that awaits the supervisor
  tasks,      \* WorkRunStorage.tasks
  dirs,       \* Hosts whose runtime directory exists
  record,     \* its runtime.json
  scan,       \* where reconcileStaleRuns is
  faults

callVars == <<by, launch, back>>
endVars == <<fin, why, stopping, tries>>
files == <<dirs, record>>
diskVars == <<tasks, files>>
vars == <<processVars, noticeVars, host, callVars, endVars, heard, diskVars,
          scan, faults>>

Report == {"nothing", "ready", "started", "exit"}
\* A "request" is the user's, or the abort signal of the calling Agent.
Reason == {"none", "request", "timeout", "shutdown"}
Launch == {"none", "spawning", "starting", "authorizing", "failed", "over"}
Scan == [state : {"unprepared", "scanning", "prepared"},
         left : SUBSET Hosts, dir : Hosts \cup {NoHost},
         ids : SUBSET Tasks, at : Tasks \cup {NoTask}, bad : BOOLEAN]

Unprepared == [state |-> "unprepared", left |-> {}, dir |-> NoHost,
               ids |-> {}, at |-> NoTask, bad |-> FALSE]

TypeOK ==
  /\ ProcessTypeOK /\ NoticesTypeOK
  /\ host \in [Hosts -> {"off", "up", "closing", "closed", "down"}]
  /\ by \in [Tasks -> Hosts \cup {NoHost}]
  /\ launch \in [Tasks -> Launch]
  /\ fin \in [Tasks -> {"open", "running", "done"}]
  /\ why \in [Tasks -> Reason]
  /\ stopping \in [Tasks -> BOOLEAN] /\ back \in [Tasks -> BOOLEAN]
  /\ heard \in [Tasks -> Report]
  /\ tries \in [Tasks -> 0 .. 2]
  /\ tasks \in [Hosts -> SUBSET Tasks]
  /\ dirs \subseteq Hosts
  /\ record \in [Hosts -> SUBSET Tasks]
  /\ scan \in [Hosts -> Scan]
  /\ faults \in Nat

Init ==
  /\ ProcessInit /\ NoticesInit
  /\ host = [h \in Hosts |-> "off"]
  /\ by = [t \in Tasks |-> NoHost]
  /\ launch = [t \in Tasks |-> "none"]
  /\ fin = [t \in Tasks |-> "open"]
  /\ why = [t \in Tasks |-> "none"]
  /\ stopping = [t \in Tasks |-> FALSE]
  /\ back = [t \in Tasks |-> FALSE]
  /\ heard = [t \in Tasks |-> "nothing"]
  /\ tries = [t \in Tasks |-> 2]
  /\ tasks = [h \in Hosts |-> {}]
  /\ dirs = {}
  /\ record = [h \in Hosts |-> {}]
  /\ scan = [h \in Hosts |-> Unprepared]
  /\ faults = 0

\* The Effect scope of the Session is open until shutdown has ended.
Open(h) == host[h] \in {"up", "closing"}
Working(h) == Open(h) \/ host[h] = "closed"
Parent(t) == by[t] # NoHost /\ Working(by[t])
InScope(t) == by[t] # NoHost /\ Open(by[t])
Disposed(h) == host[h] # "up"

\* activities: entered by the launch, left when finalization begins for good.
Registered(t) == launch[t] \notin {"none", "spawning"} /\ fin[t] = "open"
Activities(h) == {t \in Tasks : by[t] = h /\ Registered(t)}

Fault == faults < MaxFaults /\ faults' = faults + 1

-----------------------------------------------------------------------------
(* The recovery record *)

Written(h, S) == dirs' = dirs \cup {h} /\ record' = [record EXCEPT ![h] = S]

Removed(h) == dirs' = dirs \ {h} /\ record' = [record EXCEPT ![h] = {}]

\* WorkRunStorage.persist replaces the record by a rename, or fails.
Persist(h, S) ==
  /\ tasks' = [tasks EXCEPT ![h] = S]
  /\ \/ Written(h, S) /\ UNCHANGED faults
     \/ Fault /\ UNCHANGED files

\* persistRunningProcesses after the activities became S
PersistRunning(h, S) ==
  IF h \notin dirs /\ S = {}
  THEN UNCHANGED <<diskVars, faults>>
  ELSE Persist(h, S)

Recorded(t) == by[t] # NoHost /\ t \in record[by[t]]

-----------------------------------------------------------------------------
(* Launch *)

Capacity(h) ==
  Cardinality({t \in Tasks : by[t] = h /\ (launch[t] = "spawning" \/ Registered(t))}
              \cup Polling(h)) < MaxActivities

\* prepareShellLaunch up to the spawn; the Tools await prepare() before it.
Spawn(h, t, background) ==
  /\ host[h] = "up" /\ h \in Workers /\ Capacity(h)
  /\ scan[h].state = "prepared"
  /\ launch[t] = "none"
  /\ Written(h, tasks[h]) \* outputPath
  /\ by' = [by EXCEPT ![t] = h]
  /\ back' = [back EXCEPT ![t] = background]
  /\ launch' = [launch EXCEPT ![t] = "spawning"]
  /\ sup' = [sup EXCEPT ![t] = "waiting"]
  /\ UNCHANGED <<cmd, said, paper, other, noticeVars, host, endVars, heard,
                 tasks, scan, faults>>

LaunchEnds(t, how) == launch' = [launch EXCEPT ![t] = how]

\* abandonSupervisorAndWait: no identity, or the Session ended meanwhile.
Abandon(t) ==
  /\ launch[t] = "spawning" /\ Parent(t)
  /\ \/ Disposed(by[t]) /\ UNCHANGED faults
     \/ Fault
  /\ KillSupervisor(t) /\ LaunchEnds(t, "failed")
  /\ fin' = [fin EXCEPT ![t] = "done"]
  /\ UNCHANGED <<cmd, said, paper, other, noticeVars, host, by, back, why,
                 stopping, tries, heard, diskVars, scan>>

\* rollback: the supervisor is killed before it could be given the command.
Rollback(t) ==
  /\ fin' = [fin EXCEPT ![t] = "running"]
  /\ KillSupervisor(t)
  /\ paper' = [paper EXCEPT ![t] = "none"]
  /\ LaunchEnds(t, "failed")
  /\ UNCHANGED <<cmd, said, other>>

\* A plausible slip, for the mutation runs: the launch goes on without its record.
Register_Unrecorded(t) ==
  /\ launch[t] = "spawning" /\ ~Disposed(by[t])
  /\ Persist(by[t], Activities(by[t]) \cup {t})
  /\ launch' = [launch EXCEPT ![t] = "starting"]
  /\ UNCHANGED <<processVars, fin, noticeVars, host, by, back, why, stopping,
                 tries, heard, scan>>

\* The identity is known: the activity is recorded or rolled back.
Register(t) ==
  /\ launch[t] = "spawning" /\ ~Disposed(by[t])
  /\ tasks' = [tasks EXCEPT ![by[t]] = Activities(by[t]) \cup {t}]
  /\ \/ /\ Written(by[t], Activities(by[t]) \cup {t})
        /\ launch' = [launch EXCEPT ![t] = "starting"]
        /\ UNCHANGED <<processVars, fin, faults>>
     \/ Fault /\ Rollback(t) /\ UNCHANGED files
  /\ UNCHANGED <<noticeVars, host, by, back, why, stopping, tries, heard, scan>>

\* waitForSupervisorReadiness: it exited, or said nothing for ten seconds.
StartupFails(t) ==
  /\ launch[t] = "starting" /\ InScope(t)
  /\ \/ ~Identified(t) /\ UNCHANGED faults
     \/ heard[t] = "nothing" /\ Fault
  /\ IF fin[t] = "open"
     THEN Rollback(t)
     ELSE LaunchEnds(t, "failed") /\ UNCHANGED <<processVars, fin>>
  /\ UNCHANGED <<noticeVars, host, by, back, why, stopping, tries, heard,
                 diskVars, scan>>

MayAuthorize(t) == ~Disposed(by[t]) /\ why[t] = "none"

\* publishCommandAuthorization
Authorize(t) ==
  /\ launch[t] = "starting" /\ InScope(t)
  /\ heard[t] # "nothing"
  /\ IF MayAuthorize(t)
     THEN /\ launch' = [launch EXCEPT ![t] = "authorizing"]
          /\ paper' = [paper EXCEPT ![t] = "authorization"]
          /\ UNCHANGED <<sup, cmd, said, other, fin>>
     ELSE IF fin[t] = "open"
          THEN Rollback(t)
          ELSE LaunchEnds(t, "failed") /\ UNCHANGED <<processVars, fin>>
  /\ UNCHANGED <<noticeVars, host, by, back, why, stopping, tries, heard,
                 diskVars, scan, faults>>

EndRollback(t) ==
  /\ fin[t] = "running" /\ Parent(t)
  /\ fin' = [fin EXCEPT ![t] = "done"]
  /\ PersistRunning(by[t], Activities(by[t]))
  /\ UNCHANGED <<processVars, noticeVars, host, callVars, why, stopping, tries,
                 heard, scan>>

\* waitForCommandAcknowledgement removes both files whatever comes.
Acknowledge(t) ==
  /\ launch[t] = "authorizing" /\ InScope(t)
  /\ paper[t] = "acknowledgement"
  /\ paper' = [paper EXCEPT ![t] = "none"]
  /\ LaunchEnds(t, "over")
  /\ UNCHANGED <<sup, cmd, said, other, noticeVars, host, by, back, endVars,
                 heard, diskVars, scan, faults>>

-----------------------------------------------------------------------------
(* Stop *)

\* signalVerifiedSupervisor: a supervisor that is gone is not signalled.
Signal(t) == IF Identified(t) THEN TermSupervisor(t) ELSE UNCHANGED sup

\* stop(reason): a second caller waits for the attempt that is under way.
Request(t, reason) ==
  IF Registered(t) /\ ~stopping[t]
  THEN /\ why' = [why EXCEPT ![t] = reason]
       /\ stopping' = [stopping EXCEPT ![t] = TRUE]
       /\ Signal(t)
  ELSE UNCHANGED <<why, stopping, sup>>

\* A plausible slip, for the mutation runs: the exit of the supervisor is not waited for.
Unacknowledged_NoExit(t) == launch[t] = "authorizing" /\ InScope(t) /\ Fault

Unacknowledged(t) ==
  /\ launch[t] = "authorizing" /\ InScope(t)
  /\ \/ ~Identified(t) /\ paper[t] # "acknowledgement" /\ UNCHANGED faults
     \/ Fault

\* No acknowledgement came in three seconds, the supervisor exited without
\* one, or the authorization could not be published: the command may run, so
\* it is stopped and not rolled back.
AcknowledgeFails(t) ==
  /\ Unacknowledged(t)
  /\ paper' = [paper EXCEPT ![t] = "none"]
  /\ LaunchEnds(t, "failed")
  /\ Request(t, "request")
  /\ UNCHANGED <<cmd, said, other, noticeVars, host, by, back, fin, tries,
                 heard, diskVars, scan>>

\* The user and the abort signal of the caller; the time limit is set when the
\* launch has succeeded.
Stop(t, reason) ==
  /\ Registered(t) /\ ~stopping[t] /\ ~Disposed(by[t])
  /\ launch[t] \in (IF reason = "request" THEN {"failed", "over"} ELSE {"over"})
  /\ Request(t, reason)
  /\ UNCHANGED <<cmd, said, paper, other, noticeVars, host, callVars, fin,
                 tries, heard, diskVars, scan, faults>>

\* A foreground command goes on in the background.
Detach(t) ==
  /\ Registered(t) /\ launch[t] = "over" /\ ~Disposed(by[t])
  /\ ~back[t] /\ why[t] = "none"
  /\ back' = [back EXCEPT ![t] = TRUE]
  /\ UNCHANGED <<processVars, noticeVars, host, by, launch, endVars, heard,
                 diskVars, scan, faults>>

-----------------------------------------------------------------------------
(* Finalization *)

\* The control pipe of the supervisor; "started" makes the Host persist.
Hear(t) ==
  /\ Parent(t) /\ Registered(t)
  /\ \/ heard[t] = "nothing" /\ heard' = [heard EXCEPT ![t] = "ready"]
     \/ /\ heard[t] = "ready" /\ said[t] # "ready"
        /\ heard' = [heard EXCEPT ![t] = said[t]]
     \/ /\ heard[t] = "started" /\ said[t] = "exit"
        /\ heard' = [heard EXCEPT ![t] = "exit"]
  /\ IF heard'[t] = "started"
     THEN PersistRunning(by[t], Activities(by[t]))
     ELSE UNCHANGED <<diskVars, faults>>
  /\ UNCHANGED <<processVars, noticeVars, host, callVars, endVars, scan>>

\* The pipe is read to its end before the exit of the supervisor is reported.
Drained(t) == heard[t] = said[t]

\* reapOwnedProcessGroup of a leader that is gone: nothing is signalled, and a
\* group that is left is unresolved.
Unresolved(t) == heard[t] = "started" /\ cmd[t] = "alive"

Notified(t) ==
  back[t] /\ ~Disposed(by[t]) /\ why[t] \in {"none", "timeout"}

\* completeFinalization
Complete(t) ==
  /\ fin' = [fin EXCEPT ![t] = "done"]
  /\ stopping' = [stopping EXCEPT ![t] = FALSE]
  /\ PersistRunning(by[t], Activities(by[t]) \ {t})
  /\ IF Notified(t) THEN Enqueue(by[t], t) ELSE UNCHANGED queueVars
  /\ UNCHANGED <<watcher, polling>>

\* What is unresolved stays registered and recorded.
Retain(t) ==
  /\ PersistRunning(by[t], Activities(by[t]))
  /\ UNCHANGED <<fin, noticeVars>>

Finalize(t) ==
  IF Unresolved(t) THEN Retain(t) /\ UNCHANGED stopping ELSE Complete(t)

\* bind: the supervisor has exited; a failed finalization is tried once more.
SupervisorExits(t) ==
  /\ InScope(t) /\ Registered(t) /\ ~Identified(t) /\ Drained(t) /\ tries[t] > 0
  /\ Finalize(t)
  /\ tries' = [tries EXCEPT ![t] = @ - 1]
  /\ UNCHANGED <<processVars, host, callVars, why, heard, scan>>

\* stopNow after its grace: a supervisor that is still reaping is retained,
\* one that is gone is finalized here.
StopGrace(t) ==
  /\ Parent(t) /\ stopping[t] /\ Registered(t)
  /\ IF Identified(t) \/ Unresolved(t)
     THEN Retain(t) /\ stopping' = [stopping EXCEPT ![t] = FALSE]
     ELSE Complete(t)
  /\ UNCHANGED <<processVars, host, callVars, why, tries, heard, scan>>

-----------------------------------------------------------------------------
(* The Session and the Host *)

StartHost(h) ==
  /\ host[h] = "off"
  /\ host' = [host EXCEPT ![h] = "up"]
  /\ UNCHANGED <<processVars, noticeVars, callVars, endVars, heard, diskVars,
                 scan, faults>>

\* shutdown stops every activity and waits for its grace.
Shutdown(h) ==
  /\ host[h] = "up" /\ h \in Workers
  /\ host' = [host EXCEPT ![h] = "closing"]
  /\ DropNotices(h)
  /\ LET asked == {t \in Activities(h) : ~stopping[t]} IN
     /\ why' = [t \in Tasks |-> IF t \in asked THEN "shutdown" ELSE why[t]]
     /\ stopping' = [t \in Tasks |-> stopping[t] \/ t \in asked]
     /\ sup' = [t \in Tasks |->
                  IF t \notin asked THEN sup[t]
                  ELSE CASE sup[t] \in {"waiting", "accepted", "forked"} -> "gone"
                         [] sup[t] = "watching" -> "stopping"
                         [] OTHER -> sup[t]]
  /\ UNCHANGED <<cmd, said, paper, other, callVars, fin, tries, heard,
                 diskVars, scan, faults>>

MayClean(h) == Activities(h) = {}

\* What could not be stopped stays recorded for a later Host.
EndShutdown(h) ==
  /\ host[h] = "closing"
  /\ host' = [host EXCEPT ![h] = "closed"]
  /\ IF MayClean(h)
     THEN /\ Removed(h)
          /\ tasks' = [tasks EXCEPT ![h] = {}]
          /\ UNCHANGED faults
     ELSE PersistRunning(h, Activities(h))
  /\ UNCHANGED <<processVars, noticeVars, callVars, endVars, heard, scan>>

\* The memory of a Host is gone with it.
Forgotten(f, h, value) == [t \in Tasks |-> IF by[t] = h THEN value ELSE f[t]]

\* The process ends, after its shutdown or without one.
HostEnds(h) ==
  /\ Working(h)
  /\ host' = [host EXCEPT ![h] = "down"]
  /\ scan' = [scan EXCEPT ![h] = Unprepared]
  /\ tasks' = [tasks EXCEPT ![h] = {}]
  /\ launch' = Forgotten(launch, h, "over")
  /\ back' = Forgotten(back, h, FALSE)
  /\ why' = Forgotten(why, h, "none")
  /\ stopping' = Forgotten(stopping, h, FALSE)
  /\ tries' = Forgotten(tries, h, 0)
  /\ DropNotices(h)
  /\ UNCHANGED <<processVars, by, fin, heard, files, faults>>

-----------------------------------------------------------------------------
(* reconcileStaleRuns of a later Host *)

Prepare(h) ==
  /\ host[h] = "up" /\ scan[h].state = "unprepared"
  /\ scan' = [scan EXCEPT ![h] = [Unprepared EXCEPT
       !.state = "scanning", !.left = dirs]]
  /\ UNCHANGED <<processVars, noticeVars, host, callVars, endVars, heard,
                 diskVars, faults>>

Scanning(h) == Working(h) /\ scan[h].state = "scanning"

\* identityMatches(stored.owner)
Stale(d) == ~Working(d)

\* The record is read; that of a Host that runs is left alone.
Visit(h, d) ==
  /\ Scanning(h) /\ scan[h].dir = NoHost /\ d \in scan[h].left
  /\ scan' = [scan EXCEPT
       ![h].left = @ \ {d},
       ![h].dir = IF d \in dirs /\ Stale(d) THEN d ELSE NoHost,
       ![h].ids = IF Stale(d) THEN record[d] ELSE {},
       ![h].bad = FALSE]
  /\ UNCHANGED <<processVars, noticeVars, host, callVars, endVars, heard,
                 diskVars, faults>>

Resolved(h, t, bad) ==
  scan' = [scan EXCEPT ![h].ids = @ \ {t}, ![h].at = NoTask,
                       ![h].bad = @ \/ bad]

\* A plausible slip, for the mutation runs: the number alone is trusted.
SameProcess_Number(t) == GroupExists(t)

SameProcess(t) == Identified(t)

\* terminateVerifiedProcessGroup: the first signal ...
Terminate(h, t) ==
  /\ Scanning(h) /\ scan[h].at = NoTask /\ t \in scan[h].ids
  /\ IF SameProcess(t)
     THEN TermGroup(t) /\ scan' = [scan EXCEPT ![h].at = t]
     ELSE /\ Resolved(h, t, cmd[t] = "alive")
          /\ UNCHANGED processVars
  /\ UNCHANGED <<noticeVars, host, callVars, endVars, heard, diskVars, faults>>

\* ... and, when the group is there after the grace, the second.
Escalate(h, t) ==
  /\ Scanning(h) /\ scan[h].at = t
  /\ IF GroupExists(t) /\ SameProcess(t)
     THEN KillGroup(t) /\ Resolved(h, t, FALSE)
     ELSE Resolved(h, t, GroupExists(t)) /\ UNCHANGED processVars
  /\ UNCHANGED <<noticeVars, host, callVars, endVars, heard, diskVars, faults>>

\* removeOwnedDirectory throws when another Host removed it meanwhile, and
\* the next Bash command prepares again.
EndVisit(h) ==
  /\ Scanning(h) /\ scan[h].dir # NoHost /\ scan[h].ids = {}
  /\ IF scan[h].bad
     THEN scan' = [scan EXCEPT ![h].dir = NoHost] /\ UNCHANGED files
     ELSE IF scan[h].dir \notin dirs
     THEN scan' = [scan EXCEPT ![h] = Unprepared] /\ UNCHANGED files
     ELSE /\ scan' = [scan EXCEPT ![h].dir = NoHost]
          /\ Removed(scan[h].dir)
  /\ UNCHANGED <<processVars, noticeVars, host, callVars, endVars, heard,
                 tasks, faults>>

Prepared(h) ==
  /\ Scanning(h) /\ scan[h].dir = NoHost /\ scan[h].left = {}
  /\ scan' = [scan EXCEPT ![h].state = "prepared"]
  /\ UNCHANGED <<processVars, noticeVars, host, callVars, endVars, heard,
                 diskVars, faults>>
-----------------------------------------------------------------------------
(* Specification *)

LaunchStep(t) ==
  \/ Abandon(t) \/ Register(t) \/ StartupFails(t) \/ Authorize(t)
  \/ EndRollback(t) \/ Acknowledge(t) \/ AcknowledgeFails(t)

EndStep(t) == Hear(t) \/ SupervisorExits(t) \/ StopGrace(t)

ActivityStep(t) ==
  \/ LaunchStep(t) \/ EndStep(t) \/ Detach(t)
  \/ \E reason \in {"request", "timeout"} : Stop(t, reason)

ScanStep(h) ==
  \/ EndVisit(h) \/ Prepared(h)
  \/ \E d \in Hosts : Visit(h, d)
  \/ \E t \in Tasks : Terminate(h, t) \/ Escalate(h, t)

\* Everything but the outcomes that wait
OthersKept == UNCHANGED <<processVars, host, callVars, endVars, heard, diskVars, scan>>

\* A plausible slip, for the mutation runs: a loop that ended still counts as running.
NoticeStep_Once(h) ==
  /\ (told[h] = <<>> /\ Flush(h)) \/ SendBatch(h)
  /\ OthersKept /\ UNCHANGED faults

NoticeStep(h) ==
  /\ Flush(h) \/ SendBatch(h)
  /\ OthersKept /\ UNCHANGED faults

NoticeFails(h) == SendFails(h) /\ Fault /\ OthersKept

StartMonitor(h, m) ==
  /\ host[h] = "up" /\ h \in Workers /\ Capacity(h)
  /\ scan[h].state = "prepared"
  /\ StartPolling(h, m)
  /\ OthersKept /\ UNCHANGED faults

MonitorStep(m) ==
  /\ PollingEnds(m) \/ CancelPolling(m)
  /\ OthersKept /\ UNCHANGED faults

HostStep(h) ==
  \/ StartHost(h) \/ Shutdown(h) \/ EndShutdown(h) \/ HostEnds(h)
  \/ Prepare(h) \/ ScanStep(h) \/ NoticeStep(h) \/ NoticeFails(h)
  \/ \E t \in Tasks : \E b \in BOOLEAN : Spawn(h, t, b)
  \/ \E m \in Monitors : StartMonitor(h, m)

HostsKept == UNCHANGED <<noticeVars, host, callVars, endVars, heard, diskVars, scan>>

ProcessStep(t) ==
  /\ SupervisorStep(t, Parent(t)) \/ CommandEnds(t)
  /\ HostsKept /\ UNCHANGED faults

SystemStep(t) ==
  /\ \/ Reuse(t) /\ UNCHANGED faults
     \/ Identified(t) /\ LoseSupervisor(t) /\ Fault
  /\ HostsKept

Next ==
  \/ \E h \in Hosts : HostStep(h)
  \/ \E t \in Tasks : ActivityStep(t) \/ ProcessStep(t) \/ SystemStep(t)
  \/ \E m \in Monitors : MonitorStep(m)

Spec == Init /\ [][Next]_vars

\* A supervisor does what it has begun, and SIGKILL ends what it stops.  A
\* Host takes the steps its timers, promises and pipes are due for.
Fairness ==
  /\ \A t \in Tasks :
       /\ WF_vars(SupervisorStep(t, Parent(t)) /\ HostsKept /\ UNCHANGED faults)
       /\ WF_vars(sup[t] = "stopping" /\ ProcessStep(t))
       /\ WF_vars(LaunchStep(t)) /\ WF_vars(EndStep(t))
  /\ \A h \in Hosts :
       WF_vars(EndShutdown(h)) /\ WF_vars(ScanStep(h)) /\ WF_vars(NoticeStep(h))

FairSpec == Spec /\ Fairness

-----------------------------------------------------------------------------
(* Properties *)

\* The supervisor was gone before the Host heard of the command it had spawned.
EndedUnheard(t) == fin[t] = "done" /\ heard[t] \in {"nothing", "ready"}

\* No command runs that a later Host could not find: from before its
\* authorization until its group is empty it stands in the recovery record,
\* whatever else is persisted, rolled back or shut down meanwhile; and a launch
\* that is rolled back, whose supervisor is killed alone, has run nothing
\* (shell-activity.ts authorize, runtime.ts spawnProcessTransaction).
NothingUnrecorded ==
  \A t \in Tasks :
    /\ cmd[t] = "alive" => Recorded(t) \/ EndedUnheard(t)
    /\ fin[t] = "running" => cmd[t] = "none"

\* Recovery reaps what a dead Host left and nothing else: it never signals a
\* process that only bears a recorded number, and never the work of a Host
\* that runs (storage.ts reconcileStaleRuns, process.ts
\* terminateVerifiedProcessGroup).
OthersSpared ==
  [][\A t \in Tasks :
       /\ other'[t] # "hurt"
       /\ \A h \in Hosts : (scan[h].at # t /\ scan'[h].at = t) => ~Parent(t)]_vars

\* The outcomes of each Host are told in the order in which they settled,
\* each at most once and none passed over, though batches fail and others
\* settle meanwhile (runtime.ts flushNotifications).
Queue == INSTANCE OutcomeQueue
           WITH waiting <- [h \in Hosts |-> flight[h] \o notices[h]],
                Outcomes <- Activity
ToldInOrder == Queue!Spec

\* The supervisors of a Host that died end by themselves, and with them the
\* groups they lead (process-supervisor.mjs parentStillOwnsUs).
OrphansEnd ==
  \A t \in Tasks : (by[t] # NoHost /\ ~Parent(t)) ~> ~Identified(t)

\* A call that launches a command returns or fails (shell-activity.ts authorize).
LaunchesSettle ==
  \A t \in Tasks :
    launch[t] \in {"spawning", "starting", "authorizing"} ~>
      launch[t] \in {"failed", "over"} \/ (by[t] # NoHost /\ ~InScope(t))

\* What settled in the background is told, unless the Session ends first
\* (runtime.ts notificationLoop).
OutcomesAreTold ==
  \A h \in Hosts : (notices[h] # <<>>) ~> (notices[h] = <<>> /\ flight[h] = <<>>)
=============================================================================
