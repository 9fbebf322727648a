------------------------ MODULE BackgroundWorkProofs ------------------------
(***************************************************************************)
(* Proofs about BackgroundWork, for any Hosts, activities, Monitors, batch *)
(* sizes and faults: no command runs unrecorded, recovery spares whatever  *)
(* a dead Host did not leave, and outcomes are told in their order.        *)
(***************************************************************************)
EXTENDS BackgroundWork, SequenceTheorems, TLAPS

-----------------------------------------------------------------------------
(* The inductive invariant *)

\* A launch belongs to the Host that began it.
Begun(t) ==
  /\ launch[t] = "none" <=> by[t] = NoHost
  /\ launch[t] = "none" => sup[t] = "none" /\ said[t] = "ready"
  /\ launch[t] \in {"none", "spawning"} => fin[t] = "open"
  /\ \A h \in Hosts : by[t] = h => host[h] # "off"

\* Until it is authorized, a supervisor has spawned nothing.
Unauthorized(t) ==
  launch[t] \in {"none", "spawning", "starting"} =>
    paper[t] = "none" /\ sup[t] \in {"none", "waiting", "gone"} /\ cmd[t] = "none"

\* What the supervisor, finalization and the last report say of the command.
Concluded(t) ==
  /\ sup[t] \in {"none", "waiting", "accepted"} => cmd[t] = "none"
  /\ fin[t] # "open" => ~Identified(t)
  /\ fin[t] = "running" => cmd[t] = "none"
  /\ fin[t] = "done" /\ cmd[t] = "alive" => heard[t] \in {"nothing", "ready"}
  /\ said[t] = "exit" => ~Identified(t) /\ cmd[t] # "alive"
  /\ heard[t] = "exit" => said[t] = "exit"

\* The supervisor has a command, or may still spawn it.
AtWork(t) == sup[t] \in {"accepted", "forked", "watching", "stopping"} \/ cmd[t] = "alive"

\* A Host keeps its activities on record while it works; what it left stays
\* there until it has been reaped.
Kept(t) ==
  /\ Parent(t) /\ Registered(t) => t \in tasks[by[t]] /\ t \in record[by[t]]
  /\ AtWork(t) => Recorded(t) \/ EndedUnheard(t)

Directory(h) ==
  /\ h \notin dirs => record[h] = {}
  /\ host[h] = "off" => h \notin dirs
  /\ \A t \in tasks[h] \cup record[h] : by[t] = h

\* A scan visits the directory of a dead Host, and what it has resolved there
\* without complaint is gone.
Visiting(h) ==
  LET s == scan[h] IN
  /\ s.dir = NoHost => s.ids = {}
  /\ s.dir # NoHost =>
       /\ host[s.dir] = "down"
       /\ \A t \in s.ids : by[t] = s.dir
       /\ ~s.bad => \A t \in record[s.dir] \ s.ids : ~Identified(t) /\ cmd[t] # "alive"
  /\ s.at # NoTask => s.at \in s.ids

\* An activity whose outcome was queued does not settle again.
HasSettled(a) ==
  IF a \in Tasks THEN fin[a] = "done" ELSE a \notin polling /\ watcher[a] # NoHost

Queued(s) == \A i \in DOMAIN s : HasSettled(s[i])

TaskInv(t) ==
  Begun(t) /\ Unauthorized(t) /\ Concluded(t) /\ Kept(t) /\ other[t] # "hurt"

HostInv(h) == Directory(h) /\ Visiting(h)

QueueInv(h) == Queued(notices[h]) /\ Queued(flight[h]) /\ Queued(told[h])

NoticesInv ==
  /\ \A m \in polling : watcher[m] # NoHost
  /\ \A h \in Hosts : QueueInv(h)

IInv ==
  /\ TypeOK
  /\ \A t \in Tasks : TaskInv(t)
  /\ \A h \in Hosts : HostInv(h)
  /\ NoticesInv

-----------------------------------------------------------------------------
(* Init *)

LEMMA Initially == Init => IInv
<1> SUFFICES ASSUME Init PROVE IInv
  OBVIOUS
<1>1. TypeOK
  BY NamesAssumption, MonitorsAssumption
  DEF Init, ProcessInit, NoticesInit, TypeOK, ProcessTypeOK, NoticesTypeOK, Living, Launch,
      Reason, Report, Scan, Unprepared
<1>2. ASSUME NEW t \in Tasks PROVE TaskInv(t)
  BY MonitorsAssumption
  DEF Init, ProcessInit, TaskInv, Begun, Unauthorized, Concluded, Kept, Identified, Living,
      Parent, AtWork, Registered
<1>3. ASSUME NEW h \in Hosts PROVE HostInv(h)
  BY MonitorsAssumption DEF Init, HostInv, Directory, Visiting, Unprepared
<1>4. NoticesInv
  BY DEF Init, NoticesInit, NoticesInv, QueueInv, Queued
<1>. QED BY <1>1, <1>2, <1>3, <1>4 DEF IInv

-----------------------------------------------------------------------------
(* Processes *)

LEMMA ProcessTypes ==
  ASSUME TypeOK, NEW t \in Tasks,
         SupervisorStep(t, Parent(t)) \/ CommandEnds(t) \/ Reuse(t) \/ LoseSupervisor(t)
  PROVE  ProcessTypeOK'
BY DEF SupervisorStep, Accept, Forsaken, Fork, ForkFails, Handle, SayStarted, ParentLost, Settle,
   CommandEnds, Reuse, LoseSupervisor, KillSupervisor, TypeOK, ProcessTypeOK, Living

\* What the processes of an activity do by themselves.
LEMMA ProcessKeepsTask ==
  ASSUME IInv, NEW t \in Tasks,
         SupervisorStep(t, Parent(t)) \/ CommandEnds(t) \/ Reuse(t) \/ LoseSupervisor(t),
         HostsKept, NEW u \in Tasks
  PROVE  TaskInv(u)'
<1>. /\ TypeOK /\ TaskInv(u)
     /\ sup \in [Tasks -> Living \cup {"none", "gone"}]
     /\ cmd \in [Tasks -> {"none", "alive", "gone"}]
     /\ said \in [Tasks -> {"ready", "started", "exit"}]
     /\ paper \in [Tasks -> {"none", "authorization", "acknowledgement"}]
     /\ other \in [Tasks -> {"none", "alive", "hurt"}]
  BY DEF IInv, TypeOK, ProcessTypeOK
<1>. USE DEF HostsKept, callVars, endVars, diskVars, files, TaskInv, Begun, Unauthorized, Concluded, Kept,
         Identified, Parent, AtWork, Registered, Recorded, EndedUnheard, Working, Open, Living
<1>1. CASE Accept(t, Parent(t))
  BY <1>1 DEF Accept
<1>2. CASE Forsaken(t, Parent(t))
  BY <1>2 DEF Forsaken
<1>3. CASE Fork(t)
  BY <1>3 DEF Fork
<1>4. CASE ForkFails(t)
  BY <1>4 DEF ForkFails
<1>5. CASE Handle(t, Parent(t))
  BY <1>5 DEF Handle
<1>6. CASE SayStarted(t)
  BY <1>6 DEF SayStarted
<1>7. CASE ParentLost(t, Parent(t))
  BY <1>7 DEF ParentLost
<1>8. CASE Settle(t)
  BY <1>8 DEF Settle, GroupEmpty
<1>9. CASE CommandEnds(t)
  BY <1>9 DEF CommandEnds
<1>10. CASE Reuse(t)
  BY <1>10 DEF Reuse
<1>11. CASE LoseSupervisor(t)
  BY <1>11 DEF LoseSupervisor, KillSupervisor
<1>. QED BY <1>1, <1>2, <1>3, <1>4, <1>5, <1>6, <1>7, <1>8, <1>9, <1>10, <1>11 DEF SupervisorStep

LEMMA ProcessKeeps ==
  ASSUME IInv, NEW t \in Tasks, ProcessStep(t) \/ SystemStep(t)
  PROVE  IInv'
<1>1. /\ HostsKept /\ (faults' = faults \/ faults' = faults + 1)
      /\ SupervisorStep(t, Parent(t)) \/ CommandEnds(t) \/ Reuse(t) \/ LoseSupervisor(t)
  BY DEF ProcessStep, SystemStep, Fault
<1>2. TypeOK'
  BY <1>1, ProcessTypes DEF HostsKept, IInv, TypeOK, NoticesTypeOK, noticeVars,
     queueVars, callVars, endVars, diskVars, files
<1>3. ASSUME NEW u \in Tasks PROVE TaskInv(u)'
  BY <1>1, ProcessKeepsTask
<1>4. \A u \in Tasks : /\ Identified(u)' => Identified(u)
                       /\ cmd'[u] = "alive" => cmd[u] = "alive" \/ Identified(u)
  BY <1>1 DEF SupervisorStep, Accept, Forsaken, Fork, ForkFails, Handle, SayStarted,
     ParentLost, Settle, CommandEnds, Reuse, LoseSupervisor, KillSupervisor, IInv, TypeOK, ProcessTypeOK, Living, Identified
<1>5. ASSUME NEW h \in Hosts PROVE HostInv(h)'
  BY <1>1, <1>4 DEF HostsKept, IInv, TypeOK, callVars, diskVars, files, HostInv, Directory, Visiting, Scan
<1>6. NoticesInv'
  BY <1>1 DEF HostsKept, IInv, noticeVars, queueVars, endVars, NoticesInv, QueueInv, Queued, HasSettled
<1>. QED BY <1>2, <1>3, <1>5, <1>6 DEF IInv

-----------------------------------------------------------------------------
(* Launch *)

\* An outcome that was queued stays settled.
LEMMA QueuesKept ==
  ASSUME IInv, UNCHANGED noticeVars, \A u \in Tasks : fin[u] = "done" => fin'[u] = "done"
  PROVE  NoticesInv'
BY DEF IInv, noticeVars, queueVars, NoticesInv, QueueInv, Queued, HasSettled

\* What a Host that works may do to its record.
LEMMA PersistFacts ==
  ASSUME TypeOK, NEW h \in Hosts, NEW S \in SUBSET Tasks,
         Persist(h, S) \/ PersistRunning(h, S)
  PROVE  /\ tasks' \in [Hosts -> SUBSET Tasks] /\ record' \in [Hosts -> SUBSET Tasks]
         /\ dirs' \subseteq Hosts /\ faults' \in Nat
         /\ \A g \in Hosts \ {h} : /\ tasks'[g] = tasks[g] /\ record'[g] = record[g]
                                   /\ g \in dirs' <=> g \in dirs
         /\ tasks'[h] = S \/ (S = {} /\ tasks'[h] = tasks[h] /\ h \notin dirs)
         /\ \/ record'[h] = S /\ h \in dirs'
            \/ record'[h] = record[h] /\ (h \in dirs' <=> h \in dirs)
BY DEF Persist, PersistRunning, Written, Fault, files, diskVars, TypeOK

LEMMA AbandonKeeps ==
  ASSUME IInv, NEW t \in Tasks, Abandon(t)
  PROVE  IInv'
<1>. USE DEF Abandon, LaunchEnds, KillSupervisor
<1>1. TypeOK'
  BY DEF IInv, TypeOK, ProcessTypeOK, NoticesTypeOK, Fault, Living, Launch, noticeVars, queueVars, diskVars, files
<1>2. ASSUME NEW u \in Tasks PROVE TaskInv(u)'
  BY DEF IInv, TypeOK, ProcessTypeOK, TaskInv, Begun, Unauthorized, Concluded, Kept, diskVars, files,
     Identified, Parent, AtWork, Registered, Recorded, EndedUnheard, Working, Open, Living
<1>3. ASSUME NEW h \in Hosts PROVE HostInv(h)'
  BY DEF IInv, TypeOK, ProcessTypeOK, diskVars, files, HostInv, Directory, Visiting, Scan, Identified, Living
<1>4. NoticesInv'
  BY QueuesKept DEF IInv, TypeOK
<1>. QED BY <1>1, <1>2, <1>3, <1>4 DEF IInv

LEMMA RollbackFacts ==
  ASSUME TypeOK, NEW t \in Tasks, Rollback(t)
  PROVE  /\ ProcessTypeOK'
         /\ sup' = [sup EXCEPT ![t] = IF @ \in Living THEN "gone" ELSE @]
         /\ paper' = [paper EXCEPT ![t] = "none"]
         /\ launch' = [launch EXCEPT ![t] = "failed"] /\ launch' \in [Tasks -> Launch]
         /\ fin' = [fin EXCEPT ![t] = "running"] /\ fin' \in [Tasks -> {"open", "running", "done"}]
         /\ cmd' = cmd /\ said' = said /\ other' = other
BY DEF Rollback, KillSupervisor, LaunchEnds, TypeOK, ProcessTypeOK, Living, Launch

\* The launch is rolled back, and what the record says of the others stays.
LEMMA RollbackKeeps ==
  ASSUME IInv, NEW t \in Tasks, Rollback(t),
         launch[t] \in {"spawning", "starting"}, fin[t] = "open", by[t] \in Hosts,
         UNCHANGED <<noticeVars, host, by, back, why, stopping, tries, heard, files, scan>>,
         faults' \in Nat,
         \/ UNCHANGED tasks
         \/ tasks' = [tasks EXCEPT ![by[t]] = Activities(by[t]) \cup {t}]
  PROVE  IInv'
<1>. TypeOK
  BY DEF IInv
<1>. /\ ProcessTypeOK'
     /\ sup' = [sup EXCEPT ![t] = IF @ \in Living THEN "gone" ELSE @]
     /\ paper' = [paper EXCEPT ![t] = "none"]
     /\ launch' = [launch EXCEPT ![t] = "failed"] /\ launch' \in [Tasks -> Launch]
     /\ fin' = [fin EXCEPT ![t] = "running"] /\ fin' \in [Tasks -> {"open", "running", "done"}]
     /\ cmd' = cmd /\ said' = said /\ other' = other
  BY RollbackFacts
<1>1. TypeOK'
  <2>1. tasks' \in [Hosts -> SUBSET Tasks]
    BY DEF TypeOK, Activities
  <2>. QED BY <2>1 DEF TypeOK, NoticesTypeOK, noticeVars, queueVars, files
<1>2. ASSUME NEW u \in Tasks PROVE TaskInv(u)'
  <2>. TaskInv(u) /\ TaskInv(t)
    BY DEF IInv
  <2>. USE DEF TypeOK, ProcessTypeOK, TaskInv
  <2>1. Begun(u)'
    BY DEF Begun
  <2>2. Unauthorized(u)'
    BY DEF Unauthorized
  <2>3. Concluded(u)'
    BY DEF Concluded, Unauthorized, Identified, Living
  <2>4. Kept(u)'
    BY DEF Kept, Unauthorized, files, Activities, Parent, AtWork, Registered, Recorded, EndedUnheard, Working, Open, Living
  <2>. QED BY <2>1, <2>2, <2>3, <2>4
<1>3. ASSUME NEW h \in Hosts PROVE HostInv(h)'
  BY DEF IInv, TypeOK, ProcessTypeOK, files, HostInv, Directory, Visiting, Scan, Identified, Living, Activities
<1>4. NoticesInv'
  BY QueuesKept DEF TypeOK
<1>. QED BY <1>1, <1>2, <1>3, <1>4 DEF IInv

LEMMA RegisterKeeps ==
  ASSUME IInv, NEW t \in Tasks, Register(t)
  PROVE  IInv'
<1>1. /\ by[t] \in Hosts /\ host[by[t]] = "up" /\ launch[t] = "spawning" /\ fin[t] = "open"
      /\ UNCHANGED <<noticeVars, host, by, back, why, stopping, tries, heard, scan>>
  BY DEF Register, Disposed, IInv, TypeOK, TaskInv, Begun
<1>2. CASE Rollback(t) /\ Fault /\ UNCHANGED files
  <2>1. faults' \in Nat /\ UNCHANGED files
    BY <1>2 DEF Fault, IInv, TypeOK
  <2>2. tasks' = [tasks EXCEPT ![by[t]] = Activities(by[t]) \cup {t}]
    BY DEF Register
  <2>. QED BY <1>1, <1>2, <2>1, <2>2, RollbackKeeps
<1>3. CASE /\ Written(by[t], Activities(by[t]) \cup {t})
           /\ launch' = [launch EXCEPT ![t] = "starting"]
           /\ UNCHANGED <<processVars, fin, faults>>
  <2>. tasks' = [tasks EXCEPT ![by[t]] = Activities(by[t]) \cup {t}]
    BY DEF Register
  <2>1. TypeOK'
    BY <1>1, <1>3 DEF Written, IInv, TypeOK, NoticesTypeOK, ProcessTypeOK, noticeVars, queueVars, processVars, Activities, Launch
  <2>2. ASSUME NEW u \in Tasks PROVE TaskInv(u)'
    BY <1>1, <1>3 DEF Written, IInv, TypeOK, ProcessTypeOK, TaskInv, Begun, Unauthorized, Concluded, Kept, processVars, Activities,
       Identified, Parent, AtWork, Registered, Recorded, EndedUnheard, Working, Open, Living
  <2>3. ASSUME NEW h \in Hosts PROVE HostInv(h)'
    BY <1>1, <1>3 DEF Written, IInv, TypeOK, ProcessTypeOK, processVars, HostInv, Directory, Visiting, Scan, Identified, Living, Activities
  <2>4. NoticesInv'
    BY <1>1, <1>3, QueuesKept DEF IInv, TypeOK
  <2>. QED BY <2>1, <2>2, <2>3, <2>4 DEF IInv
<1>. QED BY <1>2, <1>3 DEF Register

\* A launch that was finalized meanwhile only fails.
LEMMA LaunchFailsKeeps ==
  ASSUME IInv, NEW t \in Tasks, launch[t] = "starting",
         LaunchEnds(t, "failed"), UNCHANGED <<processVars, fin>>,
         UNCHANGED <<noticeVars, host, by, back, why, stopping, tries, heard, diskVars, scan>>,
         faults' \in Nat
  PROVE  IInv'
<1>. USE DEF LaunchEnds, diskVars, files, processVars
<1>1. TypeOK'
  BY DEF IInv, TypeOK, NoticesTypeOK, ProcessTypeOK, noticeVars, queueVars, Launch
<1>2. ASSUME NEW u \in Tasks PROVE TaskInv(u)'
  BY DEF IInv, TypeOK, ProcessTypeOK, TaskInv, Begun, Unauthorized, Concluded, Kept,
     Identified, Parent, AtWork, Registered, Recorded, EndedUnheard, Working, Open, Living
<1>3. ASSUME NEW h \in Hosts PROVE HostInv(h)'
  BY DEF IInv, HostInv, Directory, Visiting, Identified
<1>4. NoticesInv'
  BY QueuesKept
<1>. QED BY <1>1, <1>2, <1>3, <1>4 DEF IInv

LEMMA StartupKeeps ==
  ASSUME IInv, NEW t \in Tasks, StartupFails(t)
  PROVE  IInv'
<1>1. /\ by[t] \in Hosts /\ faults' \in Nat /\ launch[t] = "starting"
      /\ UNCHANGED <<noticeVars, host, by, back, why, stopping, tries, heard, diskVars, scan>>
  BY DEF StartupFails, InScope, IInv, TypeOK, Fault
<1>2. CASE fin[t] = "open" /\ Rollback(t)
  BY <1>1, <1>2, RollbackKeeps DEF diskVars
<1>3. CASE LaunchEnds(t, "failed") /\ UNCHANGED <<processVars, fin>>
  BY <1>1, <1>3, LaunchFailsKeeps
<1>. QED BY <1>2, <1>3 DEF StartupFails

LEMMA AuthorizeKeeps ==
  ASSUME IInv, NEW t \in Tasks, Authorize(t)
  PROVE  IInv'
<1>1. /\ by[t] \in Hosts /\ faults' \in Nat
      /\ launch[t] = "starting" /\ heard[t] # "nothing"
      /\ UNCHANGED <<noticeVars, host, by, back, why, stopping, tries, heard, diskVars, scan>>
  BY DEF Authorize, InScope, IInv, TypeOK
<1>2. CASE /\ launch' = [launch EXCEPT ![t] = "authorizing"]
           /\ paper' = [paper EXCEPT ![t] = "authorization"]
           /\ UNCHANGED <<sup, cmd, said, other, fin>>
  <2>1. TypeOK'
    BY <1>1, <1>2 DEF IInv, TypeOK, NoticesTypeOK, ProcessTypeOK, noticeVars, queueVars, diskVars, files, Launch
  <2>2. ASSUME NEW u \in Tasks PROVE TaskInv(u)'
    BY <1>1, <1>2 DEF IInv, TypeOK, ProcessTypeOK, TaskInv, Begun, Unauthorized, Concluded, Kept, diskVars, files,
       Identified, Parent, AtWork, Registered, Recorded, EndedUnheard, Working, Open, Living
  <2>3. ASSUME NEW h \in Hosts PROVE HostInv(h)'
    BY <1>1, <1>2 DEF IInv, HostInv, Directory, Visiting, Identified, diskVars, files
  <2>4. NoticesInv'
    BY <1>1, <1>2, QueuesKept
  <2>. QED BY <2>1, <2>2, <2>3, <2>4 DEF IInv
<1>3. CASE fin[t] = "open" /\ Rollback(t)
  BY <1>1, <1>3, RollbackKeeps DEF diskVars
<1>4. CASE LaunchEnds(t, "failed") /\ UNCHANGED <<processVars, fin>>
  BY <1>1, <1>4, LaunchFailsKeeps
<1>. QED BY <1>2, <1>3, <1>4 DEF Authorize

LEMMA AcknowledgeKeeps ==
  ASSUME IInv, NEW t \in Tasks, Acknowledge(t)
  PROVE  IInv'
<1>. USE DEF Acknowledge, LaunchEnds
<1>1. TypeOK'
  BY DEF IInv, TypeOK, ProcessTypeOK, NoticesTypeOK, Launch, noticeVars, queueVars, endVars, diskVars, files
<1>2. ASSUME NEW u \in Tasks PROVE TaskInv(u)'
  BY DEF IInv, TypeOK, ProcessTypeOK, TaskInv, Begun, Unauthorized, Concluded, Kept, endVars, diskVars, files,
     Identified, Parent, AtWork, Registered, Recorded, EndedUnheard, Working, Open, Living
<1>3. ASSUME NEW h \in Hosts PROVE HostInv(h)'
  BY DEF IInv, HostInv, Directory, Visiting, Identified, diskVars, files
<1>4. NoticesInv'
  BY QueuesKept DEF endVars
<1>. QED BY <1>1, <1>2, <1>3, <1>4 DEF IInv

-----------------------------------------------------------------------------
(* Stop *)

\* A signal ends a supervisor or lets it stop its command.
LEMMA RequestFacts ==
  ASSUME TypeOK, NEW t \in Tasks, NEW r \in Reason, Request(t, r)
  PROVE  /\ why' \in [Tasks -> Reason] /\ stopping' \in [Tasks -> BOOLEAN]
         /\ sup' \in [Tasks -> Living \cup {"none", "gone"}]
         /\ \A u \in Tasks : \/ sup'[u] = sup[u]
                             \/ sup[u] # "none" /\ sup'[u] = "gone"
                             \/ sup[u] = "watching" /\ sup'[u] = "stopping"
<1>. sup \in [Tasks -> Living \cup {"none", "gone"}]
  BY DEF TypeOK, ProcessTypeOK
<1>1. CASE UNCHANGED <<why, stopping, sup>>
  BY <1>1 DEF TypeOK
<1>2. CASE /\ why' = [why EXCEPT ![t] = r]
           /\ stopping' = [stopping EXCEPT ![t] = TRUE]
           /\ UNCHANGED sup
  BY <1>2 DEF TypeOK
<1>3. CASE /\ why' = [why EXCEPT ![t] = r]
           /\ stopping' = [stopping EXCEPT ![t] = TRUE]
           /\ TermSupervisor(t)
  <2>1. /\ sup' \in [Tasks -> Living \cup {"none", "gone"}]
        /\ \A u \in Tasks : \/ sup'[u] = sup[u]
                            \/ sup[u] # "none" /\ sup'[u] = "gone"
                            \/ sup[u] = "watching" /\ sup'[u] = "stopping"
    BY <1>3 DEF TermSupervisor, Living
  <2>. QED BY <1>3, <2>1 DEF TypeOK
<1>. QED BY <1>1, <1>2, <1>3 DEF Request, Signal

\* Signals take nothing from what a scan has resolved.
LEMMA SignalsKeepHosts ==
  ASSUME IInv, UNCHANGED <<by, host, diskVars, scan>>,
         \A u \in Tasks : /\ Identified(u)' => Identified(u)
                          /\ cmd'[u] = "alive" => cmd[u] = "alive",
         NEW h \in Hosts
  PROVE  HostInv(h)'
BY DEF IInv, TypeOK, diskVars, files, HostInv, Directory, Visiting, Scan

LEMMA AcknowledgeFailsKeeps ==
  ASSUME IInv, NEW t \in Tasks, AcknowledgeFails(t)
  PROVE  IInv'
<1>1. /\ why' \in [Tasks -> Reason] /\ stopping' \in [Tasks -> BOOLEAN]
      /\ sup' \in [Tasks -> Living \cup {"none", "gone"}]
      /\ \A u \in Tasks : \/ sup'[u] = sup[u]
                          \/ sup[u] # "none" /\ sup'[u] = "gone"
                          \/ sup[u] = "watching" /\ sup'[u] = "stopping"
  BY RequestFacts DEF AcknowledgeFails, IInv, Reason
<1>2. /\ launch[t] = "authorizing" /\ launch' = [launch EXCEPT ![t] = "failed"]
      /\ paper' = [paper EXCEPT ![t] = "none"] /\ faults' \in Nat
      /\ UNCHANGED <<cmd, said, other, noticeVars, host, by, back, fin, tries, heard, diskVars, scan>>
  BY DEF AcknowledgeFails, Unacknowledged, LaunchEnds, Fault, IInv, TypeOK
<1>3. TypeOK'
  BY <1>1, <1>2 DEF IInv, TypeOK, ProcessTypeOK, NoticesTypeOK, Launch, noticeVars, queueVars, diskVars, files
<1>4. ASSUME NEW u \in Tasks PROVE TaskInv(u)'
  BY <1>1, <1>2 DEF IInv, TypeOK, ProcessTypeOK, TaskInv, Begun, Unauthorized, Concluded, Kept, diskVars, files,
     Identified, Parent, AtWork, Registered, Recorded, EndedUnheard, Working, Open, Living
<1>5. ASSUME NEW h \in Hosts PROVE HostInv(h)'
  BY <1>1, <1>2, SignalsKeepHosts DEF Identified, Living
<1>6. NoticesInv'
  BY <1>2, QueuesKept
<1>. QED BY <1>3, <1>4, <1>5, <1>6 DEF IInv

LEMMA StopKeeps ==
  ASSUME IInv, NEW t \in Tasks, NEW r \in {"request", "timeout"}, Stop(t, r)
  PROVE  IInv'
<1>1. /\ why' \in [Tasks -> Reason] /\ stopping' \in [Tasks -> BOOLEAN]
      /\ sup' \in [Tasks -> Living \cup {"none", "gone"}]
      /\ \A u \in Tasks : \/ sup'[u] = sup[u]
                          \/ sup[u] # "none" /\ sup'[u] = "gone"
                          \/ sup[u] = "watching" /\ sup'[u] = "stopping"
  BY RequestFacts DEF Stop, IInv, Reason
<1>2. UNCHANGED <<cmd, said, paper, other, noticeVars, host, callVars, fin, tries, heard, diskVars, scan, faults>>
  BY DEF Stop
<1>3. TypeOK'
  BY <1>1, <1>2 DEF IInv, TypeOK, ProcessTypeOK, NoticesTypeOK, noticeVars, queueVars, callVars, diskVars, files
<1>4. ASSUME NEW u \in Tasks PROVE TaskInv(u)'
  BY <1>1, <1>2 DEF IInv, TypeOK, ProcessTypeOK, TaskInv, Begun, Unauthorized, Concluded, Kept, callVars, diskVars, files,
     Identified, Parent, AtWork, Registered, Recorded, EndedUnheard, Working, Open, Living
<1>5. ASSUME NEW h \in Hosts PROVE HostInv(h)'
  BY <1>1, <1>2, SignalsKeepHosts DEF Identified, Living, callVars
<1>6. NoticesInv'
  BY <1>2, QueuesKept
<1>. QED BY <1>3, <1>4, <1>5, <1>6 DEF IInv

LEMMA DetachKeeps ==
  ASSUME IInv, NEW t \in Tasks, Detach(t)
  PROVE  IInv'
<1>. USE DEF Detach
<1>1. TypeOK'
  BY DEF IInv, TypeOK, ProcessTypeOK, NoticesTypeOK, processVars, noticeVars, queueVars, endVars, diskVars, files
<1>2. ASSUME NEW u \in Tasks PROVE TaskInv(u)'
  BY DEF IInv, TaskInv, Begun, Unauthorized, Concluded, Kept, processVars, endVars, diskVars, files,
     Identified, Parent, AtWork, Registered, Recorded, EndedUnheard, Working, Open, Living
<1>3. ASSUME NEW h \in Hosts PROVE HostInv(h)'
  BY SignalsKeepHosts DEF Identified, processVars
<1>4. NoticesInv'
  BY QueuesKept DEF endVars
<1>. QED BY <1>1, <1>2, <1>3, <1>4 DEF IInv

-----------------------------------------------------------------------------
(* Finalization *)

\* A supervisor or command that is there is that of a registered activity, or
\* of one that ended before its start was heard.
LEMMA WorkIsRegistered ==
  ASSUME IInv, NEW t \in Tasks, AtWork(t)
  PROVE  /\ by[t] \in Hosts
         /\ Registered(t) \/ EndedUnheard(t)
BY DEF IInv, TypeOK, ProcessTypeOK, TaskInv, Begun, Unauthorized, Concluded, AtWork, Registered,
   EndedUnheard, Identified, Living, Launch

\* A Host that replaces its record by its activities loses track of none, if
\* what it finalizes runs nothing, or was never heard to have started.
LEMMA PersistKeeps ==
  ASSUME IInv, NEW h \in Hosts, Working(h), Working(h)',
         NEW S \in SUBSET Tasks, PersistRunning(h, S),
         UNCHANGED <<by, launch, sup, cmd, scan>>,
         \A g \in Hosts \ {h} : host'[g] = host[g],
         \A u \in Tasks : \/ fin'[u] = fin[u] /\ (heard'[u] = heard[u] \/ fin[u] = "open")
                          \/ fin'[u] = "done" /\ ~Identified(u)
                             /\ (cmd[u] = "alive" => heard'[u] \in {"nothing", "ready"}),
         \A u \in Tasks : u \in S <=> u \in Activities(h) /\ fin'[u] = "open"
  PROVE  /\ tasks' \in [Hosts -> SUBSET Tasks] /\ record' \in [Hosts -> SUBSET Tasks] /\ dirs' \subseteq Hosts
         /\ faults' \in Nat
         /\ \A u \in Tasks : Kept(u)'
         /\ \A g \in Hosts : HostInv(g)'
<1>. TypeOK
  BY DEF IInv
<1>1. /\ tasks' \in [Hosts -> SUBSET Tasks] /\ record' \in [Hosts -> SUBSET Tasks]
      /\ dirs' \subseteq Hosts /\ faults' \in Nat
      /\ \A g \in Hosts \ {h} : /\ tasks'[g] = tasks[g] /\ record'[g] = record[g]
                                /\ g \in dirs' <=> g \in dirs
      /\ tasks'[h] = S \/ (S = {} /\ tasks'[h] = tasks[h] /\ h \notin dirs)
      /\ \/ record'[h] = S /\ h \in dirs'
         \/ record'[h] = record[h] /\ (h \in dirs' <=> h \in dirs)
  BY PersistFacts
<1>2. ASSUME NEW u \in Tasks PROVE Kept(u)'
  <2>1. Kept(u)
    BY DEF IInv, TaskInv
  <2>2. Parent(u)' /\ Registered(u)' => u \in tasks'[by[u]] /\ u \in record'[by[u]]
    <3>. SUFFICES ASSUME Parent(u)', Registered(u)' PROVE u \in tasks'[by[u]] /\ u \in record'[by[u]]
      OBVIOUS
    <3>1. by[u] \in Hosts /\ fin'[u] = "open" /\ Registered(u) /\ Parent(u)
      BY DEF Parent, Registered, TypeOK, Working, Open
    <3>2. u \in tasks[by[u]] /\ u \in record[by[u]]
      BY <2>1, <3>1 DEF Kept
    <3>3. by[u] = h => u \in S
      BY <3>1 DEF Activities
    <3>. QED BY <1>1, <3>1, <3>2, <3>3
  <2>3. AtWork(u)' => Recorded(u)' \/ EndedUnheard(u)'
    <3>. SUFFICES ASSUME AtWork(u) PROVE Recorded(u)' \/ EndedUnheard(u)'
      BY DEF AtWork
    <3>1. by[u] \in Hosts /\ (Registered(u) \/ EndedUnheard(u)) /\ (Recorded(u) \/ EndedUnheard(u))
      BY <2>1, WorkIsRegistered DEF Kept
    <3>2. EndedUnheard(u) => EndedUnheard(u)'
      BY DEF EndedUnheard, AtWork, Identified, Living
    <3>3. CASE by[u] # h
      BY <1>1, <3>1, <3>2, <3>3, MonitorsAssumption DEF Recorded
    <3>4. CASE by[u] = h /\ Registered(u) /\ Recorded(u)
      <4>1. CASE fin'[u] = "open"
        <5>1. u \in S
          BY <3>4, <4>1 DEF Activities
        <5>. QED BY <1>1, <3>1, <3>4, <5>1, MonitorsAssumption DEF Recorded
      <4>2. CASE fin'[u] # "open"
        <5>1. fin'[u] = "done" /\ ~Identified(u) /\ (cmd[u] = "alive" => heard'[u] \in {"nothing", "ready"})
          BY <3>4, <4>2 DEF Registered
        <5>. QED BY <5>1 DEF AtWork, Identified, Living, EndedUnheard
      <4>. QED BY <4>1, <4>2
    <3>. QED BY <3>1, <3>2, <3>3, <3>4
  <2>. QED BY <2>2, <2>3 DEF Kept
<1>3. ASSUME NEW g \in Hosts PROVE HostInv(g)'
  <2>1. Directory(g)'
    BY <1>1 DEF IInv, HostInv, Directory, Activities, Working, Open
  <2>2. Visiting(g)'
    BY <1>1 DEF IInv, HostInv, Visiting, TypeOK, Scan, Working, Open, Identified
  <2>. QED BY <2>1, <2>2 DEF HostInv
<1>. QED BY <1>1, <1>2, <1>3

LEMMA EndRollbackKeeps ==
  ASSUME IInv, NEW t \in Tasks, EndRollback(t)
  PROVE  IInv'
<1>1. /\ by[t] \in Hosts /\ Working(by[t]) /\ fin[t] = "running" /\ fin' = [fin EXCEPT ![t] = "done"]
      /\ PersistRunning(by[t], Activities(by[t])) /\ ~Identified(t) /\ cmd[t] # "alive"
      /\ UNCHANGED <<processVars, noticeVars, host, callVars, why, stopping, tries, heard, scan>>
  BY DEF EndRollback, Parent, IInv, TypeOK, TaskInv, Concluded
<1>2. /\ tasks' \in [Hosts -> SUBSET Tasks] /\ record' \in [Hosts -> SUBSET Tasks] /\ dirs' \subseteq Hosts
      /\ faults' \in Nat
      /\ \A u \in Tasks : Kept(u)'
      /\ \A g \in Hosts : HostInv(g)'
  <2>. DEFINE S == Activities(by[t])
  <2>1. S \in SUBSET Tasks
    BY DEF Activities
  <2>2. \A u \in Tasks : u \in S <=> u \in Activities(by[t]) /\ fin'[u] = "open"
    BY <1>1 DEF Activities, Registered, IInv, TypeOK
  <2>3. /\ Working(by[t])' /\ \A g \in Hosts \ {by[t]} : host'[g] = host[g]
        /\ UNCHANGED <<by, launch, sup, cmd, scan>>
    BY <1>1 DEF Working, Open, processVars, callVars
  <2>4. \A u \in Tasks : \/ fin'[u] = fin[u] /\ (heard'[u] = heard[u] \/ fin[u] = "open")
                         \/ fin'[u] = "done" /\ ~Identified(u)
                            /\ (cmd[u] = "alive" => heard'[u] \in {"nothing", "ready"})
    BY <1>1 DEF IInv, TypeOK
  <2>. HIDE DEF S
  <2>. QED BY <1>1, <2>1, <2>2, <2>3, <2>4, PersistKeeps DEF S
<1>3. TypeOK'
  BY <1>1, <1>2 DEF IInv, TypeOK, ProcessTypeOK, NoticesTypeOK, processVars, noticeVars, queueVars, callVars
<1>4. ASSUME NEW u \in Tasks PROVE TaskInv(u)'
  BY <1>1, <1>2 DEF IInv, TypeOK, TaskInv, Begun, Unauthorized, Concluded, processVars, callVars, Identified
<1>5. NoticesInv'
  BY <1>1, QueuesKept DEF IInv, TypeOK
<1>. QED BY <1>2, <1>3, <1>4, <1>5 DEF IInv

\* An outcome that was settled stays so, and the one that is queued is settled.
LEMMA EnqueueKeeps ==
  ASSUME IInv, NEW h \in Hosts, NEW a \in Activity, Enqueue(h, a), HasSettled(a)',
         \A b \in Activity : HasSettled(b) => HasSettled(b)',
         watcher' = watcher, polling' \subseteq polling
  PROVE  /\ notices' \in [Hosts -> Seq(Activity)] /\ flight' = flight /\ told' = told
         /\ NoticesInv'
<1>. /\ notices \in [Hosts -> Seq(Activity)] /\ flight \in [Hosts -> Seq(Activity)]
     /\ told \in [Hosts -> Seq(Activity)] /\ NoticesInv /\ \A g \in Hosts : QueueInv(g)
  BY DEF IInv, TypeOK, NoticesTypeOK, NoticesInv
<1>1. /\ notices' = [notices EXCEPT ![h] = Append(@, a)] /\ flight' = flight /\ told' = told
  BY DEF Enqueue
<1>2. ASSUME NEW g \in Hosts PROVE QueueInv(g)'
  <2>1. \A s \in Seq(Activity) : \A i \in DOMAIN s : s[i] \in Activity
    OBVIOUS
  <2>2. Queued(flight[g])' /\ Queued(told[g])'
    BY <1>1, <2>1 DEF QueueInv, Queued
  <2>3. Queued(notices[g])'
    <3>1. CASE g # h
      BY <1>1, <2>1, <3>1 DEF QueueInv, Queued
    <3>2. CASE g = h
      <4>1. \A i \in DOMAIN notices'[h] : notices'[h][i] = a \/ (i \in DOMAIN notices[h] /\ notices'[h][i] = notices[h][i])
        BY <1>1
      <4>. QED BY <1>1, <2>1, <3>2, <4>1 DEF QueueInv, Queued
    <3>. QED BY <3>1, <3>2
  <2>. QED BY <2>2, <2>3 DEF QueueInv
<1>. QED BY <1>1, <1>2 DEF NoticesInv

\* A finalization for good: nothing runs, or nothing was heard to have started.
LEMMA CompleteKeeps ==
  ASSUME IInv, NEW t \in Tasks, Parent(t), Registered(t), ~Identified(t), ~Unresolved(t),
         Complete(t), tries' \in [Tasks -> 0 .. 2],
         UNCHANGED <<processVars, host, callVars, why, heard, scan>>
  PROVE  IInv'
<1>. PICK h \in Hosts : h = by[t]
  BY DEF Parent, IInv, TypeOK
<1>. DEFINE S == Activities(h) \ {t}
<1>. TypeOK
  BY DEF IInv
<1>1. /\ h \in Hosts /\ Working(h) /\ launch[t] \notin {"none", "spawning"}
      /\ cmd[t] = "alive" => heard[t] \in {"nothing", "ready"}
  BY DEF Parent, Registered, Unresolved, IInv, TypeOK, TaskInv, Concluded, Report
<1>2. /\ fin' = [fin EXCEPT ![t] = "done"]
      /\ stopping' = [stopping EXCEPT ![t] = FALSE]
      /\ PersistRunning(h, S)
      /\ UNCHANGED <<watcher, polling>>
      /\ Enqueue(h, t) \/ UNCHANGED queueVars
  BY DEF Complete
<1>3. /\ tasks' \in [Hosts -> SUBSET Tasks] /\ record' \in [Hosts -> SUBSET Tasks] /\ dirs' \subseteq Hosts
      /\ faults' \in Nat
      /\ \A u \in Tasks : Kept(u)'
      /\ \A g \in Hosts : HostInv(g)'
  <2>1. S \in SUBSET Tasks
    BY DEF Activities
  <2>2. \A u \in Tasks : u \in S <=> u \in Activities(h) /\ fin'[u] = "open"
    BY <1>2 DEF Activities, Registered, TypeOK
  <2>3. /\ Working(h)' /\ \A g \in Hosts \ {h} : host'[g] = host[g]
        /\ UNCHANGED <<by, launch, sup, cmd, scan>>
    BY <1>1 DEF Working, Open, processVars, callVars
  <2>4. \A u \in Tasks : \/ fin'[u] = fin[u] /\ (heard'[u] = heard[u] \/ fin[u] = "open")
                         \/ fin'[u] = "done" /\ ~Identified(u)
                            /\ (cmd[u] = "alive" => heard'[u] \in {"nothing", "ready"})
    BY <1>1, <1>2 DEF TypeOK
  <2>. HIDE DEF S
  <2>. QED BY <1>1, <1>2, <2>1, <2>2, <2>3, <2>4, PersistKeeps
<1>4. /\ NoticesInv'
      /\ notices' \in [Hosts -> Seq(Activity)] /\ flight' = flight /\ told' = told
  <2>1. \A b \in Activity : HasSettled(b) => HasSettled(b)'
    BY <1>2 DEF HasSettled, TypeOK
  <2>2. HasSettled(t)' /\ t \in Activity
    BY <1>2 DEF HasSettled, TypeOK, Activity
  <2>3. CASE Enqueue(h, t)
    BY <1>1, <1>2, <2>1, <2>2, <2>3, EnqueueKeeps
  <2>4. CASE UNCHANGED queueVars
    BY <1>2, <2>4, QueuesKept DEF queueVars, noticeVars, TypeOK, NoticesTypeOK
  <2>. QED BY <1>2, <2>3, <2>4
<1>5. TypeOK'
  BY <1>2, <1>3, <1>4 DEF TypeOK, ProcessTypeOK, NoticesTypeOK, processVars, callVars
<1>6. ASSUME NEW u \in Tasks PROVE TaskInv(u)'
  <2>. TaskInv(u)
    BY DEF IInv
  <2>. QED BY <1>1, <1>2, <1>3 DEF TypeOK, TaskInv, Begun, Unauthorized, Concluded, processVars, callVars, Identified
<1>. QED BY <1>3, <1>4, <1>5, <1>6 DEF IInv

\* What is retained, or heard of again, stays on record.
LEMMA RetainKeeps ==
  ASSUME IInv, NEW t \in Tasks, Parent(t), Registered(t),
         PersistRunning(by[t], Activities(by[t])) \/ UNCHANGED <<diskVars, faults>>,
         stopping' \in [Tasks -> BOOLEAN], tries' \in [Tasks -> 0 .. 2],
         heard' \in [Tasks -> Report],
         \A u \in Tasks : heard'[u] = heard[u] \/ (u = t /\ (heard'[u] = "exit" => said[u] = "exit")),
         UNCHANGED <<processVars, noticeVars, host, callVars, fin, why, scan>>
  PROVE  IInv'
<1>. PICK h \in Hosts : h = by[t]
  BY DEF Parent, IInv, TypeOK
<1>. DEFINE S == Activities(h)
<1>. TypeOK
  BY DEF IInv
<1>1. h \in Hosts /\ Working(h) /\ fin[t] = "open"
  BY DEF Parent, Registered, TypeOK
<1>2. /\ tasks' \in [Hosts -> SUBSET Tasks] /\ record' \in [Hosts -> SUBSET Tasks] /\ dirs' \subseteq Hosts
      /\ faults' \in Nat
      /\ \A u \in Tasks : Kept(u)'
      /\ \A g \in Hosts : HostInv(g)'
  <2>1. CASE PersistRunning(h, S)
    <3>1. S \in SUBSET Tasks
      BY DEF Activities
    <3>2. \A u \in Tasks : u \in S <=> u \in Activities(h) /\ fin'[u] = "open"
      BY DEF Activities, Registered
    <3>3. /\ Working(h)' /\ \A g \in Hosts \ {h} : host'[g] = host[g]
          /\ UNCHANGED <<by, launch, sup, cmd, scan>>
      BY <1>1 DEF Working, Open, processVars, callVars
    <3>4. \A u \in Tasks : \/ fin'[u] = fin[u] /\ (heard'[u] = heard[u] \/ fin[u] = "open")
                           \/ fin'[u] = "done" /\ ~Identified(u)
                              /\ (cmd[u] = "alive" => heard'[u] \in {"nothing", "ready"})
      BY <1>1
    <3>. HIDE DEF S
    <3>. QED BY <1>1, <2>1, <3>1, <3>2, <3>3, <3>4, PersistKeeps
  <2>2. CASE UNCHANGED <<diskVars, faults>>
    <3>1. /\ tasks' \in [Hosts -> SUBSET Tasks] /\ record' \in [Hosts -> SUBSET Tasks] /\ dirs' \subseteq Hosts
          /\ faults' \in Nat
      BY <2>2 DEF TypeOK, diskVars, files
    <3>2. \A g \in Hosts : HostInv(g)'
      BY <2>2, SignalsKeepHosts DEF processVars, callVars, Identified
    <3>3. ASSUME NEW u \in Tasks PROVE Kept(u)'
      <4>. Kept(u)
        BY DEF IInv, TaskInv
      <4>. QED BY <1>1, <2>2 DEF Kept, Parent, Working, Open, Registered, AtWork, Recorded, EndedUnheard,
                  processVars, callVars, diskVars, files
    <3>. QED BY <3>1, <3>2, <3>3
  <2>. QED BY <2>1, <2>2
<1>3. TypeOK'
  BY <1>2 DEF TypeOK, ProcessTypeOK, NoticesTypeOK, processVars, callVars, noticeVars, queueVars
<1>4. ASSUME NEW u \in Tasks PROVE TaskInv(u)'
  <2>. TaskInv(u)
    BY DEF IInv
  <2>. QED BY <1>1, <1>2 DEF TypeOK, TaskInv, Begun, Unauthorized, Concluded, processVars, callVars, Identified
<1>5. NoticesInv'
  BY QueuesKept
<1>. QED BY <1>2, <1>3, <1>4, <1>5 DEF IInv

LEMMA HearKeeps ==
  ASSUME IInv, NEW t \in Tasks, Hear(t)
  PROVE  IInv'
<1>1. /\ heard' \in [Tasks -> Report]
      /\ \A u \in Tasks : heard'[u] = heard[u] \/ (u = t /\ (heard'[u] = "exit" => said[u] = "exit"))
  BY DEF Hear, IInv, TypeOK, ProcessTypeOK, Report
<1>2. /\ PersistRunning(by[t], Activities(by[t])) \/ UNCHANGED <<diskVars, faults>>
      /\ Parent(t) /\ Registered(t)
      /\ stopping' \in [Tasks -> BOOLEAN] /\ tries' \in [Tasks -> 0 .. 2]
      /\ UNCHANGED <<processVars, noticeVars, host, callVars, fin, why, scan>>
  BY DEF Hear, IInv, TypeOK, endVars
<1>. QED BY <1>1, <1>2, RetainKeeps

LEMMA SupervisorExitsKeeps ==
  ASSUME IInv, NEW t \in Tasks, SupervisorExits(t)
  PROVE  IInv'
<1>1. /\ tries' \in [Tasks -> 0 .. 2] /\ Parent(t) /\ Registered(t) /\ ~Identified(t)
      /\ UNCHANGED <<processVars, host, callVars, why, heard, scan>>
  BY DEF SupervisorExits, IInv, TypeOK, InScope, Parent, Working
<1>2. CASE Unresolved(t) /\ Retain(t) /\ UNCHANGED stopping
  <2>1. /\ heard' \in [Tasks -> Report]
        /\ \A u \in Tasks : heard'[u] = heard[u]
        /\ stopping' \in [Tasks -> BOOLEAN]
        /\ UNCHANGED <<noticeVars, fin>>
        /\ PersistRunning(by[t], Activities(by[t]))
    BY <1>1, <1>2 DEF IInv, TypeOK, Retain
  <2>. QED BY <1>1, <2>1, RetainKeeps
<1>3. CASE ~Unresolved(t) /\ Complete(t)
  BY <1>1, <1>3, CompleteKeeps
<1>. QED BY <1>2, <1>3 DEF SupervisorExits, Finalize

LEMMA StopGraceKeeps ==
  ASSUME IInv, NEW t \in Tasks, StopGrace(t)
  PROVE  IInv'
<1>1. /\ tries' \in [Tasks -> 0 .. 2] /\ Parent(t) /\ Registered(t)
      /\ UNCHANGED <<processVars, host, callVars, why, heard, scan>>
  BY DEF StopGrace, IInv, TypeOK
<1>2. CASE Retain(t) /\ stopping' = [stopping EXCEPT ![t] = FALSE]
  <2>1. /\ heard' \in [Tasks -> Report]
        /\ \A u \in Tasks : heard'[u] = heard[u]
        /\ stopping' \in [Tasks -> BOOLEAN]
        /\ UNCHANGED <<noticeVars, fin>>
        /\ PersistRunning(by[t], Activities(by[t]))
    BY <1>1, <1>2 DEF IInv, TypeOK, Retain
  <2>. QED BY <1>1, <2>1, RetainKeeps
<1>3. CASE ~Identified(t) /\ ~Unresolved(t) /\ Complete(t)
  BY <1>1, <1>3, CompleteKeeps
<1>. QED BY <1>2, <1>3 DEF StopGrace

-----------------------------------------------------------------------------
(* The Session and the Host *)

LEMMA SpawnKeeps ==
  ASSUME IInv, NEW h \in Hosts, NEW t \in Tasks, NEW b \in BOOLEAN, Spawn(h, t, b)
  PROVE  IInv'
<1>. TypeOK
  BY DEF IInv
<1>1. /\ host[h] = "up" /\ launch[t] = "none" /\ by[t] = NoHost
      /\ dirs' = dirs \cup {h} /\ record' = [record EXCEPT ![h] = tasks[h]]
      /\ by' = [by EXCEPT ![t] = h] /\ back' = [back EXCEPT ![t] = b]
      /\ launch' = [launch EXCEPT ![t] = "spawning"]
      /\ sup' = [sup EXCEPT ![t] = "waiting"]
      /\ UNCHANGED <<cmd, said, paper, other, noticeVars, host, endVars, heard, tasks, scan, faults>>
  BY DEF Spawn, Written, IInv, TaskInv, Begun
<1>2. TypeOK'
  BY <1>1 DEF TypeOK, ProcessTypeOK, NoticesTypeOK, noticeVars, queueVars, endVars, Launch, Living
<1>3. ASSUME NEW u \in Tasks PROVE TaskInv(u)'
  <2>. TaskInv(u) /\ TaskInv(t)
    BY DEF IInv
  <2>. TypeOK /\ TypeOK'
    BY <1>2
  <2>1. Begun(u)' /\ other'[u] # "hurt"
    BY <1>1, MonitorsAssumption DEF TypeOK, TaskInv, Begun, endVars
  <2>2. Unauthorized(u)'
    BY <1>1 DEF TypeOK, ProcessTypeOK, TaskInv, Unauthorized
  <2>3. Concluded(u)'
    BY <1>1 DEF TypeOK, ProcessTypeOK, TaskInv, Begun, Concluded, Unauthorized, Identified, Living, endVars
  <2>4. Kept(u)'
    <3>1. CASE u = t
      <4>1. cmd'[t] = "none" /\ sup'[t] = "waiting" /\ launch'[t] = "spawning"
        BY <1>1 DEF TypeOK, ProcessTypeOK, TaskInv, Unauthorized
      <4>. QED BY <3>1, <4>1 DEF Kept, AtWork, Registered
    <3>2. CASE u # t
      <4>1. /\ Parent(u)' => Parent(u)
            /\ Registered(u)' => Registered(u)
            /\ AtWork(u)' => AtWork(u)
            /\ by'[u] = by[u]
            /\ EndedUnheard(u)' <=> EndedUnheard(u)
        BY <1>1, <3>2 DEF Parent, Working, Open, Registered, AtWork, EndedUnheard, TypeOK, ProcessTypeOK, endVars
      <4>2. AtWork(u) => by[u] \in Hosts /\ (Registered(u) \/ EndedUnheard(u))
        BY WorkIsRegistered
      <4>3. by[u] = h => Parent(u)
        BY <1>1, MonitorsAssumption DEF Parent, Working, Open
      <4>4. \A g \in Hosts : record'[g] = IF g = h THEN tasks[g] ELSE record[g]
        BY <1>1 DEF TypeOK
      <4>5. Parent(u)' /\ Registered(u)' => u \in tasks'[by[u]] /\ u \in record'[by[u]]
        BY <1>1, <4>1, <4>4 DEF TaskInv, Kept, Parent, TypeOK
      <4>6. AtWork(u) => Recorded(u)' \/ EndedUnheard(u)
        <5>1. CASE by[u] = h
          BY <1>1, <4>1, <4>2, <4>3, <4>4, <5>1, MonitorsAssumption DEF TaskInv, Kept, Recorded
        <5>2. CASE by[u] # h
          BY <1>1, <4>1, <4>2, <4>4, <5>2, MonitorsAssumption DEF TaskInv, Kept, Recorded
        <5>. QED BY <5>1, <5>2
      <4>. QED BY <4>1, <4>5, <4>6 DEF Kept
    <3>. QED BY <3>1, <3>2
  <2>. QED BY <2>1, <2>2, <2>3, <2>4 DEF TaskInv
<1>4. ASSUME NEW g \in Hosts PROVE HostInv(g)'
  <2>. HostInv(g) /\ HostInv(h)
    BY DEF IInv
  <2>1. Directory(g)'
    BY <1>1, MonitorsAssumption DEF TypeOK, HostInv, Directory
  <2>2. Visiting(g)'
    <3>1. \A d \in Hosts : t \notin record[d]
      BY <1>1, MonitorsAssumption DEF IInv, HostInv, Directory
    <3>2. \A u \in Tasks \ {t} : by'[u] = by[u] /\ Identified(u)' = Identified(u)
      BY <1>1 DEF TypeOK, ProcessTypeOK, Identified
    <3>3. scan[g].dir # NoHost => /\ scan[g].dir \in Hosts /\ record'[scan[g].dir] = record[scan[g].dir]
                                  /\ t \notin scan[g].ids
      BY <1>1, MonitorsAssumption DEF TypeOK, HostInv, Visiting, Scan
    <3>. QED BY <1>1, <3>1, <3>2, <3>3 DEF TypeOK, HostInv, Visiting, Scan
  <2>. QED BY <2>1, <2>2 DEF HostInv
<1>5. NoticesInv'
  BY <1>1, QueuesKept DEF endVars
<1>. QED BY <1>2, <1>3, <1>4, <1>5 DEF IInv

LEMMA StartKeeps ==
  ASSUME IInv, NEW h \in Hosts, StartHost(h)
  PROVE  IInv'
<1>. USE DEF StartHost, processVars, callVars, endVars, diskVars, files
<1>1. TypeOK'
  BY DEF IInv, TypeOK, ProcessTypeOK, NoticesTypeOK, noticeVars, queueVars
<1>2. ASSUME NEW u \in Tasks PROVE TaskInv(u)'
  BY DEF IInv, TypeOK, TaskInv, Begun, Unauthorized, Concluded, Kept,
     Identified, Parent, AtWork, Registered, Recorded, EndedUnheard, Working, Open, Living
<1>3. ASSUME NEW g \in Hosts PROVE HostInv(g)'
  BY DEF IInv, TypeOK, HostInv, Directory, Visiting, Scan, Identified
<1>4. NoticesInv'
  BY QueuesKept
<1>. QED BY <1>1, <1>2, <1>3, <1>4 DEF IInv

\* What is dropped leaves no outcome unsettled.
LEMMA DropKeeps ==
  ASSUME IInv, NEW h \in Hosts, DropNotices(h), UNCHANGED fin
  PROVE  NoticesTypeOK' /\ NoticesInv'
<1>. NoticesTypeOK /\ NoticesInv /\ \A g \in Hosts : QueueInv(g)
  BY DEF IInv, TypeOK, NoticesInv
<1>1. NoticesTypeOK'
  BY DEF DropNotices, NoticesTypeOK
<1>2. \A a : HasSettled(a) => HasSettled(a)'
  BY DEF DropNotices, HasSettled
<1>3. ASSUME NEW g \in Hosts PROVE QueueInv(g)'
  <2>1. Queued(notices[g])' /\ Queued(flight[g])'
    BY <1>2 DEF DropNotices, NoticesTypeOK, QueueInv, Queued
  <2>2. Queued(told[g])'
    BY <1>2 DEF DropNotices, QueueInv, Queued
  <2>. QED BY <2>1, <2>2 DEF QueueInv
<1>. QED BY <1>1, <1>3 DEF NoticesInv, DropNotices

LEMMA ShutdownKeeps ==
  ASSUME IInv, NEW h \in Hosts, Shutdown(h)
  PROVE  IInv'
<1>. TypeOK
  BY DEF IInv
<1>1. /\ why' \in [Tasks -> Reason] /\ stopping' \in [Tasks -> BOOLEAN]
      /\ sup' \in [Tasks -> Living \cup {"none", "gone"}]
      /\ \A u \in Tasks : \/ sup'[u] = sup[u]
                          \/ sup[u] # "none" /\ sup'[u] = "gone"
                          \/ sup[u] = "watching" /\ sup'[u] = "stopping"
  BY DEF Shutdown, TypeOK, ProcessTypeOK, Reason, Living
<1>2. /\ host[h] = "up" /\ host' = [host EXCEPT ![h] = "closing"] /\ DropNotices(h)
      /\ UNCHANGED <<cmd, said, paper, other, callVars, fin, tries, heard, diskVars, scan, faults>>
  BY DEF Shutdown
<1>3. NoticesTypeOK' /\ NoticesInv'
  BY <1>2, DropKeeps
<1>4. TypeOK'
  BY <1>1, <1>2, <1>3 DEF TypeOK, ProcessTypeOK, callVars, diskVars, files
<1>5. ASSUME NEW u \in Tasks PROVE TaskInv(u)'
  BY <1>1, <1>2 DEF IInv, TypeOK, ProcessTypeOK, TaskInv, Begun, Unauthorized, Concluded, Kept, callVars, diskVars, files,
     Identified, Parent, AtWork, Registered, Recorded, EndedUnheard, Working, Open, Living
<1>6. ASSUME NEW g \in Hosts PROVE HostInv(g)'
  <2>. HostInv(g)
    BY DEF IInv
  <2>1. Directory(g)'
    BY <1>2 DEF TypeOK, HostInv, Directory, callVars, diskVars, files
  <2>2. Visiting(g)'
    <3>1. \A u \in Tasks : Identified(u)' => Identified(u)
      BY <1>1 DEF Identified, Living
    <3>. QED BY <1>2, <3>1 DEF TypeOK, HostInv, Visiting, Scan, callVars, diskVars, files
  <2>. QED BY <2>1, <2>2 DEF HostInv
<1>. QED BY <1>3, <1>4, <1>5, <1>6 DEF IInv

LEMMA EndShutdownKeeps ==
  ASSUME IInv, NEW h \in Hosts, EndShutdown(h)
  PROVE  IInv'
<1>. TypeOK
  BY DEF IInv
<1>1. /\ host[h] = "closing" /\ host' = [host EXCEPT ![h] = "closed"]
      /\ UNCHANGED <<processVars, noticeVars, callVars, endVars, heard, scan>>
  BY DEF EndShutdown
<1>2. /\ tasks' \in [Hosts -> SUBSET Tasks] /\ record' \in [Hosts -> SUBSET Tasks] /\ dirs' \subseteq Hosts
      /\ faults' \in Nat
      /\ \A u \in Tasks : Kept(u)'
      /\ \A g \in Hosts : HostInv(g)'
  <2>1. CASE PersistRunning(h, Activities(h))
    <3>. DEFINE S == Activities(h)
    <3>1. S \in SUBSET Tasks
      BY DEF Activities
    <3>2. \A u \in Tasks : u \in S <=> u \in Activities(h) /\ fin'[u] = "open"
      BY <1>1 DEF Activities, Registered, endVars
    <3>3. /\ Working(h) /\ Working(h)' /\ \A g \in Hosts \ {h} : host'[g] = host[g]
          /\ UNCHANGED <<by, launch, sup, cmd, scan>>
      BY <1>1 DEF TypeOK, Working, Open, processVars, callVars
    <3>4. \A u \in Tasks : \/ fin'[u] = fin[u] /\ (heard'[u] = heard[u] \/ fin[u] = "open")
                           \/ fin'[u] = "done" /\ ~Identified(u)
                              /\ (cmd[u] = "alive" => heard'[u] \in {"nothing", "ready"})
      BY <1>1 DEF endVars
    <3>. HIDE DEF S
    <3>. QED BY <2>1, <3>1, <3>2, <3>3, <3>4, PersistKeeps DEF S
  <2>2. CASE Activities(h) = {} /\ Removed(h) /\ tasks' = [tasks EXCEPT ![h] = {}] /\ UNCHANGED faults
    <3>1. /\ tasks' \in [Hosts -> SUBSET Tasks] /\ record' \in [Hosts -> SUBSET Tasks] /\ dirs' \subseteq Hosts
          /\ faults' \in Nat
          /\ record' = [record EXCEPT ![h] = {}] /\ dirs' = dirs \ {h}
      BY <2>2 DEF Removed, TypeOK
    <3>2. ASSUME NEW u \in Tasks PROVE Kept(u)'
      <4>. Kept(u)
        BY DEF IInv, TaskInv
      <4>1. by[u] = h => ~Registered(u)
        BY <2>2 DEF Activities
      <4>2. AtWork(u) => by[u] \in Hosts /\ (Registered(u) \/ EndedUnheard(u))
        BY WorkIsRegistered
      <4>3. Parent(u)' => Parent(u)
        BY <1>1 DEF Parent, Working, Open, TypeOK, callVars
      <4>4. /\ Registered(u)' <=> Registered(u)
            /\ AtWork(u)' <=> AtWork(u)
            /\ EndedUnheard(u)' <=> EndedUnheard(u)
            /\ by'[u] = by[u]
        BY <1>1 DEF Registered, AtWork, EndedUnheard, processVars, callVars, endVars
      <4>5. \A g \in Hosts \ {h} : record'[g] = record[g] /\ tasks'[g] = tasks[g]
        BY <2>2, <3>1 DEF TypeOK
      <4>. QED BY <4>1, <4>2, <4>3, <4>4, <4>5, MonitorsAssumption DEF Kept, Recorded, Parent, TypeOK
    <3>3. ASSUME NEW g \in Hosts PROVE HostInv(g)'
      <4>. HostInv(g)
        BY DEF IInv
      <4>. QED BY <1>1, <2>2, <3>1 DEF TypeOK, HostInv, Directory, Visiting, Scan, Identified, processVars, callVars
    <3>. QED BY <3>1, <3>2, <3>3
  <2>. QED BY <2>1, <2>2 DEF EndShutdown, MayClean
<1>3. TypeOK'
  BY <1>1, <1>2 DEF TypeOK, ProcessTypeOK, NoticesTypeOK, processVars, noticeVars, queueVars, callVars, endVars
<1>4. ASSUME NEW u \in Tasks PROVE TaskInv(u)'
  <2>. TaskInv(u)
    BY DEF IInv
  <2>. QED BY <1>1, <1>2 DEF TypeOK, TaskInv, Begun, Unauthorized, Concluded, processVars, callVars, endVars, Identified
<1>5. NoticesInv'
  BY <1>1, QueuesKept DEF endVars
<1>. QED BY <1>2, <1>3, <1>4, <1>5 DEF IInv

LEMMA HostEndsKeeps ==
  ASSUME IInv, NEW h \in Hosts, HostEnds(h)
  PROVE  IInv'
<1>. TypeOK
  BY DEF IInv
<1>1. /\ Working(h) /\ host' = [host EXCEPT ![h] = "down"]
      /\ scan' = [scan EXCEPT ![h] = Unprepared]
      /\ tasks' = [tasks EXCEPT ![h] = {}]
      /\ launch' = [t \in Tasks |-> IF by[t] = h THEN "over" ELSE launch[t]]
      /\ DropNotices(h)
      /\ UNCHANGED <<processVars, by, fin, heard, files, faults>>
  BY DEF HostEnds, Forgotten
<1>2. /\ back' \in [Tasks -> BOOLEAN] /\ why' \in [Tasks -> Reason]
      /\ stopping' \in [Tasks -> BOOLEAN] /\ tries' \in [Tasks -> 0 .. 2]
  <2>1. back' \in [Tasks -> BOOLEAN]
    BY DEF HostEnds, Forgotten, TypeOK
  <2>2. why' \in [Tasks -> Reason]
    BY DEF HostEnds, Forgotten, TypeOK, Reason
  <2>3. stopping' \in [Tasks -> BOOLEAN]
    BY DEF HostEnds, Forgotten, TypeOK
  <2>4. tries' \in [Tasks -> 0 .. 2]
    BY DEF HostEnds, Forgotten, TypeOK
  <2>. QED BY <2>1, <2>2, <2>3, <2>4
<1>3. NoticesTypeOK' /\ NoticesInv'
  BY <1>1, DropKeeps
<1>4. TypeOK'
  <2>1. scan' \in [Hosts -> Scan]
    BY <1>1, NamesAssumption DEF TypeOK, Scan, Unprepared
  <2>2. launch' \in [Tasks -> Launch]
    BY <1>1 DEF TypeOK, Launch
  <2>. QED BY <1>1, <1>2, <1>3, <2>1, <2>2 DEF TypeOK, ProcessTypeOK, processVars, files
<1>5. ASSUME NEW u \in Tasks PROVE TaskInv(u)'
  <2>. TaskInv(u)
    BY DEF IInv
  <2>1. Begun(u)'
    BY <1>1, MonitorsAssumption DEF TypeOK, TaskInv, Begun, Working, Open, processVars
  <2>2. Unauthorized(u)'
    BY <1>1 DEF TaskInv, Unauthorized, processVars
  <2>3. Concluded(u)' /\ other'[u] # "hurt"
    BY <1>1 DEF TaskInv, Concluded, Identified, processVars
  <2>4. Kept(u)'
    BY <1>1 DEF TypeOK, TaskInv, Kept, Parent, Working, Open, Registered, AtWork, Recorded, EndedUnheard, processVars, files
  <2>. QED BY <2>1, <2>2, <2>3, <2>4 DEF TaskInv
<1>6. ASSUME NEW g \in Hosts PROVE HostInv(g)'
  <2>. HostInv(g)
    BY DEF IInv
  <2>1. Directory(g)'
    BY <1>1 DEF TypeOK, HostInv, Directory, Working, Open, files
  <2>2. Visiting(g)'
    <3>1. CASE g = h
      BY <1>1, <3>1, MonitorsAssumption, NamesAssumption DEF TypeOK, Visiting, Unprepared
    <3>2. CASE g # h
      BY <1>1, <3>2 DEF TypeOK, HostInv, Visiting, Scan, Identified, processVars, files
    <3>. QED BY <3>1, <3>2
  <2>. QED BY <2>1, <2>2 DEF HostInv
<1>. QED BY <1>3, <1>4, <1>5, <1>6 DEF IInv

-----------------------------------------------------------------------------
(* Recovery *)

\* A scan that only moves on, and processes that it only ends.
LEMMA ScanKeeps ==
  ASSUME IInv, UNCHANGED <<noticeVars, host, callVars, endVars, heard, tasks, faults>>,
         scan' \in [Hosts -> Scan], TypeOK', \A u \in Tasks : TaskInv(u)',
         \A g \in Hosts : HostInv(g)'
  PROVE  IInv'
BY QueuesKept DEF IInv, endVars

\* Nothing but the scan moved.
LEMMA VisitsKeep ==
  ASSUME IInv, NEW h \in Hosts, NEW s \in Scan, scan' = [scan EXCEPT ![h] = s],
         UNCHANGED <<processVars, noticeVars, host, callVars, endVars, heard, diskVars, faults>>,
         /\ s.dir = NoHost => s.ids = {}
         /\ s.dir # NoHost =>
              /\ host[s.dir] = "down"
              /\ \A t \in s.ids : by[t] = s.dir
              /\ ~s.bad => \A t \in record[s.dir] \ s.ids : ~Identified(t) /\ cmd[t] # "alive"
         /\ s.at # NoTask => s.at \in s.ids
  PROVE  IInv'
<1>. TypeOK
  BY DEF IInv
<1>1. scan' \in [Hosts -> Scan]
  BY DEF TypeOK
<1>2. TypeOK'
  BY <1>1 DEF TypeOK, ProcessTypeOK, NoticesTypeOK, processVars, noticeVars, queueVars, callVars, endVars, diskVars, files
<1>3. ASSUME NEW u \in Tasks PROVE TaskInv(u)'
  <2>. TaskInv(u)
    BY DEF IInv
  <2>. QED BY DEF TaskInv, Begun, Unauthorized, Concluded, Kept, Identified, Parent, AtWork, Registered, Recorded,
              EndedUnheard, Working, Open, processVars, callVars, endVars, diskVars, files
<1>4. ASSUME NEW g \in Hosts PROVE HostInv(g)'
  <2>. HostInv(g)
    BY DEF IInv
  <2>1. Directory(g)'
    BY DEF HostInv, Directory, callVars, diskVars, files
  <2>2. Visiting(g)'
    <3>1. scan'[g] = IF g = h THEN s ELSE scan[g]
      BY DEF TypeOK
    <3>. QED BY <3>1 DEF HostInv, Visiting, Identified, processVars, callVars, diskVars, files
  <2>. QED BY <2>1, <2>2 DEF HostInv
<1>. QED BY <1>1, <1>2, <1>3, <1>4, ScanKeeps DEF diskVars

LEMMA PrepareKeeps ==
  ASSUME IInv, NEW h \in Hosts, Prepare(h)
  PROVE  IInv'
<1>. DEFINE s == [Unprepared EXCEPT !.state = "scanning", !.left = dirs]
<1>1. s \in Scan /\ s.dir = NoHost /\ s.ids = {} /\ s.at = NoTask
  BY DEF IInv, TypeOK, Scan, Unprepared
<1>. HIDE DEF s
<1>. QED BY <1>1, VisitsKeep DEF Prepare, s

LEMMA VisitKeeps ==
  ASSUME IInv, NEW h \in Hosts, NEW d \in Hosts, Visit(h, d)
  PROVE  IInv'
<1>. DEFINE s == [scan[h] EXCEPT !.left = @ \ {d},
                                 !.dir = IF d \in dirs /\ Stale(d) THEN d ELSE NoHost,
                                 !.ids = IF Stale(d) THEN record[d] ELSE {},
                                 !.bad = FALSE]
<1>1. HostInv(d) /\ HostInv(h) /\ TypeOK /\ d # NoHost
  BY MonitorsAssumption DEF IInv
<1>2. scan[h] \in Scan /\ scan[h].dir = NoHost /\ record[d] \in SUBSET Tasks
  BY <1>1 DEF Visit, TypeOK
<1>3. scan' = [scan EXCEPT ![h] = s]
  BY <1>1 DEF Visit, TypeOK, Scan
<1>4. /\ s \in Scan /\ s.at = scan[h].at /\ s.bad = FALSE
      /\ s.dir = (IF d \in dirs /\ Stale(d) THEN d ELSE NoHost)
      /\ s.ids = (IF Stale(d) THEN record[d] ELSE {})
  BY <1>2 DEF Scan
<1>5. scan[h].at = NoTask
  BY <1>1, <1>2 DEF HostInv, Visiting
<1>6. d \notin dirs => record[d] = {}
  BY <1>1 DEF HostInv, Directory
<1>7. d \in dirs /\ Stale(d) => host[d] = "down"
  BY <1>1 DEF HostInv, Directory, Stale, Working, Open, TypeOK
<1>8. \A t \in record[d] : by[t] = d
  BY <1>1 DEF HostInv, Directory
<1>9. UNCHANGED <<processVars, noticeVars, host, callVars, endVars, heard, diskVars, faults>>
  BY DEF Visit
<1>. HIDE DEF s
<1>10. s.dir = NoHost => s.ids = {}
  BY <1>1, <1>4, <1>6
<1>11. s.dir # NoHost =>
         /\ host[s.dir] = "down"
         /\ \A t \in s.ids : by[t] = s.dir
         /\ ~s.bad => \A t \in record[s.dir] \ s.ids : ~Identified(t) /\ cmd[t] # "alive"
  BY <1>1, <1>4, <1>7, <1>8
<1>12. s.at # NoTask => s.at \in s.ids
  BY <1>4, <1>5
<1>. QED BY <1>3, <1>4, <1>9, <1>10, <1>11, <1>12, VisitsKeep

\* What a scan has resolved leaves no supervisor and no command behind.
LEMMA ResolvedKeeps ==
  ASSUME IInv, NEW h \in Hosts, NEW t \in Tasks, NEW bad \in BOOLEAN,
         Scanning(h), t \in scan[h].ids, scan[h].at \in {NoTask, t}, Resolved(h, t, bad),
         UNCHANGED <<said, paper, other, noticeVars, host, callVars, endVars, heard, diskVars, faults>>,
         ProcessTypeOK',
         \A u \in Tasks : \/ sup'[u] = sup[u] /\ cmd'[u] = cmd[u]
                          \/ /\ sup[u] # "none" /\ sup'[u] = "gone"
                             /\ cmd'[u] = IF cmd[u] = "alive" THEN "gone" ELSE cmd[u],
         ~bad => ~Identified(t)' /\ cmd'[t] # "alive"
  PROVE  IInv'
<1>. DEFINE s == [scan[h] EXCEPT !.ids = @ \ {t}, !.at = NoTask, !.bad = @ \/ bad]
<1>. TypeOK
  BY DEF IInv
<1>1. scan[h] \in Scan
  BY DEF TypeOK
<1>2. scan' = [scan EXCEPT ![h] = s]
  BY DEF Resolved, TypeOK, Scan
<1>3. /\ s \in Scan /\ s.at = NoTask /\ s.bad = (scan[h].bad \/ bad)
      /\ s.dir = scan[h].dir /\ s.ids = scan[h].ids \ {t}
  BY <1>1 DEF Scan
<1>4. scan' \in [Hosts -> Scan]
  BY <1>2, <1>3 DEF TypeOK
<1>. HIDE DEF s
<1>5. TypeOK'
  BY <1>4 DEF TypeOK, NoticesTypeOK, noticeVars, queueVars, callVars, endVars, diskVars, files
<1>6. ASSUME NEW u \in Tasks PROVE TaskInv(u)'
  <2>. TaskInv(u)
    BY DEF IInv
  <2>. sup[u] \in Living \cup {"none", "gone"} /\ cmd[u] \in {"none", "alive", "gone"}
    BY DEF TypeOK, ProcessTypeOK
  <2>. QED BY DEF TaskInv, Begun, Unauthorized, Concluded, Kept, Identified, Parent, AtWork, Registered, Recorded,
              EndedUnheard, Working, Open, Living, callVars, endVars, diskVars, files
<1>7. \A u \in Tasks : /\ Identified(u)' => Identified(u)
                       /\ cmd'[u] = "alive" => cmd[u] = "alive"
  BY DEF Identified, Living
<1>8. ASSUME NEW g \in Hosts PROVE HostInv(g)'
  <2>. HostInv(g)
    BY DEF IInv
  <2>1. Directory(g)'
    BY DEF HostInv, Directory, callVars, diskVars, files
  <2>2. Visiting(g)'
    <3>1. scan'[g] = IF g = h THEN s ELSE scan[g]
      BY <1>2 DEF TypeOK
    <3>2. scan[g] \in Scan /\ \A d \in Hosts : record[d] \subseteq Tasks
      BY DEF TypeOK
    <3>3. CASE g # h
      BY <1>7, <3>1, <3>2, <3>3 DEF HostInv, Visiting, Scan, callVars, diskVars, files
    <3>4. CASE g = h
      <4>1. /\ s.dir # NoHost /\ host[s.dir] = "down" /\ \A u \in s.ids : by[u] = s.dir
            /\ s.dir \in Hosts /\ record[s.dir] \subseteq Tasks
        BY <1>3, <3>2, <3>4 DEF HostInv, Visiting, Scan
      <4>2. ~s.bad => \A u \in record[s.dir] \ s.ids : ~Identified(u)' /\ cmd'[u] # "alive"
        BY <1>3, <1>7, <3>4, <4>1 DEF HostInv, Visiting
      <4>. QED BY <1>3, <3>1, <3>4, <4>1, <4>2 DEF Visiting, callVars, diskVars, files
    <3>. QED BY <3>3, <3>4
  <2>. QED BY <2>1, <2>2 DEF HostInv
<1>. QED BY <1>4, <1>5, <1>6, <1>8, ScanKeeps DEF diskVars

LEMMA TerminateKeeps ==
  ASSUME IInv, NEW h \in Hosts, NEW t \in Tasks, Terminate(h, t)
  PROVE  IInv'
<1>. TypeOK
  BY DEF IInv
<1>1. /\ Scanning(h) /\ scan[h].at = NoTask /\ t \in scan[h].ids
      /\ UNCHANGED <<noticeVars, host, callVars, endVars, heard, diskVars, faults>>
  BY DEF Terminate
<1>2. CASE ~Identified(t) /\ Resolved(h, t, cmd[t] = "alive") /\ UNCHANGED processVars
  <2>1. ProcessTypeOK' /\ UNCHANGED <<said, paper, other>> /\ sup' = sup /\ cmd' = cmd
    BY <1>2 DEF TypeOK, ProcessTypeOK, processVars
  <2>2. PICK bad \in BOOLEAN : bad = (cmd[t] = "alive")
    OBVIOUS
  <2>3. Resolved(h, t, bad)
    BY <1>2, <2>2
  <2>. QED BY <1>1, <1>2, <2>1, <2>2, <2>3, ResolvedKeeps DEF Identified
<1>3. CASE Identified(t) /\ TermGroup(t) /\ scan' = [scan EXCEPT ![h].at = t]
  <2>1. /\ UNCHANGED <<cmd, said, paper, other>>
        /\ sup' \in [Tasks -> Living \cup {"none", "gone"}]
        /\ \A u \in Tasks : \/ sup'[u] = sup[u]
                            \/ sup[u] # "none" /\ sup'[u] = "gone"
                            \/ sup[u] = "watching" /\ sup'[u] = "stopping"
    BY <1>3 DEF TermGroup, TermSupervisor, HurtOther, TypeOK, ProcessTypeOK, Living
  <2>2. /\ scan' \in [Hosts -> Scan]
        /\ scan'[h].at = t /\ scan'[h].dir = scan[h].dir /\ scan'[h].ids = scan[h].ids /\ scan'[h].bad = scan[h].bad
        /\ \A g \in Hosts \ {h} : scan'[g] = scan[g]
    BY <1>3 DEF TypeOK, Scan
  <2>3. TypeOK'
    BY <1>1, <2>1, <2>2 DEF TypeOK, ProcessTypeOK, NoticesTypeOK, noticeVars, queueVars, callVars, endVars, diskVars, files
  <2>4. ASSUME NEW u \in Tasks PROVE TaskInv(u)'
    <3>. TaskInv(u)
      BY DEF IInv
    <3>. QED BY <1>1, <2>1 DEF TaskInv, Begun, Unauthorized, Concluded, Kept, Identified, Parent, AtWork, Registered,
                Recorded, EndedUnheard, Working, Open, Living, callVars, endVars, diskVars, files
  <2>5. \A u \in Tasks : Identified(u)' => Identified(u)
    BY <2>1 DEF Identified, Living
  <2>6. ASSUME NEW g \in Hosts PROVE HostInv(g)'
    <3>. HostInv(g)
      BY DEF IInv
    <3>1. Directory(g)'
      BY <1>1 DEF HostInv, Directory, callVars, diskVars, files
    <3>2. Visiting(g)'
      <4>1. scan[g] \in Scan /\ \A d \in Hosts : record[d] \subseteq Tasks
        BY DEF TypeOK
      <4>2. /\ scan'[g].dir = scan[g].dir /\ scan'[g].ids = scan[g].ids /\ scan'[g].bad = scan[g].bad
            /\ scan'[g].at = scan[g].at \/ (g = h /\ scan'[g].at = t)
        BY <2>2
      <4>. QED BY <1>1, <2>1, <2>5, <4>1, <4>2 DEF HostInv, Visiting, Scan, callVars, diskVars, files
    <3>. QED BY <3>1, <3>2 DEF HostInv
  <2>. QED BY <1>1, <2>2, <2>3, <2>4, <2>6, ScanKeeps DEF diskVars
<1>. QED BY <1>2, <1>3 DEF Terminate, SameProcess

LEMMA EscalateKeeps ==
  ASSUME IInv, NEW h \in Hosts, NEW t \in Tasks, Escalate(h, t)
  PROVE  IInv'
<1>. TypeOK /\ HostInv(h) /\ t # NoTask
  BY NamesAssumption DEF IInv
<1>1. /\ Scanning(h) /\ scan[h].at = t /\ t \in scan[h].ids
      /\ UNCHANGED <<noticeVars, host, callVars, endVars, heard, diskVars, faults>>
  BY DEF Escalate, HostInv, Visiting
<1>2. CASE Identified(t) /\ KillGroup(t) /\ Resolved(h, t, FALSE)
  <2>1. /\ UNCHANGED <<said, paper, other>>
        /\ sup' = [sup EXCEPT ![t] = "gone"]
        /\ cmd' = [cmd EXCEPT ![t] = IF @ = "alive" THEN "gone" ELSE @]
    BY <1>2 DEF KillGroup, KillSupervisor, HurtOther, TypeOK, ProcessTypeOK, Identified
  <2>2. ProcessTypeOK'
    BY <2>1 DEF TypeOK, ProcessTypeOK
  <2>3. \A u \in Tasks : \/ sup'[u] = sup[u] /\ cmd'[u] = cmd[u]
                         \/ /\ sup[u] # "none" /\ sup'[u] = "gone"
                            /\ cmd'[u] = IF cmd[u] = "alive" THEN "gone" ELSE cmd[u]
    BY <1>2, <2>1 DEF TypeOK, ProcessTypeOK, Identified, Living
  <2>4. ~Identified(t)' /\ cmd'[t] # "alive"
    BY <2>1 DEF TypeOK, ProcessTypeOK, Identified, Living
  <2>. QED BY <1>1, <1>2, <2>1, <2>2, <2>3, <2>4, ResolvedKeeps
<1>3. CASE Resolved(h, t, GroupExists(t)) /\ UNCHANGED processVars
  <2>1. ProcessTypeOK' /\ UNCHANGED <<said, paper, other>> /\ sup' = sup /\ cmd' = cmd
    BY <1>3 DEF TypeOK, ProcessTypeOK, processVars
  <2>2. PICK bad \in BOOLEAN : bad = GroupExists(t)
    BY DEF GroupExists
  <2>3. Resolved(h, t, bad)
    BY <1>3, <2>2
  <2>. QED BY <1>1, <2>1, <2>2, <2>3, ResolvedKeeps DEF Identified, GroupExists
<1>. QED BY <1>2, <1>3 DEF Escalate, SameProcess

LEMMA PreparedKeeps ==
  ASSUME IInv, NEW h \in Hosts, Prepared(h)
  PROVE  IInv'
<1>. DEFINE s == [scan[h] EXCEPT !.state = "prepared"]
<1>1. HostInv(h) /\ TypeOK /\ scan[h] \in Scan /\ scan[h].dir = NoHost
  BY DEF IInv, Prepared, TypeOK
<1>2. scan' = [scan EXCEPT ![h] = s]
  BY <1>1 DEF Prepared, TypeOK
<1>3. s \in Scan /\ s.dir = NoHost /\ s.ids = scan[h].ids /\ s.at = scan[h].at
  BY <1>1 DEF Scan
<1>4. s.ids = {} /\ s.at = NoTask
  BY <1>1, <1>3 DEF HostInv, Visiting
<1>. HIDE DEF s
<1>. QED BY <1>2, <1>3, <1>4, VisitsKeep DEF Prepared

LEMMA EndVisitKeeps ==
  ASSUME IInv, NEW h \in Hosts, EndVisit(h)
  PROVE  IInv'
<1>. DEFINE s == [scan[h] EXCEPT !.dir = NoHost]  d == scan[h].dir
<1>1. /\ HostInv(h) /\ TypeOK /\ scan[h] \in Scan /\ d # NoHost /\ d \in Hosts /\ scan[h].ids = {}
      /\ UNCHANGED <<processVars, noticeVars, host, callVars, endVars, heard, tasks, faults>>
  BY DEF IInv, EndVisit, TypeOK, Scan
<1>2. /\ host[d] = "down" /\ scan[h].at = NoTask
      /\ ~scan[h].bad => \A t \in record[d] : ~Identified(t) /\ cmd[t] # "alive"
  BY <1>1 DEF HostInv, Visiting
<1>3. s \in Scan /\ s.dir = NoHost /\ s.ids = {} /\ s.at = NoTask
  BY <1>1, <1>2 DEF Scan
<1>4. CASE scan' = [scan EXCEPT ![h].dir = NoHost] /\ UNCHANGED files
  <2>1. scan' = [scan EXCEPT ![h] = s]
    BY <1>1, <1>4 DEF TypeOK
  <2>. HIDE DEF s
  <2>. QED BY <1>1, <1>3, <1>4, <2>1, VisitsKeep DEF diskVars
<1>5. CASE scan' = [scan EXCEPT ![h] = Unprepared] /\ UNCHANGED files
  <2>1. Unprepared \in Scan /\ Unprepared.dir = NoHost /\ Unprepared.ids = {} /\ Unprepared.at = NoTask
    BY DEF Unprepared, Scan
  <2>. QED BY <1>1, <1>5, <2>1, VisitsKeep DEF diskVars
<1>6. CASE ~scan[h].bad /\ scan' = [scan EXCEPT ![h].dir = NoHost] /\ Removed(d)
  <2>1. /\ scan' = [scan EXCEPT ![h] = s] /\ scan' \in [Hosts -> Scan]
    BY <1>1, <1>3, <1>6 DEF TypeOK
  <2>. HIDE DEF s
  <2>2. /\ dirs' = dirs \ {d} /\ record' = [record EXCEPT ![d] = {}]
    BY <1>6 DEF Removed
  <2>3. TypeOK'
    BY <1>1, <2>1, <2>2 DEF TypeOK, ProcessTypeOK, NoticesTypeOK, processVars, noticeVars, queueVars, callVars, endVars
  <2>4. ASSUME NEW u \in Tasks PROVE TaskInv(u)'
    <3>. TaskInv(u)
      BY DEF IInv
    <3>1. Begun(u)' /\ Unauthorized(u)' /\ Concluded(u)' /\ other'[u] # "hurt"
      BY <1>1 DEF TaskInv, Begun, Unauthorized, Concluded, Identified, processVars, callVars, endVars
    <3>2. \A g \in Hosts : record'[g] = IF g = d THEN {} ELSE record[g]
      BY <1>1, <2>2 DEF TypeOK
    <3>3. u \in record[d] => ~AtWork(u)
      BY <1>2, <1>6 DEF AtWork, Identified, Living
    <3>4. Parent(u) => by[u] # d
      BY <1>2 DEF Parent, Working, Open
    <3>5. /\ Parent(u)' <=> Parent(u)
          /\ Registered(u)' <=> Registered(u)
          /\ AtWork(u)' <=> AtWork(u)
          /\ EndedUnheard(u)' <=> EndedUnheard(u)
          /\ by'[u] = by[u] /\ by[u] \in Hosts \cup {NoHost}
      BY <1>1 DEF Parent, Working, Open, Registered, AtWork, EndedUnheard, TypeOK, processVars, callVars, endVars
    <3>6. Kept(u)'
      BY <1>1, <3>2, <3>3, <3>4, <3>5, MonitorsAssumption DEF TaskInv, Kept, Recorded, Parent
    <3>. QED BY <3>1, <3>6 DEF TaskInv
  <2>5. ASSUME NEW g \in Hosts PROVE HostInv(g)'
    <3>. HostInv(g)
      BY DEF IInv
    <3>1. Directory(g)'
      BY <1>1, <2>2 DEF TypeOK, HostInv, Directory, callVars
    <3>2. Visiting(g)'
      <4>1. scan'[g] = IF g = h THEN s ELSE scan[g]
        BY <2>1 DEF TypeOK
      <4>2. \A e \in Hosts : record'[e] = IF e = d THEN {} ELSE record[e]
        BY <1>1, <2>2 DEF TypeOK
      <4>3. scan[g] \in Scan
        BY <1>1 DEF TypeOK
      <4>. QED BY <1>1, <1>3, <4>1, <4>2, <4>3 DEF HostInv, Visiting, Scan, Identified, processVars, callVars
    <3>. QED BY <3>1, <3>2 DEF HostInv
  <2>. QED BY <1>1, <2>1, <2>3, <2>4, <2>5, ScanKeeps
<1>. QED BY <1>4, <1>5, <1>6 DEF EndVisit

-----------------------------------------------------------------------------
(* Notices *)

LEMMA NoticesKeep ==
  ASSUME IInv, OthersKept, faults' \in Nat, NoticesTypeOK', NoticesInv'
  PROVE  IInv'
<1>1. TypeOK'
  BY DEF IInv, TypeOK, ProcessTypeOK, OthersKept, processVars, callVars, endVars, diskVars, files
<1>2. ASSUME NEW u \in Tasks PROVE TaskInv(u)'
  <2>. TaskInv(u)
    BY DEF IInv
  <2>. QED BY DEF OthersKept, TaskInv, Begun, Unauthorized, Concluded, Kept, Identified, Parent, AtWork, Registered,
              Recorded, EndedUnheard, Working, Open, processVars, callVars, endVars, diskVars, files
<1>3. ASSUME NEW g \in Hosts PROVE HostInv(g)'
  BY SignalsKeepHosts DEF OthersKept, processVars, callVars, Identified
<1>. QED BY <1>1, <1>2, <1>3 DEF IInv

\* What is queued together, or in part, was queued before.
LEMMA QueuedParts ==
  ASSUME NEW s \in Seq(Activity), NEW r \in Seq(Activity), Queued(s), Queued(r),
         NEW n \in 0 .. Len(s)
  PROVE  /\ s \o r \in Seq(Activity) /\ Queued(s \o r)
         /\ SubSeq(s, 1, n) \in Seq(Activity) /\ Queued(SubSeq(s, 1, n))
         /\ SubSeq(s, n + 1, Len(s)) \in Seq(Activity) /\ Queued(SubSeq(s, n + 1, Len(s)))
<1>1. s \o r \in Seq(Activity) /\ Queued(s \o r)
  BY DEF Queued
<1>2. SubSeq(s, 1, n) \in Seq(Activity) /\ Queued(SubSeq(s, 1, n))
  BY DEF Queued
<1>3. SubSeq(s, n + 1, Len(s)) \in Seq(Activity) /\ Queued(SubSeq(s, n + 1, Len(s)))
  BY DEF Queued
<1>. QED BY <1>1, <1>2, <1>3

LEMMA BatchBound ==
  ASSUME NoticesTypeOK, NEW h \in Hosts
  PROVE  /\ BatchSize(h) \in 0 .. Len(flight[h])
         /\ flight[h] # <<>> => BatchSize(h) \in 1 .. Len(flight[h])
BY MaxBatchAssumption, EmptySeq DEF BatchSize, NoticesTypeOK

LEMMA DeliveryKeeps ==
  ASSUME IInv, NEW h \in Hosts, NoticeStep(h) \/ NoticeFails(h)
  PROVE  IInv'
<1>. /\ NoticesTypeOK /\ NoticesInv /\ \A g \in Hosts : QueueInv(g)
     /\ notices \in [Hosts -> Seq(Activity)] /\ flight \in [Hosts -> Seq(Activity)]
     /\ told \in [Hosts -> Seq(Activity)]
  BY DEF IInv, TypeOK, NoticesTypeOK, NoticesInv
<1>1. OthersKept /\ faults' \in Nat /\ (Flush(h) \/ SendBatch(h) \/ SendFails(h))
  BY DEF NoticeStep, NoticeFails, Fault, IInv, TypeOK
<1>2. UNCHANGED <<watcher, polling>>
  BY <1>1 DEF Flush, SendBatch, SendFails
<1>3. \A a : HasSettled(a)' <=> HasSettled(a)
  BY <1>1, <1>2 DEF HasSettled, OthersKept, endVars
<1>4. /\ notices' \in [Hosts -> Seq(Activity)] /\ flight' \in [Hosts -> Seq(Activity)]
      /\ told' \in [Hosts -> Seq(Activity)]
      /\ \A g \in Hosts : Queued(notices'[g]) /\ Queued(flight'[g]) /\ Queued(told'[g])
  <2>0. Queued(<<>>) /\ \A g \in Hosts : Queued(notices[g]) /\ Queued(flight[g]) /\ Queued(told[g])
    BY DEF QueueInv, Queued
  <2>1. CASE Flush(h)
    BY <2>0, <2>1 DEF Flush
  <2>2. CASE SendBatch(h)
    <3>1. BatchSize(h) \in 0 .. Len(flight[h])
      BY BatchBound
    <3>. DEFINE first == SubSeq(flight[h], 1, BatchSize(h))
                rest == SubSeq(flight[h], BatchSize(h) + 1, Len(flight[h]))
    <3>2. first \in Seq(Activity) /\ rest \in Seq(Activity) /\ Queued(first) /\ Queued(rest)
      BY <2>0, <3>1, QueuedParts
    <3>3. told' = [told EXCEPT ![h] = @ \o first] /\ flight' = [flight EXCEPT ![h] = rest] /\ notices' = notices
      BY <2>2 DEF SendBatch
    <3>4. 0 \in 0 .. Len(told[h])
      OBVIOUS
    <3>. HIDE DEF first, rest
    <3>5. told[h] \o first \in Seq(Activity) /\ Queued(told[h] \o first)
      BY <2>0, <3>2, <3>4, QueuedParts
    <3>. QED BY <2>0, <3>2, <3>3, <3>5
  <2>3. CASE SendFails(h)
    <3>1. 0 \in 0 .. Len(flight[h])
      OBVIOUS
    <3>2. flight[h] \o notices[h] \in Seq(Activity) /\ Queued(flight[h] \o notices[h])
      BY <2>0, <3>1, QueuedParts
    <3>. QED BY <2>0, <2>3, <3>2 DEF SendFails, Requeued
  <2>. QED BY <1>1, <2>1, <2>2, <2>3
<1>5. NoticesTypeOK'
  BY <1>2, <1>4 DEF NoticesTypeOK
<1>6. NoticesInv'
  BY <1>2, <1>3, <1>4 DEF NoticesInv, QueueInv, Queued
<1>. QED BY <1>1, <1>5, <1>6, NoticesKeep

LEMMA MonitorsKeep ==
  ASSUME IInv,
         \/ \E h \in Hosts, m \in Monitors : StartMonitor(h, m)
         \/ \E m \in Monitors : MonitorStep(m)
  PROVE  IInv'
<1>. /\ NoticesTypeOK /\ NoticesInv /\ \A g \in Hosts : QueueInv(g)
     /\ notices \in [Hosts -> Seq(Activity)] /\ flight \in [Hosts -> Seq(Activity)]
     /\ told \in [Hosts -> Seq(Activity)] /\ faults \in Nat
  BY DEF IInv, TypeOK, NoticesTypeOK, NoticesInv
<1>1. ASSUME NEW h \in Hosts, NEW m \in Monitors, StartMonitor(h, m) PROVE IInv'
  <2>1. /\ watcher[m] = NoHost /\ watcher' = [watcher EXCEPT ![m] = h] /\ polling' = polling \cup {m}
        /\ UNCHANGED queueVars /\ OthersKept /\ UNCHANGED faults
    BY <1>1 DEF StartMonitor, StartPolling
  <2>2. NoticesTypeOK'
    BY <2>1 DEF NoticesTypeOK, queueVars
  <2>3. ASSUME NEW a \in Activity, HasSettled(a) PROVE HasSettled(a)'
    BY <2>1, <2>3, MonitorsAssumption DEF HasSettled, OthersKept, endVars, NoticesTypeOK, Activity
  <2>4. NoticesInv'
    <3>1. \A n \in polling' : watcher'[n] # NoHost
      BY <2>1, MonitorsAssumption DEF NoticesInv, NoticesTypeOK
    <3>2. ASSUME NEW g \in Hosts PROVE QueueInv(g)'
      BY <2>1, <2>3 DEF QueueInv, Queued, queueVars
    <3>. QED BY <3>1, <3>2 DEF NoticesInv
  <2>. QED BY <2>1, <2>2, <2>4, NoticesKeep
<1>2. ASSUME NEW m \in Monitors, MonitorStep(m) PROVE IInv'
  <2>1. /\ m \in polling /\ polling' = polling \ {m} /\ UNCHANGED watcher /\ OthersKept /\ UNCHANGED faults
        /\ Enqueue(watcher[m], m) \/ UNCHANGED queueVars
    BY <1>2 DEF MonitorStep, PollingEnds, CancelPolling
  <2>2. \A a : HasSettled(a) => HasSettled(a)'
    BY <2>1 DEF HasSettled, OthersKept, endVars
  <2>3. m \notin Tasks /\ m \in Activity
    BY MonitorsAssumption DEF Activity
  <2>4. CASE Enqueue(watcher[m], m)
    <3>1. PICK h \in Hosts : h = watcher[m]
      BY <2>1 DEF NoticesInv, NoticesTypeOK
    <3>2. HasSettled(m)'
      BY <2>1, <2>3, <3>1, MonitorsAssumption DEF HasSettled
    <3>3. /\ notices' \in [Hosts -> Seq(Activity)] /\ flight' = flight /\ told' = told
          /\ NoticesInv'
      BY <2>1, <2>2, <2>3, <2>4, <3>1, <3>2, EnqueueKeeps
    <3>4. NoticesTypeOK'
      BY <2>1, <3>3 DEF NoticesTypeOK
    <3>. QED BY <2>1, <3>3, <3>4, NoticesKeep
  <2>5. CASE UNCHANGED queueVars
    <3>1. NoticesTypeOK'
      BY <2>1, <2>5 DEF NoticesTypeOK, queueVars
    <3>2. NoticesInv'
      BY <2>1, <2>2, <2>5 DEF NoticesInv, QueueInv, Queued, queueVars
    <3>. QED BY <2>1, <3>1, <3>2, NoticesKeep
  <2>. QED BY <2>1, <2>4, <2>5
<1>. QED BY <1>1, <1>2

-----------------------------------------------------------------------------
(* Theorems *)

LEMMA StepKeeps == IInv /\ [Next]_vars => IInv'
<1> SUFFICES ASSUME IInv, [Next]_vars PROVE IInv'
  OBVIOUS
<1>1. ASSUME NEW h \in Hosts, HostStep(h) PROVE IInv'
  <2>1. CASE StartHost(h) \/ Shutdown(h) \/ EndShutdown(h) \/ HostEnds(h)
    BY <2>1, StartKeeps, ShutdownKeeps, EndShutdownKeeps, HostEndsKeeps
  <2>2. CASE Prepare(h) \/ ScanStep(h)
    BY <2>2, PrepareKeeps, EndVisitKeeps, PreparedKeeps, VisitKeeps, TerminateKeeps, EscalateKeeps
    DEF ScanStep
  <2>3. CASE NoticeStep(h) \/ NoticeFails(h)
    BY <2>3, DeliveryKeeps
  <2>4. CASE \E t \in Tasks : \E b \in BOOLEAN : Spawn(h, t, b)
    BY <2>4, SpawnKeeps
  <2>5. CASE \E m \in Monitors : StartMonitor(h, m)
    BY <2>5, MonitorsKeep
  <2>. QED BY <1>1, <2>1, <2>2, <2>3, <2>4, <2>5 DEF HostStep
<1>2. ASSUME NEW t \in Tasks, ActivityStep(t) PROVE IInv'
  <2>1. CASE LaunchStep(t)
    BY <2>1, AbandonKeeps, RegisterKeeps, StartupKeeps, AuthorizeKeeps, EndRollbackKeeps,
       AcknowledgeKeeps, AcknowledgeFailsKeeps DEF LaunchStep
  <2>2. CASE EndStep(t) \/ Detach(t)
    BY <2>2, HearKeeps, SupervisorExitsKeeps, StopGraceKeeps, DetachKeeps DEF EndStep
  <2>3. CASE \E reason \in {"request", "timeout"} : Stop(t, reason)
    BY <2>3, StopKeeps
  <2>. QED BY <1>2, <2>1, <2>2, <2>3 DEF ActivityStep
<1>3. ASSUME NEW t \in Tasks, ProcessStep(t) \/ SystemStep(t) PROVE IInv'
  BY <1>3, ProcessKeeps
<1>4. ASSUME NEW m \in Monitors, MonitorStep(m) PROVE IInv'
  BY <1>4, MonitorsKeep
<1>5. CASE UNCHANGED vars
  <2>. USE <1>5 DEF vars, processVars, callVars, endVars, diskVars, files
  <2>1. TypeOK'
    BY DEF IInv, TypeOK, ProcessTypeOK, NoticesTypeOK, noticeVars, queueVars
  <2>2. ASSUME NEW u \in Tasks PROVE TaskInv(u)'
    BY DEF IInv, TaskInv, Begun, Unauthorized, Concluded, Kept, Identified, Parent, AtWork, Registered,
       Recorded, EndedUnheard, Working, Open
  <2>3. ASSUME NEW h \in Hosts PROVE HostInv(h)'
    BY SignalsKeepHosts DEF Identified
  <2>4. NoticesInv'
    BY QueuesKept
  <2>. QED BY <2>1, <2>2, <2>3, <2>4 DEF IInv
<1>. QED BY <1>1, <1>2, <1>3, <1>4, <1>5 DEF Next

\* The inductive invariant holds in every state.
THEOREM Invariance == Spec => []IInv
<1>. QED BY Initially, StepKeeps, PTL DEF Spec

\* Processes, launches, records, scans and queues have their types in every state.
THEOREM TypeCorrect == Spec => []TypeOK
<1>1. IInv => TypeOK
  BY DEF IInv
<1>. QED BY Invariance, <1>1, PTL

\* A command that runs stands in the recovery record of the Host that launched
\* it, or its supervisor was gone before its start was heard; a launch that is
\* rolled back has run nothing (shell-activity.ts, runtime.ts, storage.ts).
THEOREM NothingUnrecordedAlways == Spec => []NothingUnrecorded
<1>1. IInv => NothingUnrecorded
  BY DEF IInv, TaskInv, Kept, Concluded, AtWork, NothingUnrecorded
<1>. QED BY Invariance, <1>1, PTL

\* Nothing but a scan aims at a process, and meanwhile no Host starts or ends.
LEMMA ScansAlone ==
  ASSUME IInv, Next, NEW h \in Hosts, scan'[h].at # scan[h].at, scan'[h].at # NoTask
  PROVE  by' = by /\ host' = host
<1>. scan \in [Hosts -> Scan]
  BY DEF IInv, TypeOK
<1>1. ASSUME NEW g \in Hosts, HostStep(g) PROVE by' = by /\ host' = host
  <2>1. CASE StartHost(g) \/ Shutdown(g) \/ EndShutdown(g)
    BY <2>1 DEF StartHost, Shutdown, EndShutdown
  <2>2. CASE HostEnds(g)
    <3>1. scan' = [scan EXCEPT ![g] = Unprepared]
      BY <2>2 DEF HostEnds
    <3>. QED BY <3>1 DEF Unprepared
  <2>3. CASE Prepare(g) \/ ScanStep(g)
    BY <2>3 DEF Prepare, ScanStep, EndVisit, Prepared, Visit, Terminate, Escalate, callVars
  <2>4. CASE NoticeStep(g) \/ NoticeFails(g)
    BY <2>4 DEF NoticeStep, NoticeFails, OthersKept
  <2>5. CASE \E t \in Tasks : \E b \in BOOLEAN : Spawn(g, t, b)
    BY <2>5 DEF Spawn
  <2>6. CASE \E m \in Monitors : StartMonitor(g, m)
    BY <2>6 DEF StartMonitor, OthersKept
  <2>. QED BY <1>1, <2>1, <2>2, <2>3, <2>4, <2>5, <2>6 DEF HostStep
<1>2. ASSUME NEW t \in Tasks, ActivityStep(t) PROVE scan' = scan
  BY <1>2 DEF ActivityStep, LaunchStep, EndStep, Abandon, Register, StartupFails, Authorize, EndRollback,
     Acknowledge, AcknowledgeFails, Hear, SupervisorExits, StopGrace, Detach, Stop
<1>3. ASSUME NEW t \in Tasks, ProcessStep(t) \/ SystemStep(t) PROVE scan' = scan
  BY <1>3 DEF ProcessStep, SystemStep, HostsKept
<1>4. ASSUME NEW m \in Monitors, MonitorStep(m) PROVE scan' = scan
  BY <1>4 DEF MonitorStep, OthersKept
<1>. QED BY <1>1, <1>2, <1>3, <1>4 DEF Next

\* Recovery hurts no unrelated process and no activity of a Host that runs
\* (storage.ts reconcileStaleRuns, process.ts terminateVerifiedProcessGroup).
THEOREM OthersAlwaysSpared == Spec => OthersSpared
<1>. DEFINE Spared == \A t \in Tasks :
       /\ other'[t] # "hurt"
       /\ \A h \in Hosts : (scan[h].at # t /\ scan'[h].at = t) => ~Parent(t)
<1>1. ASSUME IInv, IInv', Next PROVE Spared
  <2>1. ASSUME NEW t \in Tasks PROVE other'[t] # "hurt"
    BY <1>1 DEF IInv, TaskInv
  <2>2. ASSUME NEW t \in Tasks, NEW h \in Hosts, scan[h].at # t, scan'[h].at = t PROVE ~Parent(t)
    <3>1. HostInv(h)'
      BY <1>1 DEF IInv
    <3>2. /\ scan'[h].dir # NoHost /\ t \in scan'[h].ids
          /\ host'[scan'[h].dir] = "down" /\ by'[t] = scan'[h].dir
      BY <2>2, <3>1, NamesAssumption DEF HostInv, Visiting
    <3>3. by' = by /\ host' = host
      BY <1>1, <2>2, ScansAlone, NamesAssumption
    <3>. QED BY <3>2, <3>3 DEF Parent, Working, Open
  <2>. QED BY <2>1, <2>2
<1>2. IInv /\ IInv' /\ [Next]_vars => [Spared]_vars
  BY <1>1
<1>. QED BY Invariance, <1>2, PTL DEF Spec, OthersSpared

-----------------------------------------------------------------------------
(* Outcomes in their order *)

\* What one Host has not told, as the abstract queue sees it.
Untold(h) == flight[h] \o notices[h]

Waiting == [h \in Hosts |-> Untold(h)]

LEMMA UntoldTypes ==
  ASSUME IInv, NEW h \in Hosts
  PROVE  /\ notices[h] \in Seq(Activity) /\ flight[h] \in Seq(Activity)
         /\ told[h] \in Seq(Activity) /\ Untold(h) \in Seq(Activity)
BY DEF IInv, TypeOK, NoticesTypeOK, Untold

\* What is added behind two lists is added behind the second.
LEMMA AppendBehind ==
  ASSUME NEW S, NEW s \in Seq(S), NEW r \in Seq(S), NEW a \in S
  PROVE  s \o Append(r, a) = Append(s \o r, a)
<1>1. <<a>> \in Seq(S) /\ s \o r \in Seq(S)
  OBVIOUS
<1>2. Append(r, a) = r \o <<a>> /\ Append(s \o r, a) = (s \o r) \o <<a>>
  BY <1>1, AppendIsConcat
<1>3. (s \o r) \o <<a>> = s \o (r \o <<a>>)
  BY <1>1, ConcatAssociative
<1>. QED BY <1>2, <1>3

\* Some of the first of two lists are the oldest of both.
LEMMA BatchOfBoth ==
  ASSUME NEW S, NEW s \in Seq(S), NEW r \in Seq(S), NEW n \in 1 .. Len(s)
  PROVE  /\ n \in 1 .. Len(s \o r)
         /\ SubSeq(s \o r, 1, n) = SubSeq(s, 1, n)
         /\ SubSeq(s \o r, n + 1, Len(s \o r)) = SubSeq(s, n + 1, Len(s)) \o r
<1>1. n \in 1 .. Len(s \o r) /\ Len(s \o r) = Len(s) + Len(r)
  BY ConcatProperties
<1>2. SubSeq(s \o r, 1, n) = SubSeq(s, 1, n)
  BY SubSeqOfConcat1
<1>. DEFINE p == SubSeq(s, 1, n)  q == SubSeq(s, n + 1, Len(s))
<1>3. p \in Seq(S) /\ q \in Seq(S) /\ Len(p) = n /\ Len(q) = Len(s) - n
  OBVIOUS
<1>4. s = p \o q
  BY ConcatAdjacentSubSeq, SubSeqFull
<1>. HIDE DEF p, q
<1>5. q \o r \in Seq(S) /\ Len(q \o r) = Len(s) - n + Len(r)
  BY <1>3, ConcatProperties
<1>6. s \o r = p \o (q \o r)
  BY <1>3, <1>4, ConcatAssociative
<1>7. SubSeq(s \o r, n + 1, Len(s \o r)) = q \o r
  <2>1. CASE q \o r = <<>>
    <3>1. Len(s \o r) < n + 1
      BY <1>1, <1>5, <2>1
    <3>. QED BY <1>1, <2>1, <3>1, SubSeqEmpty
  <2>2. CASE q \o r # <<>>
    <3>1. Len(q \o r) \in Nat \ {0}
      BY <1>5, <2>2, EmptySeq
    <3>2. /\ Len(s \o r) = Len(p) + Len(q \o r) /\ n + 1 = Len(p) + 1
          /\ n + 1 \in Len(p) + 1 .. Len(p) + Len(q \o r)
          /\ Len(s \o r) \in Len(p) + 1 .. Len(p) + Len(q \o r)
      BY <1>1, <1>3, <1>5, <3>1
    <3>3. SubSeq(p \o (q \o r), n + 1, Len(s \o r)) = SubSeq(q \o r, n + 1 - Len(p), Len(s \o r) - Len(p))
      <4>1. \A m, k \in Len(p) + 1 .. Len(p) + Len(q \o r) :
              SubSeq(p \o (q \o r), m, k) = SubSeq(q \o r, m - Len(p), k - Len(p))
        BY <1>3, <1>5, SubSeqOfConcat2
      <4>. QED BY <3>2, <4>1
    <3>4. n + 1 - Len(p) = 1 /\ Len(s \o r) - Len(p) = Len(q \o r)
      BY <1>3, <3>1, <3>2
    <3>. QED BY <1>5, <1>6, <3>3, <3>4, SubSeqFull
  <2>. QED BY <2>1, <2>2
<1>. QED BY <1>1, <1>2, <1>7 DEF q

\* An outcome that settles now is in no list yet.
LEMMA FreshIsUnknown ==
  ASSUME IInv, NEW h \in Hosts, NEW a \in Activity, ~HasSettled(a)
  PROVE  a \notin Queue!Elements(Waiting[h]) \cup Queue!Elements(told[h])
<1>1. \A i \in DOMAIN told[h] : told[h][i] # a
  BY DEF IInv, NoticesInv, QueueInv, Queued
<1>2. \A i \in DOMAIN Untold(h) : Untold(h)[i] # a
  <2>1. Queued(flight[h]) /\ Queued(notices[h])
    BY DEF IInv, NoticesInv, QueueInv
  <2>2. flight[h] \in Seq(Activity) /\ notices[h] \in Seq(Activity) /\ 0 \in 0 .. Len(flight[h])
    BY UntoldTypes
  <2>3. Queued(flight[h] \o notices[h])
    BY <2>1, <2>2, QueuedParts
  <2>. QED BY <2>3 DEF Queued, Untold
<1>. QED BY <1>1, <1>2 DEF Queue!Elements, Waiting

\* The outcome of an activity that settles is announced behind all others.
LEMMA EnqueueSettles ==
  ASSUME IInv, NEW h \in Hosts, NEW a \in Activity, ~HasSettled(a), Enqueue(h, a)
  PROVE  Queue!Settled(h, a)
<1>1. /\ notices' = [notices EXCEPT ![h] = Append(@, a)] /\ flight' = flight /\ told' = told
  BY DEF Enqueue
<1>2. flight[h] \o Append(notices[h], a) = Append(flight[h] \o notices[h], a)
  <2>1. flight[h] \in Seq(Activity) /\ notices[h] \in Seq(Activity)
    BY UntoldTypes
  <2>2. \A s, r \in Seq(Activity), b \in Activity : s \o Append(r, b) = Append(s \o r, b)
    BY AppendBehind
  <2>. QED BY <2>1, <2>2
<1>3. Waiting' = [Waiting EXCEPT ![h] = Append(@, a)]
  BY <1>1, <1>2 DEF Waiting, Untold, IInv, TypeOK, NoticesTypeOK
<1>. QED BY <1>1, <1>3, FreshIsUnknown DEF Queue!Settled, Waiting, Untold

LEMMA BatchIsTold ==
  ASSUME IInv, NEW h \in Hosts, SendBatch(h)
  PROVE  \E n \in 1 .. Len(Waiting[h]) : Queue!Tell(h, n)
<1>. DEFINE n == BatchSize(h)
<1>1. n \in 1 .. Len(flight[h])
  BY BatchBound DEF SendBatch, IInv, TypeOK
<1>. HIDE DEF n
<1>2. /\ SubSeq(flight[h] \o notices[h], 1, n) = SubSeq(flight[h], 1, n)
      /\ SubSeq(flight[h] \o notices[h], n + 1, Len(flight[h] \o notices[h]))
           = SubSeq(flight[h], n + 1, Len(flight[h])) \o notices[h]
      /\ n \in 1 .. Len(flight[h] \o notices[h])
  BY <1>1, UntoldTypes, BatchOfBoth
<1>3. /\ told' = [told EXCEPT ![h] = @ \o SubSeq(flight[h], 1, n)]
      /\ flight' = [flight EXCEPT ![h] = SubSeq(@, n + 1, Len(@))]
      /\ notices' = notices
  BY DEF SendBatch, n
<1>4. /\ Waiting[h] = flight[h] \o notices[h]
      /\ Waiting' = [Waiting EXCEPT ![h] = SubSeq(@, n + 1, Len(@))]
  BY <1>2, <1>3 DEF Waiting, Untold, IInv, TypeOK, NoticesTypeOK
<1>. QED BY <1>2, <1>3, <1>4 DEF Queue!Tell, Waiting, Untold

LEMMA DropDrops ==
  ASSUME IInv, NEW h \in Hosts, DropNotices(h)
  PROVE  Queue!Drop(h)
<1>1. /\ notices' = [notices EXCEPT ![h] = <<>>] /\ flight' = [flight EXCEPT ![h] = <<>>] /\ told' = told
  BY DEF DropNotices
<1>2. Waiting' = [Waiting EXCEPT ![h] = <<>>]
  <2>1. <<>> \o <<>> = <<>>
    BY ConcatEmptySeq, EmptySeq
  <2>. QED BY <1>1, <2>1 DEF Waiting, Untold, IInv, TypeOK, NoticesTypeOK
<1>. QED BY <1>1, <1>2 DEF Queue!Drop, Waiting, Untold

\* Taking the list, and putting back what failed, change nothing to the Agent.
LEMMA FlightIsQuiet ==
  ASSUME IInv, NEW h \in Hosts, Flush(h) \/ SendFails(h)
  PROVE  Waiting' = Waiting /\ told' = told
<1>1. CASE Flush(h)
  <2>1. <<>> \o notices[h] = notices[h] \o <<>>
    BY UntoldTypes
  <2>. QED BY <1>1, <2>1 DEF Flush, Waiting, Untold, IInv, TypeOK, NoticesTypeOK
<1>2. CASE SendFails(h)
  <2>1. <<>> \o (flight[h] \o notices[h]) = flight[h] \o notices[h]
    BY UntoldTypes
  <2>. QED BY <1>2, <2>1 DEF SendFails, Requeued, Waiting, Untold, IInv, TypeOK, NoticesTypeOK
<1>. QED BY <1>1, <1>2

\* Each step settles one outcome, tells some of the oldest, drops those of a
\* Session that ends, or is none that the Agent could see.
LEMMA StepInOrder ==
  ASSUME IInv, Next
  PROVE  Queue!Next \/ (Waiting' = Waiting /\ told' = told)
<1>1. ASSUME NEW h \in Hosts, HostStep(h) PROVE Queue!Next \/ (Waiting' = Waiting /\ told' = told)
  <2>1. CASE Shutdown(h) \/ HostEnds(h)
    BY <2>1, DropDrops DEF Shutdown, HostEnds, Queue!Next
  <2>2. CASE NoticeStep(h) \/ NoticeFails(h)
    <3>1. Flush(h) \/ SendBatch(h) \/ SendFails(h)
      BY <2>2 DEF NoticeStep, NoticeFails
    <3>2. CASE Flush(h) \/ SendFails(h)
      BY <3>2, FlightIsQuiet
    <3>3. CASE SendBatch(h)
      BY <3>3, BatchIsTold DEF Queue!Next, Waiting, Untold
    <3>. QED BY <3>1, <3>2, <3>3
  <2>3. CASE StartHost(h) \/ EndShutdown(h) \/ Prepare(h) \/ ScanStep(h)
    BY <2>3 DEF StartHost, EndShutdown, Prepare, ScanStep, EndVisit, Prepared, Visit, Terminate, Escalate,
       noticeVars, queueVars, Waiting, Untold
  <2>4. CASE \E t \in Tasks : \E b \in BOOLEAN : Spawn(h, t, b)
    BY <2>4 DEF Spawn, noticeVars, queueVars, Waiting, Untold
  <2>5. CASE \E m \in Monitors : StartMonitor(h, m)
    BY <2>5 DEF StartMonitor, StartPolling, queueVars, Waiting, Untold
  <2>. QED BY <1>1, <2>1, <2>2, <2>3, <2>4, <2>5 DEF HostStep
<1>2. ASSUME NEW t \in Tasks, ActivityStep(t) PROVE Queue!Next \/ (Waiting' = Waiting /\ told' = told)
  <2>1. CASE LaunchStep(t) \/ Hear(t) \/ Detach(t) \/ \E reason \in {"request", "timeout"} : Stop(t, reason)
    BY <2>1 DEF LaunchStep, Abandon, Register, StartupFails, Authorize, EndRollback, Acknowledge,
       AcknowledgeFails, Hear, Detach, Stop, noticeVars, queueVars, Waiting, Untold
  <2>2. CASE SupervisorExits(t) \/ StopGrace(t)
    <3>1. /\ by[t] \in Hosts /\ Registered(t)
          /\ UNCHANGED queueVars \/ Enqueue(by[t], t)
      BY <2>2 DEF SupervisorExits, StopGrace, Finalize, Complete, Retain, InScope, Parent, noticeVars, IInv, TypeOK
    <3>2. t \in Activity /\ ~HasSettled(t)
      BY <3>1 DEF Activity, HasSettled, Registered
    <3>3. CASE UNCHANGED queueVars
      BY <3>3 DEF queueVars, Waiting, Untold
    <3>4. CASE Enqueue(by[t], t)
      BY <3>1, <3>2, <3>4, EnqueueSettles DEF Queue!Next
    <3>. QED BY <3>1, <3>3, <3>4
  <2>. QED BY <1>2, <2>1, <2>2 DEF ActivityStep, EndStep
<1>3. ASSUME NEW t \in Tasks, ProcessStep(t) \/ SystemStep(t) PROVE Waiting' = Waiting /\ told' = told
  BY <1>3 DEF ProcessStep, SystemStep, HostsKept, noticeVars, queueVars, Waiting, Untold
<1>4. ASSUME NEW m \in Monitors, MonitorStep(m) PROVE Queue!Next \/ (Waiting' = Waiting /\ told' = told)
  <2>1. /\ m \in polling /\ watcher[m] \in Hosts
        /\ UNCHANGED queueVars \/ Enqueue(watcher[m], m)
    BY <1>4 DEF MonitorStep, PollingEnds, CancelPolling, IInv, TypeOK, NoticesTypeOK, NoticesInv
  <2>2. m \in Activity /\ ~HasSettled(m)
    BY <2>1, MonitorsAssumption DEF Activity, HasSettled
  <2>3. CASE UNCHANGED queueVars
    BY <2>3 DEF queueVars, Waiting, Untold
  <2>4. CASE Enqueue(watcher[m], m)
    BY <2>1, <2>2, <2>4, EnqueueSettles DEF Queue!Next
  <2>. QED BY <2>1, <2>3, <2>4
<1>. QED BY <1>1, <1>2, <1>3, <1>4 DEF Next

\* Outcomes are told in the order in which they settled, each at most once and
\* none passed over, whatever fails or settles meanwhile (runtime.ts
\* flushNotifications).
THEOREM OutcomesInOrder == Spec => ToldInOrder
<1>1. Init => Queue!Init
  BY DEF Init, NoticesInit, Queue!Init
<1>2. IInv /\ [Next]_vars => [Queue!Next]_<<Waiting, told>>
  BY StepInOrder DEF vars, noticeVars, queueVars, Waiting, Untold
<1>. QED BY <1>1, <1>2, Invariance, PTL DEF Spec, ToldInOrder, Queue!Spec, Waiting, Untold
=============================================================================
