---------------------------- MODULE SessionLease ----------------------------
(***************************************************************************)
(* The revival lease of one Agent session file (runs/shared/               *)
(* session-lease.ts) and the detached runners that compete for it          *)
(* (runs/background/subagent-runner.ts).  A runner that holds the lease    *)
(* starts one writer process group behind a startup gate                   *)
(* (child-process-engine.ts), recorded in the registry of its run          *)
(* (writer-process-registry.ts) and in the lease.                          *)
(*                                                                         *)
(* The lease is a directory holding owner.json.  rename(2) puts a complete *)
(* candidate directory in its place unless a non-empty one is there.  Each *)
(* system call is one action: nothing but the file system orders runners.  *)
(***************************************************************************)
EXTENDS Naturals, FiniteSets

CONSTANTS
  Runners,  \* revival runs of the session file; also their lease tokens
  NoOwner   \* there is no owner.json

WriterState == {"none", "spawning", "running"}
Owner == [token : Runners, writer : WriterState]

ASSUME NoOwnerAssumption == NoOwner \notin Owner

MaxAttempts == 4

VARIABLES
  leaseDir,    \* the lease directory exists
  owner,       \* its owner.json
  tombstones,  \* tokens whose tombstone directory holds an owner.json
  phase,       \* where each runner is
  attempt,     \* its attempts to acquire the lease
  seen,        \* the owner it found
  target,      \* the writer state it is recording
  alive,       \* its process
  registry,    \* the writer in its registry
  group        \* its writer's process group

files == <<leaseDir, owner, tombstones>>
runners == <<attempt, seen, target>>
processes == <<alive, registry, group>>
leaseVars == <<files, phase, runners, processes>>

\* "gated" waits for the runner's proceed; "orphaned" lost its leader while
\* members of the group still write.
GroupState == {"none", "gated", "working", "orphaned", "gone"}
Ended == {"exited", "crashed", "refused"}
Phase == {"idle", "create", "read", "judge", "inspect", "move", "held",
          "publish", "verify", "record", "launch", "open", "wait", "finish",
          "release", "unlink", "rmdir", "exit"} \cup Ended

LeaseTypeOK ==
  /\ leaseDir \in BOOLEAN /\ owner \in Owner \cup {NoOwner}
  /\ tombstones \subseteq Runners
  /\ phase \in [Runners -> Phase]
  /\ attempt \in [Runners -> 0 .. MaxAttempts]
  /\ seen \in [Runners -> Owner \cup {NoOwner}]
  /\ target \in [Runners -> WriterState]
  /\ alive \in [Runners -> BOOLEAN]
  /\ registry \in [Runners -> WriterState]
  /\ group \in [Runners -> GroupState]

LeaseInit ==
  /\ leaseDir = FALSE /\ owner = NoOwner /\ tombstones = {}
  /\ phase = [r \in Runners |-> "idle"]
  /\ attempt = [r \in Runners |-> 0]
  /\ seen = [r \in Runners |-> NoOwner]
  /\ target = [r \in Runners |-> "none"]
  /\ alive = [r \in Runners |-> TRUE]
  /\ registry = [r \in Runners |-> "none"]
  /\ group = [r \in Runners |-> "none"]

Proceed(r, to) == phase' = [phase EXCEPT ![r] = to]

Writes(r) == group[r] \in {"working", "orphaned"}

\* A plausible slip, for the mutation runs: the writer is judged by its leader alone.
WritersAbsent_LeaderOnly(r) ==
  registry[r] = "running" => group[r] \notin {"gated", "working"}

\* inspectWriterProcessLiveness = false.  A spawning writer waits for a
\* proceed that only its runner gives.
WritersAbsent(r) == registry[r] = "running" => group[r] \in {"none", "gone"}

-----------------------------------------------------------------------------
(* acquireSessionLease *)

\* initializeWriterProcessRegistry comes first.
StartRunner(r) ==
  /\ phase[r] = "idle"
  /\ registry' = [registry EXCEPT ![r] = "none"]
  /\ Proceed(r, "create")
  /\ UNCHANGED <<files, runners, alive, group>>

\* A plausible slip, for the mutation runs: any existing directory refuses the candidate.
Vacant_NoDirectory == ~leaseDir

Vacant == owner = NoOwner

\* createLeaseDirectory
Create(r) ==
  /\ phase[r] = "create"
  /\ IF Vacant
     THEN /\ leaseDir' = TRUE
          /\ owner' = [token |-> r, writer |-> "none"]
          /\ Proceed(r, "held")
     ELSE Proceed(r, "read") /\ UNCHANGED <<leaseDir, owner>>
  /\ UNCHANGED <<tombstones, runners, processes>>

\* An owner that cannot be read is never reclaimed.
ReadOwner(r) ==
  /\ phase[r] = "read"
  /\ seen' = [seen EXCEPT ![r] = owner]
  /\ Proceed(r, IF owner = NoOwner THEN "refused" ELSE "judge")
  /\ UNCHANGED <<files, attempt, target, processes>>

\* demonstrablyStale: first the owner's process ...
JudgeRunner(r) ==
  /\ phase[r] = "judge"
  /\ Proceed(r, IF alive[seen[r].token] THEN "refused" ELSE "inspect")
  /\ UNCHANGED <<files, runners, processes>>

\* ... then its writers.
JudgeWriters(r) ==
  LET o == seen[r] IN
  /\ phase[r] = "inspect"
  /\ Proceed(r, IF /\ WritersAbsent(o.token)
                   /\ o.writer = "running" => group[o.token] \notin {"gated", "working"}
                THEN "move" ELSE "refused")
  /\ UNCHANGED <<files, runners, processes>>

\* The stale lease is renamed to the tombstone of the token that was read;
\* an occupied tombstone or a missing lease starts the next attempt.
MoveAside(r) ==
  LET t == seen[r].token IN
  /\ phase[r] = "move"
  /\ IF leaseDir /\ t \notin tombstones
     THEN /\ leaseDir' = FALSE /\ owner' = NoOwner
          /\ tombstones' = IF owner = NoOwner THEN tombstones ELSE tombstones \cup {t}
     ELSE UNCHANGED files
  /\ attempt' = [attempt EXCEPT ![r] = @ + 1]
  /\ Proceed(r, IF attempt[r] + 1 < MaxAttempts THEN "create" ELSE "refused")
  /\ UNCHANGED <<seen, target, processes>>

-----------------------------------------------------------------------------
(* The lease is held: the writer and its records *)

Update(r, state) ==
  /\ target' = [target EXCEPT ![r] = state]
  /\ Proceed(r, "publish")

\* The handshake with the launcher succeeds or fails.
BeginWork(r) ==
  /\ phase[r] = "held"
  /\ \/ Update(r, "spawning")
     \/ Proceed(r, "finish") /\ UNCHANGED target
  /\ UNCHANGED <<files, attempt, seen, processes>>

\* updateWriterProcessRegistry precedes the lease.
Publish(r) ==
  /\ phase[r] = "publish"
  /\ registry' = [registry EXCEPT ![r] = target[r]]
  /\ Proceed(r, "verify")
  /\ UNCHANGED <<files, runners, alive, group>>

\* updateWriter reads the token.  A lease lost before the spawn rolls the
\* launch back; one lost before the gate opens leaves the gate shut.
Verify(r) ==
  /\ phase[r] = "verify"
  /\ IF owner # NoOwner /\ owner.token = r
     THEN Proceed(r, "record") /\ UNCHANGED target
     ELSE CASE target[r] = "spawning" -> Update(r, "none")
            [] target[r] = "running" -> Proceed(r, "wait") /\ UNCHANGED target
            [] target[r] = "none" -> Proceed(r, "finish") /\ UNCHANGED target
  /\ UNCHANGED <<files, attempt, seen, processes>>

NextAfter(state) ==
  CASE state = "spawning" -> "launch"
    [] state = "running" -> "open"
    [] state = "none" -> "finish"

\* updateWriter writes owner.json, creating the directory if it is not there.
WriteOwner(r) ==
  /\ phase[r] = "record"
  /\ leaseDir' = TRUE
  /\ owner' = [token |-> r, writer |-> target[r]]
  /\ Proceed(r, NextAfter(target[r]))
  /\ UNCHANGED <<tombstones, runners, processes>>

\* spawnWriter and captureWriterIdentity, or their rollback.
Launch(r) ==
  /\ phase[r] = "launch"
  /\ \/ Update(r, "running") /\ group' = [group EXCEPT ![r] = "gated"]
     \/ Update(r, "none") /\ UNCHANGED group
  /\ UNCHANGED <<files, attempt, seen, alive, registry>>

OpenGate(r) ==
  /\ phase[r] = "open"
  /\ group' = [group EXCEPT ![r] = IF @ = "gated" THEN "working" ELSE @]
  /\ Proceed(r, "wait")
  /\ UNCHANGED <<files, runners, alive, registry>>

\* A plausible slip, for the mutation runs: the record is cleared although members survive.
RecoverGroup_Clears(r) ==
  /\ phase[r] = "wait" /\ group[r] \notin {"gated", "working"}
  /\ Update(r, "none")
  /\ group' = [group EXCEPT ![r] = IF @ = "orphaned" THEN @ ELSE "gone"]
  /\ UNCHANGED <<files, attempt, seen, alive, registry>>

\* recoverWriterGroup, once the supervisor closed: the group is gone or is
\* killed, or it survives and stays recorded.
RecoverGroup(r) ==
  /\ phase[r] = "wait" /\ group[r] \notin {"gated", "working"}
  /\ \/ Update(r, "none") /\ group' = [group EXCEPT ![r] = "gone"]
     \/ group[r] = "orphaned" /\ Proceed(r, "finish") /\ UNCHANGED <<target, group>>
  /\ UNCHANGED <<files, attempt, seen, alive, registry>>

-----------------------------------------------------------------------------
(* release, and the end of the runner *)

\* A plausible slip, for the mutation runs: the lease is released whatever the registry says.
MayRelease_Always(r) == TRUE

MayRelease(r) == WritersAbsent(r)

Finish(r) ==
  /\ phase[r] = "finish"
  /\ Proceed(r, IF MayRelease(r) THEN "release" ELSE "exit")
  /\ UNCHANGED <<files, runners, processes>>

ReleaseRead(r) ==
  /\ phase[r] = "release"
  /\ Proceed(r, IF owner # NoOwner /\ owner.token = r THEN "unlink" ELSE "exit")
  /\ UNCHANGED <<files, runners, processes>>

\* The recursive removal empties the directory, then removes it if it is
\* still empty.
Unlink(r) ==
  /\ phase[r] = "unlink"
  /\ owner' = NoOwner
  /\ Proceed(r, "rmdir")
  /\ UNCHANGED <<leaseDir, tombstones, runners, processes>>

RemoveDirectory(r) ==
  /\ phase[r] = "rmdir"
  /\ leaseDir' = (owner # NoOwner)
  /\ Proceed(r, "exit")
  /\ UNCHANGED <<owner, tombstones, runners, processes>>

Exit(r) ==
  /\ phase[r] = "exit"
  /\ alive' = [alive EXCEPT ![r] = FALSE]
  /\ Proceed(r, "exited")
  /\ UNCHANGED <<files, runners, registry, group>>

CrashRunner(r) ==
  /\ phase[r] \notin Ended \cup {"idle"}
  /\ alive' = [alive EXCEPT ![r] = FALSE]
  /\ Proceed(r, "crashed")
  /\ UNCHANGED <<files, runners, registry, group>>

\* The supervisor ends with its group, or before it.
GroupEnds(r) ==
  /\ \/ group[r] \in {"gated", "working", "orphaned"}
        /\ group' = [group EXCEPT ![r] = "gone"]
     \/ group[r] = "working" /\ group' = [group EXCEPT ![r] = "orphaned"]
  /\ UNCHANGED <<files, phase, runners, alive, registry>>

\* terminateOrphanWriterProcesses, by a Host that found the runner dead; the
\* signals it sends end the group.
SweepOrphan(r) ==
  /\ ~alive[r] /\ registry[r] # "none" /\ WritersAbsent(r)
  /\ registry' = [registry EXCEPT ![r] = "none"]
  /\ UNCHANGED <<files, phase, runners, alive, group>>

-----------------------------------------------------------------------------
RunnerStep(r) ==
  \/ Create(r) \/ ReadOwner(r) \/ JudgeRunner(r) \/ JudgeWriters(r)
  \/ MoveAside(r) \/ BeginWork(r) \/ Publish(r) \/ Verify(r) \/ WriteOwner(r)
  \/ Launch(r) \/ OpenGate(r) \/ RecoverGroup(r) \/ Finish(r)
  \/ ReleaseRead(r) \/ Unlink(r) \/ RemoveDirectory(r) \/ Exit(r)

LeaseNext ==
  \E r \in Runners :
    StartRunner(r) \/ RunnerStep(r) \/ CrashRunner(r) \/ GroupEnds(r) \/ SweepOrphan(r)

LeaseSpec == LeaseInit /\ [][LeaseNext]_leaseVars

\* A live runner takes its steps; whether it starts, crashes or its writer
\* ends is left open.
FairLeaseSpec == LeaseSpec /\ \A r \in Runners : WF_leaseVars(RunnerStep(r))

-----------------------------------------------------------------------------
(* Of the contenders that judged the same lease stale only the first moves *)
(* it, and none moves a successor's (session-lease.ts:363-365): two runs   *)
(* never write to the session file at the same time.  Three runners refute *)
(* it: the tombstone protects a successor from those that read an owner    *)
(* which was moved aside, and from none that read one which released.      *)
OneWriter == \A r, s \in Runners : Writes(r) /\ Writes(s) => r = s

(* A writer works only while the registry of its run records it, so that   *)
(* whoever finds the runner dead also finds the writer.                    *)
WorkIsRecorded == \A r \in Runners : Writes(r) => registry[r] = "running"

(* A runner gives up its lease only after the last process of its writer's *)
(* group, also when the supervisor that led the group ended before it.     *)
ReleaseIsQuiet == [][\A r \in Runners : Unlink(r) => ~Writes(r)]_leaseVars

(* A lease is moved aside only when the runner that was read from it is    *)
(* dead and nothing of its writer's process group is left.                 *)
TakeoverIsProved ==
  [][\A r \in Runners :
       MoveAside(r) =>
         ~alive[seen[r].token] /\ ~Writes(seen[r].token)]_leaseVars

(* Whatever the other runners left when they ended, also in the middle of  *)
(* a release, a new runner gets the lease once their writers are gone.     *)
Abandoned(r) ==
  /\ phase[r] = "create" /\ attempt[r] = 0
  /\ \A s \in Runners \ {r} :
       phase[s] \in Ended \cup {"idle"} /\ group[s] \in {"none", "gone"}

AbandonedLeaseIsTaken ==
  \A r \in Runners :
    Abandoned(r) ~> \/ phase[r] = "held" \/ ~alive[r]
                    \/ \E s \in Runners \ {r} : phase[s] = "create"
=============================================================================
