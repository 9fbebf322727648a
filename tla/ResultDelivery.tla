--------------------------- MODULE ResultDelivery ---------------------------
(***************************************************************************)
(* The result file of one background run, on its way into the Session it   *)
(* belongs to: ResultProcessor (result-processing.ts), ResultWatcher       *)
(* (result-watcher.ts), the delivery record (completion-dedupe.ts) and the *)
(* part of RootSessionRuntime that starts and stops them.                  *)
(*                                                                         *)
(* Several Hosts share the results directory; a kernel claim admits one.   *)
(* Every await of handleResult separates two actions.  When a Session is   *)
(* left the attempt is interrupted, but an operation it handed to the file *)
(* system still ends (late).  A version of the file stands for its inode   *)
(* and its content.                                                        *)
(***************************************************************************)
EXTENDS CompletionNotifier

CONSTANTS
  MaxVersions, \* bound: writes of the result file
  MaxMoves,    \* bound: changes of Session and crashes
  Addressed,   \* may the result name an intercom target?
  Nobody

ASSUME VersionsAssumption ==
  MaxVersions \in Nat /\ MaxMoves \in Nat /\ Addressed \subseteq BOOLEAN

Versions == 1 .. MaxVersions
NoFile == 0

VARIABLES
  published, result,  \* versions written; the file at resultPath
  aside,              \* versions in quarantine files
  record,             \* the delivery-state file
  claim,              \* holder of the kernel claim
  proof,              \* the end of the run's processes is observed
  addressed,          \* intercomTarget # ""
  seen,               \* completionSeen: no, new, or older than the TTL
  owed,               \* deliveredPendingStatus has the key
  queued,             \* delayedResults has the file
  ignored,            \* ignoredResultFingerprints
  attempt,            \* handleResult of each Host
  late,               \* file operations of interrupted attempts
  moves,
  acked, emitted, \* history: versions acknowledged, versions announced
  gone            \* history: was a delivered file unlinked?

files == <<published, result, aside, record, proof, addressed>>
watch == <<seen, owed, queued, ignored>>
history == <<acked, emitted, gone>>
deliveryVars == <<files, claim, watch, attempt, late, moves, history>>
vars == <<hostVars, notifierVars, deliveryVars>>

Flags == [intercom : BOOLEAN, taken : BOOLEAN, accepted : BOOLEAN, emitted : BOOLEAN]
NoFlags == [intercom |-> FALSE, taken |-> FALSE, accepted |-> FALSE, emitted |-> FALSE]
NoRecord == [digest |-> NoFile, flags |-> NoFlags]
NoAttempt == [at |-> "none", version |-> NoFile, moved |-> NoFile, ready |-> FALSE,
              flags |-> NoFlags]
Places == {"none", "read", "own", "restore", "intercom", "ack", "route", "routed",
           "notify", "answer", "accepted", "mark", "emitted", "finish",
           "dispose", "remove", "compare", "unrecord"}
Attempts == [at : Places, version : 0 .. MaxVersions, moved : 0 .. MaxVersions,
             ready : BOOLEAN, flags : Flags]

TypeOK ==
  /\ NotifierTypeOK
  /\ published \in 0 .. MaxVersions /\ result \in 0 .. MaxVersions
  /\ aside \subseteq Versions
  /\ record \in [digest : 0 .. MaxVersions, flags : Flags]
  /\ claim \in Hosts \cup {Nobody}
  /\ proof \in BOOLEAN /\ addressed \in BOOLEAN
  /\ seen \in [Hosts -> {"no", "new", "old"}]
  /\ owed \in [Hosts -> BOOLEAN] /\ queued \in [Hosts -> BOOLEAN]
  /\ ignored \in [Hosts -> 0 .. MaxVersions]
  /\ attempt \in [Hosts -> Attempts]
  /\ late \subseteq Hosts \X Attempts
  /\ moves \in 0 .. MaxMoves
  /\ acked \subseteq Versions /\ emitted \subseteq Versions /\ gone \in BOOLEAN

Init ==
  /\ NotifierInit
  /\ published = 0 /\ result = NoFile /\ aside = {} /\ record = NoRecord
  /\ claim = Nobody /\ proof = FALSE /\ addressed \in Addressed
  /\ seen = [h \in Hosts |-> "no"]
  /\ owed = [h \in Hosts |-> FALSE] /\ queued = [h \in Hosts |-> FALSE]
  /\ ignored = [h \in Hosts |-> NoFile]
  /\ attempt = [h \in Hosts |-> NoAttempt]
  /\ late = {} /\ moves = 0
  /\ acked = {} /\ emitted = {} /\ gone = FALSE

At(h, place) == attempt[h].at = place
\* A plausible slip, for the mutation runs: the Session is not compared.
Owns_AnySession(h) == stage[h] = "watching"

Owns(h) == stage[h] = "watching" /\ home[h]
Exists == result # NoFile

Goto(h, place) == attempt' = [attempt EXCEPT ![h].at = place]

\* A plausible slip, for the mutation runs: the claim stays with the Host that took it.
End_KeepsClaim(h) == attempt' = Set(attempt, h, NoAttempt) /\ UNCHANGED claim

\* The ensuring block: the claim is released with the attempt.
End(h) == attempt' = Set(attempt, h, NoAttempt) /\ claim' = Nobody

\* scheduleResult: nothing is started outside a Session's scope.
Retry(h) == queued' = Set(queued, h, stage[h] = "watching")

\* An error that is not ENOENT is retried while the file is there.
RetryFailed(h) == End(h) /\ queued' = Set(queued, h, stage[h] = "watching" /\ Exists)

\* Conjuncts of a step that changes only the attempt and the claim.
quiet == <<hostVars, notifierVars, files, watch, late, moves, history>>

-----------------------------------------------------------------------------
(* The run, its addressee and the clock. *)

Publish ==
  /\ published < MaxVersions
  /\ published' = published + 1
  /\ result' = published + 1
  /\ UNCHANGED <<hostVars, notifierVars, aside, record, proof, addressed, claim,
                 watch, attempt, late, moves, history>>

\* The runner and its writers are gone, and the evidence of it is durable.
ObserveEnd ==
  /\ ~proof /\ proof' = TRUE
  /\ UNCHANGED <<hostVars, notifierVars, published, result, aside, record,
                 addressed, claim, watch, attempt, late, moves, history>>

ExpireSeen(h) ==
  /\ seen[h] = "new"
  /\ seen' = Set(seen, h, "old")
  /\ UNCHANGED <<hostVars, notifierVars, files, claim, owed, queued, ignored,
                 attempt, late, moves, history>>

-----------------------------------------------------------------------------
(* Watching: a rename event or the scan every three seconds. *)

Notice(h) ==
  /\ stage[h] = "watching" /\ Exists /\ ~queued[h]
  /\ queued' = Set(queued, h, TRUE)
  /\ UNCHANGED <<hostVars, notifierVars, files, claim, seen, owed, ignored,
                 attempt, late, moves, history>>

\* handleResult up to the claim.
Begin(h) ==
  /\ stage[h] = "watching" /\ queued[h]
  /\ IF At(h, "none") /\ Exists /\ ignored[h] # result
     THEN /\ claim = Nobody
          /\ claim' = h
          /\ Goto(h, "read")
     ELSE UNCHANGED <<claim, attempt>>
  /\ queued' = Set(queued, h, FALSE)
  /\ UNCHANGED <<hostVars, notifierVars, files, seen, owed, ignored, late,
                 moves, history>>

-----------------------------------------------------------------------------
(* loadResult *)

Read(h) ==
  /\ At(h, "read")
  /\ IF Exists
     THEN /\ attempt' = [attempt EXCEPT ![h].at = "own", ![h].version = result]
          /\ UNCHANGED claim
     ELSE End(h)
  /\ UNCHANGED quiet

\* The epoch is the one at the end of the read; a result of another Session
\* is remembered by its fingerprint.
Own(h) ==
  /\ At(h, "own")
  /\ IF Owns(h)
     THEN /\ attempt' = [attempt EXCEPT ![h].at = "restore", ![h].ready = proof]
          /\ UNCHANGED <<claim, ignored>>
     ELSE /\ End(h)
          /\ ignored' = IF stage[h] = "watching"
                        THEN Set(ignored, h, attempt[h].version) ELSE ignored
  /\ UNCHANGED <<hostVars, notifierVars, files, seen, owed, queued, late,
                 moves, history>>

\* readDeliveryState and what the seen keys say of it.
Complete(flags) == flags.intercom /\ flags.accepted /\ flags.emitted

SettledBefore(h, known) ==
  /\ seen[h] # "no" \/ owed[h]
  /\ known => Complete(record.flags)

Restored(h, known) ==
  /\ attempt' = [attempt EXCEPT
       ![h].at = IF ~(seen[h] = "old" /\ ~owed[h]) /\ SettledBefore(h, known)
                 THEN "dispose" ELSE "intercom",
       ![h].flags = IF known THEN record.flags ELSE NoFlags]
  /\ seen' = IF seen[h] = "old" /\ ~owed[h] THEN Set(seen, h, "no") ELSE seen
  /\ UNCHANGED <<hostVars, files, claim, owed, queued, ignored, late, moves, history>>

Restore(h) ==
  /\ At(h, "restore")
  /\ Restored(h, record.digest = attempt[h].version)
  /\ UNCHANGED notifierVars

\* Any error of the read is taken for "no record".
RestoreFails(h) ==
  /\ At(h, "restore") /\ Fault
  /\ Restored(h, FALSE)
  /\ UNCHANGED calm

-----------------------------------------------------------------------------
(* deliverCompletion *)

Intercom(h) ==
  /\ At(h, "intercom")
  /\ IF addressed /\ ~attempt[h].flags.intercom
     THEN IF Owns(h) THEN Goto(h, "ack") /\ UNCHANGED claim ELSE End(h)
     ELSE Goto(h, "route") /\ UNCHANGED claim
  /\ UNCHANGED quiet

\* An acknowledgement within 500 ms, or none.
Ack(h, yes) ==
  /\ At(h, "ack")
  /\ attempt' = [attempt EXCEPT ![h].at = "route", ![h].flags.taken = yes]
  /\ acked' = IF yes THEN acked \cup {attempt[h].version} ELSE acked
  /\ UNCHANGED <<hostVars, notifierVars, files, claim, watch, late, moves,
                 emitted, gone>>

Route(h) ==
  /\ At(h, "route")
  /\ CASE ~Owns(h) -> End(h)
       [] Owns(h) /\ (~addressed \/ attempt[h].flags.taken) ->
            /\ attempt' = [attempt EXCEPT ![h].at = "routed", ![h].flags.intercom = TRUE]
            /\ UNCHANGED claim
       [] OTHER -> Goto(h, "notify") /\ UNCHANGED claim
  /\ UNCHANGED quiet

\* writeDeliveryState: the record of the step that was just taken.
AfterWrite == [routed |-> "notify", accepted |-> "mark", emitted |-> "finish"]

RecordOf(a) == [digest |-> a.version, flags |-> a.flags]

Write(h) ==
  /\ attempt[h].at \in DOMAIN AfterWrite
  /\ record' = RecordOf(attempt[h])
  /\ Goto(h, AfterWrite[attempt[h].at])
  /\ UNCHANGED <<hostVars, notifierVars, published, result, aside, proof, addressed,
                 claim, watch, late, moves, history>>

Accepted(h) ==
  attempt' = [attempt EXCEPT ![h].at = "accepted", ![h].flags.accepted = TRUE]

Notify(h) ==
  /\ At(h, "notify")
  /\ LET flags == attempt[h].flags
     IN  CASE ~Owns(h) -> End(h) /\ UNCHANGED notifierVars
           [] Owns(h) /\ flags.accepted ->
                Goto(h, "mark") /\ UNCHANGED <<claim, notifierVars>>
           [] Owns(h) /\ ~flags.accepted /\ (flags.taken \/ Known(h)) ->
                Accepted(h) /\ UNCHANGED <<claim, notifierVars>>
           [] OTHER -> Goto(h, "answer") /\ Enqueue(h) /\ UNCHANGED claim
  /\ UNCHANGED <<hostVars, files, watch, late, moves, history>>

\* A plausible slip, for the mutation runs: a refused notification is recorded as accepted.
Answer_AnyAnswer(h) ==
  /\ At(h, "answer") /\ answer[h] # "none"
  /\ answer' = Set(answer, h, "none")
  /\ Accepted(h)
  /\ UNCHANGED <<hostVars, busy, sent, told, row, stopped, ended, delivered,
                 pending, flush, turns, faults, files, claim, watch, late,
                 moves, history>>

Answer(h) ==
  /\ At(h, "answer") /\ answer[h] # "none"
  /\ answer' = Set(answer, h, "none")
  /\ IF answer[h] = "yes"
     THEN Accepted(h) /\ UNCHANGED <<claim, queued>>
     ELSE End(h) /\ IF Owns(h) THEN Retry(h) ELSE UNCHANGED queued
  /\ UNCHANGED <<hostVars, busy, sent, told, row, stopped, ended, delivered,
                 pending, flush, turns, faults, files, seen, owed, ignored,
                 late, moves, history>>

\* markSeenWithTtl, deliveredPendingStatus and the completion event.
Mark(h) ==
  /\ At(h, "mark")
  /\ IF Owns(h)
     THEN /\ seen' = Set(seen, h, "new")
          /\ owed' = Set(owed, h, owed[h] \/ ~attempt[h].ready)
          /\ IF attempt[h].flags.emitted
             THEN Goto(h, "finish") /\ UNCHANGED emitted
             ELSE /\ emitted' = emitted \cup {attempt[h].version}
                  /\ attempt' = [attempt EXCEPT ![h].at = "emitted",
                                                ![h].flags.emitted = TRUE]
          /\ UNCHANGED claim
     ELSE End(h) /\ UNCHANGED <<seen, owed, emitted>>
  /\ UNCHANGED <<hostVars, notifierVars, files, queued, ignored, late, moves,
                 acked, gone>>

\* A plausible slip, for the mutation runs: the end of the run's processes is not waited for.
Dispose_NotReady(h) ==
  /\ attempt[h].at \in {"finish", "dispose"}
  /\ CASE ~Owns(h) \/ ~Exists -> End(h) /\ UNCHANGED queued
       [] Owns(h) /\ Exists /\ At(h, "finish") /\ ~attempt[h].flags.intercom ->
            End(h) /\ Retry(h)
       [] OTHER -> Goto(h, "remove") /\ UNCHANGED <<claim, queued>>
  /\ UNCHANGED <<hostVars, notifierVars, files, seen, owed, ignored, late,
                 moves, history>>

\* What is left before the file may go, after a delivery or for a seen key.
Dispose(h) ==
  /\ attempt[h].at \in {"finish", "dispose"}
  /\ CASE ~Owns(h) \/ ~Exists -> End(h) /\ UNCHANGED queued
       [] Owns(h) /\ Exists /\ (~attempt[h].ready
            \/ (At(h, "finish") /\ ~attempt[h].flags.intercom)) -> End(h) /\ Retry(h)
       [] OTHER -> Goto(h, "remove") /\ UNCHANGED <<claim, queued>>
  /\ UNCHANGED <<hostVars, notifierVars, files, seen, owed, ignored, late,
                 moves, history>>

-----------------------------------------------------------------------------
(* removeOwnedFileSnapshotAsync and removeDeliveryArtifacts.  The first two
   also run on for an attempt that was interrupted in them. *)

MoveAside ==
  /\ aside' = IF Exists THEN aside \cup {result} ELSE aside
  /\ result' = NoFile

Moved(a) == [a EXCEPT !.at = IF Exists THEN "compare" ELSE "unrecord",
                      !.moved = result]

\* A plausible slip, for the mutation runs: whatever was moved is unlinked.
Changed_Never(a) == a.moved = NoFile

Changed(a) == a.moved # a.version

\* Unlink what was read; link back anything else unless a new file is there.
SettleAside(a) ==
  IF ~Changed(a)
  THEN /\ aside' = aside \ {a.moved}
       /\ gone' = TRUE
       /\ UNCHANGED result
  ELSE /\ IF Exists THEN UNCHANGED <<result, aside>>
                    ELSE result' = a.moved /\ aside' = aside \ {a.moved}
       /\ UNCHANGED gone

Remove(h) ==
  /\ At(h, "remove")
  /\ MoveAside
  /\ attempt' = Set(attempt, h, Moved(attempt[h]))
  /\ UNCHANGED <<hostVars, notifierVars, published, record, proof, addressed,
                 claim, watch, late, moves, history>>

Compare(h) ==
  /\ At(h, "compare")
  /\ SettleAside(attempt[h])
  /\ IF Changed(attempt[h])
     THEN End(h) /\ Retry(h)
     ELSE Goto(h, "unrecord") /\ UNCHANGED <<claim, queued>>
  /\ UNCHANGED <<hostVars, notifierVars, published, record, proof, addressed,
                 seen, owed, ignored, late, moves, acked, emitted>>

Unrecord(h) ==
  /\ At(h, "unrecord")
  /\ record' = NoRecord
  /\ owed' = Set(owed, h, FALSE)
  /\ End(h)
  /\ UNCHANGED <<hostVars, notifierVars, published, result, aside, proof,
                 addressed, seen, queued, ignored, late, moves, history>>

\* One operation fails: the attempt ends and is repeated.
Fail(h) ==
  /\ \/ attempt[h].at \in DOMAIN AfterWrite \cup {"read", "restore"} /\ RetryFailed(h)
     \/ attempt[h].at \in {"remove", "compare", "unrecord"} /\ End(h) /\ Retry(h)
  /\ Fault
  /\ UNCHANGED <<hostVars, calm, files, seen, owed, ignored, late, moves, history>>

LateStep(h, a) ==
  /\ <<h, a>> \in late
  /\ \/ /\ a.at \in DOMAIN AfterWrite
        /\ record' = RecordOf(a)
        /\ late' = late \ {<<h, a>>}
        /\ UNCHANGED <<result, aside, gone>>
     \/ /\ a.at = "remove"
        /\ MoveAside
        /\ late' = (late \ {<<h, a>>}) \cup (IF Exists THEN {<<h, Moved(a)>>} ELSE {})
        /\ UNCHANGED <<record, gone>>
     \/ /\ a.at = "compare"
        /\ SettleAside(a)
        /\ late' = late \ {<<h, a>>}
        /\ UNCHANGED record
     \/ /\ a.at = "unrecord"
        /\ record' = NoRecord
        /\ late' = late \ {<<h, a>>}
        /\ UNCHANGED <<result, aside, gone>>
  /\ UNCHANGED <<hostVars, notifierVars, published, proof, addressed, claim,
                 watch, attempt, moves, acked, emitted>>

-----------------------------------------------------------------------------
(* The Session of a Host: startSession, startRunRuntime, and the end of the
   process. *)

Move == moves < MaxMoves /\ moves' = moves + 1

Forget(h) ==
  /\ queued' = Set(queued, h, FALSE)
  /\ owed' = Set(owed, h, FALSE)
  /\ ignored' = Set(ignored, h, NoFile)

\* stopResultWatcher: what was started goes on until it is interrupted.  A
\* shutdown also ends the extension's instance, and the next knows no keys.
Leave(h) ==
  /\ stage[h] \in {"open", "watching"} /\ Move
  /\ stage' = Set(stage, h, "leaving")
  /\ Forget(h)
  /\ seen' \in {seen, Set(seen, h, "no")}
  /\ UNCHANGED <<home, notifierVars, files, claim, attempt, late, history>>

Operations == DOMAIN AfterWrite \cup {"remove", "compare", "unrecord"}

Interrupt(h) ==
  /\ stage[h] = "leaving" /\ ~At(h, "none")
  /\ End(h)
  /\ late' = IF attempt[h].at \in Operations
             THEN late \cup {<<h, attempt[h]>>} ELSE late
  /\ pending' = Set(pending, h, "none")
  /\ answer' = Set(answer, h, "none")
  /\ UNCHANGED <<hostVars, agent, row, runs, delivered, flush, turns, faults,
                 files, watch, moves, history>>

\* effects.startSession waits for the attempts of the Session before.
Join(h, own) ==
  /\ stage[h] \in {"down", "leaving"} /\ At(h, "none")
  /\ stage' = Set(stage, h, "open")
  /\ home' = Set(home, h, own)
  /\ Reset(h, own)
  /\ UNCHANGED deliveryVars

Watch(h) ==
  /\ stage[h] = "open"
  /\ stage' = Set(stage, h, "watching")
  /\ ignored' = Set(ignored, h, NoFile)
  /\ queued' = Set(queued, h, Exists)
  /\ UNCHANGED <<home, notifierVars, files, claim, seen, owed, attempt, late,
                 moves, history>>

Crash(h) ==
  /\ stage[h] # "down" /\ Move
  /\ stage' = Set(stage, h, "down")
  /\ home' = Set(home, h, FALSE)
  /\ Reset(h, FALSE)
  /\ Forget(h)
  /\ seen' = Set(seen, h, "no")
  /\ attempt' = Set(attempt, h, NoAttempt)
  /\ claim' = IF claim = h THEN Nobody ELSE claim
  /\ late' = {op \in late : op[1] # h}
  /\ UNCHANGED <<files, history>>

-----------------------------------------------------------------------------
AttemptStep(h) ==
  \/ Read(h) \/ Own(h) \/ Restore(h) \/ Intercom(h) \/ Route(h) \/ Write(h)
  \/ Notify(h) \/ Answer(h) \/ Mark(h) \/ Dispose(h) \/ Remove(h) \/ Compare(h)
  \/ Unrecord(h)

SessionStep(h) ==
  \/ Leave(h) \/ Interrupt(h) \/ Watch(h) \/ Crash(h)
  \/ \E own \in BOOLEAN : Join(h, own)

Next ==
  \/ Publish \/ ObserveEnd
  \/ \E h \in Hosts :
       \/ ExpireSeen(h) \/ Notice(h) \/ Begin(h) \/ AttemptStep(h)
       \/ RestoreFails(h) \/ Fail(h)
       \/ \E yes \in BOOLEAN : Ack(h, yes)
       \/ \E op \in late : op[1] = h /\ LateStep(h, op[2])
       \/ SessionStep(h)
       \/ NotifierStep(h) /\ UNCHANGED deliveryVars

Spec == Init /\ [][Next]_vars

\* The timers of the watcher, the promises it waits for, the turns of the
\* agent, an addressee who acknowledges at last, and the end of the run.
AgentStep(h) == Gate(h) \/ Send(h) \/ Request(h) \/ Settle(h)

HostFairness(h) ==
  /\ WF_vars(Notice(h)) /\ WF_vars(Begin(h))
  /\ WF_vars(AttemptStep(h) \/ Ack(h, FALSE)) /\ SF_vars(Ack(h, TRUE))
  /\ WF_vars(AgentStep(h) /\ UNCHANGED deliveryVars)
  /\ SF_vars(Observe(h) /\ UNCHANGED deliveryVars)
  /\ WF_vars(Watch(h) \/ Interrupt(h))

FairSpec == Spec /\ WF_vars(ObserveEnd) /\ \A h \in Hosts : HostFairness(h)

-----------------------------------------------------------------------------
(* Properties *)

\* A result file is unlinked only after the outcome of its run reached the
\* Session or the addressee, its completion was announced and the end of its
\* processes is durable (removeDeliveredResult and its two callers).
RemovedIsDelivered ==
  gone => /\ InSession \/ acked # {}
          /\ emitted # {}
          /\ proof

\* A step is recorded only after it happened, also when the write of the
\* record outlives the attempt: no restart skips a step nobody took.
RecordIsTrue ==
  LET flags == record.flags
  IN  /\ flags.accepted => InSession \/ acked # {}
      /\ flags.emitted => record.digest \in emitted
      /\ flags.intercom => ~addressed \/ record.digest \in acked

\* The conversation of a Host is told of a run once, however often the Host
\* crashes, changes its Session or repeats a delivery.
ToldOnce == \A h \in Hosts : told[h] <= 1

\* No message and no event reaches a Session the result does not belong to.
NotIntoOtherSession ==
  [][\A h \in Hosts : (~sent[h] /\ sent'[h]) \/ (row # row' /\ pending[h] # pending'[h])
       => home[h]]_vars

\* What leaves the disk is what an attempt has read, or was overwritten by its
\* writer: a result that is replaced during its removal is put back, or kept
\* aside when a newer one is there already (removeOwnedFileSnapshotAsync).
OnDisk == {result} \cup aside

ReadBy == {attempt[h].version : h \in Hosts} \cup {op[2].version : op \in late}

OnlyReadIsRemoved ==
  [][published' = published => (OnDisk \ {NoFile}) \ OnDisk' \subseteq ReadBy]_vars

\* A result does not stay in the directory of a Session that is being watched.
ResultsLeave == \A h \in Hosts : <>[]Owns(h) => []<>~Exists
=============================================================================
