---------------------------- MODULE SettingsStore ----------------------------
(***************************************************************************)
(* The settings file pi-stuff.json and the stores of the Hosts that share  *)
(* it (shared/settings-io).  Each capability of each Host has a store of   *)
(* its namespace with its own copy in memory (store.ts); the calls of one  *)
(* store pass its gate one by one, and a call holds the lock of the whole  *)
(* file (lock.ts, flock) while it reads, merges and writes (file.ts).      *)
(*                                                                         *)
(* Each await of a call is a step of its own.  The kernel releases the     *)
(* lock of a Host that dies.                                               *)
(***************************************************************************)
EXTENDS Naturals, Sequences, SequencesExt

CONSTANTS
  Hosts,
  Namespaces, Fields, Values, Changes, Defaults, Absent, Invalid,
  Unread,     \* namespaces that are replaced without being read (codex, code mode)
  Lifting,    \* those whose writer removes a legacy file after the write (web)
  Free,       \* nobody holds the lock
  MaxCalls, MaxFaults

VARIABLES
  file,      \* what the settings file holds
  lock,      \* the store whose open file has the flock
  closing,   \* its caller gave up and the file is being closed
  up,        \* Hosts that run
  live,      \* of each store: its value in memory
  calls,     \* changes that were asked for; the first has passed the gate
  stage,     \* how far the first has come
  next,      \* the value it will write
  snapshot,  \* the whole file as it read it for the merge
  made, faults  \* how many calls were made and faults happened

storeVars == <<calls, stage, next, snapshot>>
vars == <<file, lock, closing, up, live, storeVars, made, faults>>

Settings == INSTANCE SharedSettings

Stores == Hosts \X Namespaces
Stages == {"waiting", "taking", "locked", "planned", "merged", "written"}

ASSUME SettingsAssumption ==
  /\ Changes \in [Namespaces -> SUBSET Settings!Change]
  /\ Defaults \in [Namespaces -> Settings!Record]
  /\ Absent \notin Settings!Record /\ Invalid \notin Settings!Record
  /\ Absent # Invalid
  /\ \A n \in Unread \cap Namespaces : \A c \in Changes[n] : DOMAIN c = Fields
  /\ Free \notin Stores
  /\ MaxCalls \in Nat /\ MaxFaults \in Nat

TypeOK ==
  /\ file \in Settings!File
  /\ lock \in Stores \cup {Free} /\ closing \in BOOLEAN
  /\ up \subseteq Hosts
  /\ live \in [Stores -> Settings!Record]
  /\ calls \in [Stores -> Seq(Settings!Change)]
  /\ \A s \in Stores : calls[s] \in Seq(Changes[s[2]])
  /\ stage \in [Stores -> Stages]
  /\ next \in [Stores -> Settings!Record \cup {Absent}]
  /\ snapshot \in [Stores -> Settings!File \cup {Absent}]
  /\ made \in Nat /\ faults \in Nat

Init ==
  /\ file \in Settings!File
  /\ lock = Free /\ closing = FALSE
  /\ up = Hosts
  /\ live = [s \in Stores |-> Settings!Current(s[2])]
  /\ calls = [s \in Stores |-> <<>>]
  /\ stage = [s \in Stores |-> "waiting"]
  /\ next = [s \in Stores |-> Absent]
  /\ snapshot = [s \in Stores |-> Absent]
  /\ made = 0 /\ faults = 0

Goto(s, to) == stage' = [stage EXCEPT ![s] = to]

-----------------------------------------------------------------------------
(* The gate and the lock *)

Call(s, c) ==
  /\ s[1] \in up /\ made < MaxCalls
  /\ calls' = [calls EXCEPT ![s] = Append(@, c)]
  /\ made' = made + 1
  /\ UNCHANGED <<file, lock, closing, up, live, stage, next, snapshot, faults>>

\* The first call is over: the next one may pass the gate.
Leave(s) ==
  /\ calls' = [calls EXCEPT ![s] = Tail(@)]
  /\ stage' = [stage EXCEPT ![s] = "waiting"]
  /\ next' = [next EXCEPT ![s] = Absent]
  /\ snapshot' = [snapshot EXCEPT ![s] = Absent]

Take(s) ==
  /\ calls[s] # <<>> /\ stage[s] = "waiting"
  /\ lock = Free
  /\ lock' = s /\ Goto(s, "taking")
  /\ UNCHANGED <<file, closing, up, live, calls, next, snapshot, made, faults>>

\* The lock was not to be had in ten seconds.
TimesOut(s) ==
  /\ calls[s] # <<>> /\ stage[s] = "waiting"
  /\ lock # Free
  /\ Leave(s)
  /\ UNCHANGED <<file, lock, closing, up, live, made, faults>>

\* The owner of the lock has put its name into the lock file.
Taken(s) ==
  /\ stage[s] = "taking"
  /\ Goto(s, "locked")
  /\ UNCHANGED <<file, lock, closing, up, live, calls, next, snapshot, made, faults>>

\* The scope of a caller ends while it waits for the gate or for the lock.
Interrupt(s, i) ==
  /\ i \in DOMAIN calls[s]
  /\ i = 1 => stage[s] = "waiting"
  /\ calls' = [calls EXCEPT ![s] = RemoveAt(@, i)]
  /\ UNCHANGED <<file, lock, closing, up, live, stage, next, snapshot, made, faults>>

\* Or when it has the lock and not yet returned: the lock file is closed.
InterruptTaking(s) ==
  /\ stage[s] = "taking"
  /\ closing' = TRUE
  /\ Leave(s)
  /\ UNCHANGED <<file, lock, up, live, made, faults>>

Closed ==
  /\ closing
  /\ lock' = Free /\ closing' = FALSE
  /\ UNCHANGED <<file, up, live, storeVars, made, faults>>

-----------------------------------------------------------------------------
(* The critical section *)

\* A plausible slip, for the mutation runs: a failed call keeps the lock.
Fails_Locked(s) ==
  /\ Leave(s)
  /\ UNCHANGED <<file, lock, closing, up, live, made>>

Fails(s) ==
  /\ lock' = Free
  /\ Leave(s)
  /\ UNCHANGED <<file, closing, up, live, made>>

\* The namespace is read unless it is replaced as a whole.
Read(s) == s[2] \notin Unread

\* A plausible slip, for the mutation runs: the change is made to the value in memory.
Basis_Live(s) == live[s]

Basis(s) ==
  IF Read(s) /\ file[s[2]] # Absent THEN file[s[2]] ELSE live[s]

Planned(s) == Settings!Changed(Basis(s), Head(calls[s]))

Readable(s) == Read(s) => file[s[2]] # Invalid

\* A plausible slip, for the mutation runs: memory changes before the file.
Plan_Ahead(s) ==
  /\ stage[s] = "locked" /\ Readable(s)
  /\ Read(s) => Planned(s) # Basis(s)
  /\ next' = [next EXCEPT ![s] = Planned(s)]
  /\ live' = [live EXCEPT ![s] = Planned(s)]
  /\ Goto(s, "planned")
  /\ UNCHANGED <<file, lock, closing, up, calls, snapshot, made, faults>>

Plan(s) ==
  /\ stage[s] = "locked"
  /\ Readable(s)
  /\ Read(s) => Planned(s) # Basis(s)
  /\ next' = [next EXCEPT ![s] = Planned(s)]
  /\ Goto(s, "planned")
  /\ UNCHANGED <<file, lock, closing, up, live, calls, snapshot, made, faults>>

\* Nothing to write, though memory may be behind the file.
AlreadySo(s) ==
  /\ stage[s] = "locked"
  /\ Read(s) /\ Readable(s) /\ Planned(s) = Basis(s)
  /\ live' = [live EXCEPT ![s] = Basis(s)]
  /\ lock' = Free
  /\ Leave(s)
  /\ UNCHANGED <<file, closing, up, made, faults>>

Unreadable(s) ==
  /\ stage[s] = "locked" /\ ~Readable(s)
  /\ Fails(s) /\ UNCHANGED faults

Merge(s) ==
  /\ stage[s] = "planned"
  /\ snapshot' = [snapshot EXCEPT ![s] = file]
  /\ Goto(s, "merged")
  /\ UNCHANGED <<file, lock, closing, up, live, calls, next, made, faults>>

\* rename(2) puts the new file in place of the old one.
Write(s) ==
  /\ stage[s] = "merged"
  /\ file' = [snapshot[s] EXCEPT ![s[2]] = next[s]]
  /\ Goto(s, "written")
  /\ UNCHANGED <<lock, closing, up, live, calls, next, snapshot, made, faults>>

Commit(s) ==
  /\ stage[s] = "written"
  /\ live' = [live EXCEPT ![s] = next[s]]
  /\ lock' = Free
  /\ Leave(s)
  /\ UNCHANGED <<file, closing, up, made, faults>>

\* A read, a write or the rename fails; the removal of a legacy file fails
\* when the new file is there already.
IoFails(s) ==
  /\ \/ stage[s] \in {"locked", "planned", "merged"}
     \/ stage[s] = "written" /\ s[2] \in Lifting
  /\ faults < MaxFaults /\ faults' = faults + 1
  /\ Fails(s)

-----------------------------------------------------------------------------
(* Hosts *)

Held(h) == lock \in {h} \X Namespaces

Crash(h) ==
  /\ h \in up /\ faults < MaxFaults
  /\ faults' = faults + 1
  /\ up' = up \ {h}
  /\ lock' = IF Held(h) THEN Free ELSE lock
  /\ closing' = (closing /\ ~Held(h))
  /\ calls' = [s \in Stores |-> IF s[1] = h THEN <<>> ELSE calls[s]]
  /\ stage' = [s \in Stores |-> IF s[1] = h THEN "waiting" ELSE stage[s]]
  /\ next' = [s \in Stores |-> IF s[1] = h THEN Absent ELSE next[s]]
  /\ snapshot' = [s \in Stores |-> IF s[1] = h THEN Absent ELSE snapshot[s]]
  /\ UNCHANGED <<file, live, made>>

\* What cannot be read is taken for the defaults and left as it is.
Start(h) ==
  /\ h \notin up
  /\ up' = up \cup {h}
  /\ live' = [s \in Stores |->
                IF s[1] = h THEN Settings!Current(s[2]) ELSE live[s]]
  /\ UNCHANGED <<file, lock, closing, storeVars, made, faults>>

-----------------------------------------------------------------------------

Progress(s) ==
  \/ Take(s) \/ TimesOut(s) \/ Taken(s)
  \/ Plan(s) \/ AlreadySo(s) \/ Unreadable(s)
  \/ Merge(s) \/ Write(s) \/ Commit(s)

StoreStep(s) ==
  \/ Progress(s) \/ InterruptTaking(s) \/ IoFails(s)
  \/ \E c \in Changes[s[2]] : Call(s, c)
  \/ \E i \in DOMAIN calls[s] : Interrupt(s, i)

Next ==
  \/ \E s \in Stores : StoreStep(s)
  \/ Closed
  \/ \E h \in Hosts : Crash(h) \/ Start(h)

Spec == Init /\ [][Next]_vars

\* The event loop of a Host resumes what it awaits, and a wait for the lock
\* is polled until it has it or its time is over.
Fairness == WF_vars(Closed) /\ \A s \in Stores : WF_vars(Progress(s))

FairSpec == Spec /\ Fairness

-----------------------------------------------------------------------------
(* Properties *)

\* No Host takes from the file what another one, or another capability of
\* its own, wrote: every write is one change applied to the file as it is at
\* that moment, though it read the namespace and the file at earlier ones
\* (store.ts persistNamespace, file.ts mergeNamespaceRecordNative).
WritesAreAtomic == Settings!Spec

\* Memory never runs ahead of the file and never returns to what the file no
\* longer holds: when the value of a store changes, it becomes what its
\* namespace is at that moment (store.ts replaceValue).
MemoryFollowsFile ==
  [][\A s \in Stores : live'[s] # live[s] => live'[s] = Settings!Current(s[2])']_vars

\* Every call returns or fails, whatever fails, stops or dies before it: a
\* failed change releases the lock and does not block later ones
\* (docs/adr/0012-merge-pi-stuff-settings-file.md:98, store.ts commit).
CallsFinish ==
  /\ \A s \in Stores : (calls[s] # <<>>) ~> (calls[s] = <<>>)
  /\ (lock # Free) ~> (lock = Free)
=============================================================================
