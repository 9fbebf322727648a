-------------------------- MODULE SharedFilesProofs --------------------------
(***************************************************************************)
(* The two files that processes share through the file system alone: the   *)
(* settings file (SettingsStore) and the revival lease of a session file   *)
(* (SessionLease).                                                         *)
(*                                                                         *)
(* Settings, for any Hosts, namespaces, changes, calls and faults: every   *)
(* write is one atomic change of the file, and memory follows the file.    *)
(* What a call has read stays true until it writes, because only the       *)
(* holder of the lock is in a stage that reads or writes.  A store that    *)
(* does not find its namespace falls back on its memory, which is the      *)
(* defaults as long as nobody wrote the namespace.                         *)
(*                                                                         *)
(* The lease, for any number of runners: what a takeover concludes of the  *)
(* owner it read does hold.  That only one runner writes has one           *)
(* exception, a takeover that moves aside the lease of a third runner.     *)
(***************************************************************************)
EXTENDS SettingsStore, SessionLease, TLAPS

\* Only the holder of the lock, which it keeps, works on the file.
Alone(s) ==
  stage[s] # "waiting" => lock = s /\ ~closing /\ calls[s] # <<>>

\* What a call plans is its change of what the file holds.
Fresh(s) ==
  /\ stage[s] \in {"planned", "merged"} =>
       next[s] = Settings!Changed(Settings!Current(s[2]), Head(calls[s]))
  /\ stage[s] = "merged" => snapshot[s] = file
  /\ stage[s] = "written" =>
       next[s] \in Settings!Record /\ file[s[2]] = next[s]

\* Memory stands in for a namespace that nobody wrote.
Fallback(s) == file[s[2]] = Absent => live[s] = Defaults[s[2]]

IInv ==
  /\ TypeOK
  /\ closing => lock # Free
  /\ \A s \in Stores : Alone(s) /\ Fresh(s) /\ Fallback(s)

-----------------------------------------------------------------------------
(* Records and sequences *)

LEMMA CurrentIsRecord ==
  ASSUME NEW n \in Namespaces, file \in Settings!File
  PROVE  Settings!Current(n) \in Settings!Record
BY SettingsAssumption DEF Settings!Current, Settings!File

LEMMA ChangedIsRecord ==
  ASSUME NEW r \in Settings!Record, NEW c \in Settings!Change
  PROVE  Settings!Changed(r, c) \in Settings!Record
<1>1. PICK S \in SUBSET Fields : c \in [S -> Values]
  BY DEF Settings!Change
<1> QED
  BY <1>1 DEF Settings!Changed, Settings!Record

\* A caller behind the first leaves the queue and the first stays.
LEMMA RemoveBehind ==
  ASSUME NEW S, NEW q \in Seq(S), NEW i \in DOMAIN q
  PROVE  /\ RemoveAt(q, i) \in Seq(S)
         /\ i # 1 => RemoveAt(q, i) # <<>> /\ Head(RemoveAt(q, i)) = Head(q)
<1>1. i \in 1 .. Len(q) /\ Len(q) \in Nat
  OBVIOUS
<1>2. SubSeq(q, 1, i - 1) \in Seq(S) /\ SubSeq(q, i + 1, Len(q)) \in Seq(S)
  BY <1>1
<1>3. RemoveAt(q, i) \in Seq(S)
  BY <1>2 DEF RemoveAt
<1>4. ASSUME i # 1
      PROVE  RemoveAt(q, i) # <<>> /\ Head(RemoveAt(q, i)) = Head(q)
  <2>1. Len(SubSeq(q, 1, i - 1)) = i - 1 /\ SubSeq(q, 1, i - 1)[1] = q[1]
    BY <1>1, <1>4
  <2> QED
    BY <1>1, <1>2, <1>3, <1>4, <2>1 DEF RemoveAt
<1> QED
  BY <1>3, <1>4

\* What a caller applies its change to is what others take the namespace to be.
LEMMA PlannedIsFresh ==
  ASSUME IInv, NEW s \in Stores, stage[s] = "locked", Readable(s)
  PROVE  /\ Head(calls[s]) \in Changes[s[2]]
         /\ Planned(s) = Settings!Changed(Settings!Current(s[2]), Head(calls[s]))
         /\ Planned(s) \in Settings!Record
         /\ Read(s) => Basis(s) = Settings!Current(s[2])
<1>1. /\ s[2] \in Namespaces /\ calls[s] # <<>> /\ calls[s] \in Seq(Changes[s[2]])
      /\ live[s] \in Settings!Record /\ file \in Settings!File
      /\ Fallback(s)
  BY DEF IInv, TypeOK, Alone, Stores
<1>2. Head(calls[s]) \in Changes[s[2]]
  BY <1>1
<1>3. Head(calls[s]) \in Settings!Change
  BY <1>1, <1>2, SettingsAssumption
<1>4. CASE Read(s)
  <2>1. Basis(s) = Settings!Current(s[2])
    BY <1>1, <1>4, SettingsAssumption
    DEF Basis, Readable, Fallback, Settings!Current, Settings!File
  <2> QED
    BY <1>1, <1>2, <1>3, <1>4, <2>1, CurrentIsRecord, ChangedIsRecord DEF Planned
<1>5. CASE ~Read(s)
  <2>1. DOMAIN Head(calls[s]) = Fields
    BY <1>1, <1>2, <1>5, SettingsAssumption DEF Read
  <2>2. Basis(s) = live[s]
    BY <1>5 DEF Basis
  <2>3. Planned(s) = Settings!Changed(Settings!Current(s[2]), Head(calls[s]))
    BY <2>1, <2>2 DEF Planned, Settings!Changed
  <2> QED
    BY <1>1, <1>2, <1>3, <1>5, <2>2, <2>3, ChangedIsRecord DEF Planned
<1> QED
  BY <1>4, <1>5

-----------------------------------------------------------------------------
(* The invariant *)

LEMMA Initially == Init => IInv
<1> SUFFICES ASSUME Init PROVE IInv
  OBVIOUS
<1>1. live \in [Stores -> Settings!Record]
  BY CurrentIsRecord DEF Init, Stores
<1>2. TypeOK
  <2>1. calls \in [Stores -> Seq(Settings!Change)]
    BY DEF Init
  <2>2. \A s \in Stores : calls[s] \in Seq(Changes[s[2]])
    BY DEF Init
  <2> QED
    BY <1>1, <2>1, <2>2 DEF Init, TypeOK, Stages
<1>3. \A s \in Stores : Fallback(s)
  BY DEF Init, Fallback, Settings!Current, Stores
<1> QED
  BY <1>2, <1>3 DEF Init, IInv, Alone, Fresh

\* A call that is over leaves the rest of its queue and no trace in its store.
LEMMA LeavingIsSafe ==
  ASSUME IInv, NEW s \in Stores, Leave(s), calls[s] # <<>>,
         file' = file, up' = up, made' \in Nat, faults' \in Nat,
         live' \in [Stores -> Settings!Record],
         \A t \in Stores : live'[t] = live[t] \/ live'[t] = Settings!Current(t[2]),
         \/ lock' = lock /\ closing' = closing /\ stage[s] = "waiting"
         \/ stage[s] # "waiting" /\ lock' = lock /\ closing' = TRUE
         \/ stage[s] # "waiting" /\ lock' = Free /\ closing' = closing
  PROVE  IInv'
<1> USE DEF IInv
<1>1. TypeOK'
  <2>1. /\ Tail(calls[s]) \in Seq(Settings!Change)
        /\ Tail(calls[s]) \in Seq(Changes[s[2]])
    BY DEF TypeOK
  <2>2. /\ calls' \in [Stores -> Seq(Settings!Change)]
        /\ \A t \in Stores : calls'[t] \in Seq(Changes[t[2]])
    BY <2>1 DEF TypeOK, Leave
  <2>3. /\ stage' \in [Stores -> Stages]
        /\ next' \in [Stores -> Settings!Record \cup {Absent}]
        /\ snapshot' \in [Stores -> Settings!File \cup {Absent}]
    BY DEF TypeOK, Leave, Stages
  <2>4. file' \in Settings!File /\ up' \subseteq Hosts
    BY DEF TypeOK
  <2> QED
    BY <2>2, <2>3, <2>4 DEF TypeOK
<1>2. ASSUME NEW t \in Stores PROVE Alone(t)' /\ Fresh(t)' /\ Fallback(t)'
  <2>1. t # s => /\ stage'[t] = stage[t] /\ calls'[t] = calls[t]
                 /\ next'[t] = next[t] /\ snapshot'[t] = snapshot[t]
    BY DEF TypeOK, Leave
  <2>2. stage'[s] = "waiting"
    BY DEF TypeOK, Leave
  <2>3. Alone(t)'
    BY <2>1, <2>2 DEF Alone
  <2>4. Fresh(t)'
    BY <2>1, <2>2 DEF Fresh, Settings!Current
  <2>5. Fallback(t)'
    BY DEF Fallback, Settings!Current
  <2> QED
    BY <2>3, <2>4, <2>5
<1>3. closing' => lock' # Free
  BY SettingsAssumption DEF Alone
<1> QED
  BY <1>1, <1>2, <1>3

\* A step of one store that holds the lock, or takes it, and keeps its queue.
LEMMA WorkingIsSafe ==
  ASSUME IInv, NEW s \in Stores,
         TypeOK', calls' = calls, calls[s] # <<>>, live' = live,
         lock' = s, ~closing', lock = s \/ lock = Free,
         \A t \in Stores : t # s =>
           stage'[t] = stage[t] /\ next'[t] = next[t] /\ snapshot'[t] = snapshot[t],
         \/ file' = file
         \/ file'[s[2]] # Absent /\ \A n \in Namespaces : n # s[2] => file'[n] = file[n],
         Fresh(s)'
  PROVE  IInv'
<1> USE DEF IInv
<1>1. ASSUME NEW t \in Stores PROVE Alone(t)' /\ Fresh(t)' /\ Fallback(t)'
  <2>1. t # s => stage'[t] = "waiting"
    BY SettingsAssumption DEF Alone
  <2>2. Alone(t)'
    BY <2>1 DEF Alone
  <2>3. Fresh(t)'
    BY <2>1 DEF Fresh
  <2>4. Fallback(t)'
    BY DEF Fallback, Stores
  <2> QED
    BY <2>2, <2>3, <2>4
<1> QED
  BY <1>1

LEMMA CallIsSafe ==
  ASSUME IInv, NEW s \in Stores, NEW c \in Changes[s[2]], Call(s, c)
  PROVE  IInv'
<1> USE DEF IInv, Call
<1>1. c \in Settings!Change
  BY SettingsAssumption DEF Stores
<1>2. /\ Append(calls[s], c) \in Seq(Settings!Change)
      /\ Append(calls[s], c) \in Seq(Changes[s[2]])
      /\ calls[s] # <<>> => Head(Append(calls[s], c)) = Head(calls[s])
      /\ Append(calls[s], c) # <<>>
  <2>1. calls[s] \in Seq(Settings!Change) /\ calls[s] \in Seq(Changes[s[2]])
    BY DEF TypeOK
  <2>2. /\ Append(calls[s], c) \in Seq(Settings!Change)
        /\ Append(calls[s], c) \in Seq(Changes[s[2]])
    <3>1. ASSUME NEW S, NEW q \in Seq(S), NEW e \in S
          PROVE  Append(q, e) \in Seq(S)
      OBVIOUS
    <3> QED
      BY <1>1, <2>1, <3>1
  <2>3. /\ Len(Append(calls[s], c)) = Len(calls[s]) + 1
        /\ calls[s] # <<>> => Append(calls[s], c)[1] = calls[s][1]
    BY <1>1, <2>1
  <2>4. Append(calls[s], c) # <<>>
    BY <2>1, <2>3
  <2> QED
    BY <2>1, <2>2, <2>3, <2>4
<1>3. TypeOK'
  <2>1. /\ calls' \in [Stores -> Seq(Settings!Change)]
        /\ \A t \in Stores : calls'[t] \in Seq(Changes[t[2]])
    BY <1>2 DEF TypeOK
  <2> QED
    BY <2>1 DEF TypeOK
<1>4. ASSUME NEW t \in Stores PROVE Alone(t)' /\ Fresh(t)' /\ Fallback(t)'
  <2>1. /\ calls[t] # <<>> => calls'[t] # <<>> /\ Head(calls'[t]) = Head(calls[t])
    BY <1>2 DEF TypeOK
  <2> QED
    BY <2>1 DEF Alone, Fresh, Fallback, Settings!Current
<1> QED
  BY <1>3, <1>4

LEMMA InterruptIsSafe ==
  ASSUME IInv, NEW s \in Stores, NEW i \in DOMAIN calls[s], Interrupt(s, i)
  PROVE  IInv'
<1> USE DEF IInv, Interrupt
<1>1. /\ RemoveAt(calls[s], i) \in Seq(Settings!Change)
      /\ RemoveAt(calls[s], i) \in Seq(Changes[s[2]])
      /\ i # 1 => /\ RemoveAt(calls[s], i) # <<>>
                  /\ Head(RemoveAt(calls[s], i)) = Head(calls[s])
  <2>1. calls[s] \in Seq(Settings!Change) /\ calls[s] \in Seq(Changes[s[2]])
    BY DEF TypeOK
  <2> QED
    BY <2>1, RemoveBehind
<1>2. TypeOK'
  <2>1. /\ calls' \in [Stores -> Seq(Settings!Change)]
        /\ \A t \in Stores : calls'[t] \in Seq(Changes[t[2]])
    BY <1>1 DEF TypeOK
  <2> QED
    BY <2>1 DEF TypeOK
<1>3. ASSUME NEW t \in Stores PROVE Alone(t)' /\ Fresh(t)' /\ Fallback(t)'
  <2>1. stage[t] # "waiting" =>
          calls'[t] # <<>> /\ Head(calls'[t]) = Head(calls[t])
    BY <1>1 DEF TypeOK, Alone
  <2> QED
    BY <2>1 DEF Alone, Fresh, Fallback, Settings!Current
<1> QED
  BY <1>2, <1>3

LEMMA CrashIsSafe ==
  ASSUME IInv, NEW h \in Hosts, Crash(h)
  PROVE  IInv'
<1> USE DEF IInv, Crash
<1>1. TypeOK'
  <2>1. /\ calls' \in [Stores -> Seq(Settings!Change)]
        /\ \A t \in Stores : calls'[t] \in Seq(Changes[t[2]])
    <3>1. \A S : <<>> \in Seq(S)
      OBVIOUS
    <3> QED
      BY <3>1 DEF TypeOK
  <2>2. /\ stage' \in [Stores -> Stages]
        /\ next' \in [Stores -> Settings!Record \cup {Absent}]
        /\ snapshot' \in [Stores -> Settings!File \cup {Absent}]
    BY DEF TypeOK, Stages
  <2>3. lock' \in Stores \cup {Free} /\ closing' \in BOOLEAN
    BY DEF TypeOK
  <2> QED
    BY <2>1, <2>2, <2>3 DEF TypeOK
<1>2. ASSUME NEW t \in Stores PROVE Alone(t)' /\ Fresh(t)' /\ Fallback(t)'
  <2>1. CASE t[1] = h
    BY <2>1 DEF Alone, Fresh, Fallback
  <2>2. CASE t[1] # h
    <3>1. lock = t => ~Held(h)
      BY <2>2 DEF Held, Stores
    <3> QED
      BY <2>2, <3>1 DEF Alone, Fresh, Fallback, Settings!Current
  <2> QED
    BY <2>1, <2>2
<1>3. closing' => lock' # Free
  OBVIOUS
<1> QED
  BY <1>1, <1>2, <1>3

LEMMA StartIsSafe ==
  ASSUME IInv, NEW h \in Hosts, Start(h)
  PROVE  IInv'
<1> USE DEF IInv, Start, storeVars
<1>1. live' \in [Stores -> Settings!Record]
  BY CurrentIsRecord DEF TypeOK, Stores
<1>2. TypeOK'
  BY <1>1 DEF TypeOK
<1>3. ASSUME NEW t \in Stores PROVE Alone(t)' /\ Fresh(t)' /\ Fallback(t)'
  BY DEF Alone, Fresh, Fallback, Settings!Current
<1> QED
  BY <1>2, <1>3

LEMMA StoreStepIsSafe ==
  ASSUME IInv, NEW s \in Stores, StoreStep(s)
  PROVE  IInv'
<1> USE DEF IInv
<1>1. CASE Take(s)
  <2>1. TypeOK'
    BY <1>1 DEF TypeOK, Take, Goto, Stages
  <2> QED
    BY <1>1, <2>1, WorkingIsSafe DEF TypeOK, Take, Goto, Fresh
<1>2. CASE TimesOut(s)
  BY <1>2, LeavingIsSafe DEF TypeOK, TimesOut
<1>3. CASE Taken(s)
  <2>1. TypeOK'
    BY <1>3 DEF TypeOK, Taken, Goto, Stages
  <2> QED
    BY <1>3, <2>1, WorkingIsSafe DEF TypeOK, Taken, Goto, Fresh, Alone
<1>4. CASE Plan(s)
  <2>1. Planned(s) \in Settings!Record
    BY <1>4, PlannedIsFresh DEF Plan
  <2>2. TypeOK'
    BY <1>4, <2>1 DEF TypeOK, Plan, Goto, Stages
  <2>3. Fresh(s)'
    BY <1>4, PlannedIsFresh DEF TypeOK, Plan, Goto, Fresh, Settings!Current
  <2> QED
    BY <1>4, <2>2, <2>3, WorkingIsSafe DEF TypeOK, Plan, Goto, Alone
<1>5. CASE AlreadySo(s)
  <2>1. Basis(s) = Settings!Current(s[2]) /\ Basis(s) \in Settings!Record
    BY <1>5, PlannedIsFresh DEF AlreadySo
  <2> QED
    BY <1>5, <2>1, LeavingIsSafe DEF TypeOK, AlreadySo, Alone
<1>6. CASE Unreadable(s)
  BY <1>6, LeavingIsSafe DEF TypeOK, Unreadable, Fails, Alone
<1>7. CASE Merge(s)
  <2>1. TypeOK'
    BY <1>7 DEF TypeOK, Merge, Goto, Stages
  <2>2. Fresh(s)'
    BY <1>7 DEF TypeOK, Merge, Goto, Fresh, Settings!Current
  <2> QED
    BY <1>7, <2>1, <2>2, WorkingIsSafe DEF TypeOK, Merge, Goto, Alone
<1>8. CASE Write(s)
  <2>1. /\ snapshot[s] = file /\ next[s] \in Settings!Record
        /\ s[2] \in Namespaces
    <3>1. calls[s] # <<>> /\ calls[s] \in Seq(Settings!Change)
      BY <1>8 DEF Write, Alone, TypeOK
    <3>2. s[2] \in Namespaces
      BY DEF Stores
    <3>3. Head(calls[s]) \in Settings!Change
      BY <3>1
    <3>4. /\ snapshot[s] = file
          /\ next[s] = Settings!Changed(Settings!Current(s[2]), Head(calls[s]))
      BY <1>8 DEF Write, Fresh
    <3>5. Settings!Current(s[2]) \in Settings!Record
      BY <3>2, CurrentIsRecord DEF TypeOK
    <3> QED
      BY <3>2, <3>3, <3>4, <3>5, ChangedIsRecord
  <2>2. file' = [file EXCEPT ![s[2]] = next[s]]
    BY <1>8, <2>1 DEF Write
  <2>3. TypeOK'
    BY <1>8, <2>1, <2>2 DEF TypeOK, Write, Goto, Stages, Settings!File
  <2>4. Fresh(s)'
    BY <1>8, <2>1, <2>2 DEF TypeOK, Write, Goto, Fresh, Settings!File
  <2>5. file'[s[2]] # Absent /\ \A n \in Namespaces : n # s[2] => file'[n] = file[n]
    BY <2>1, <2>2, SettingsAssumption DEF TypeOK, Settings!File
  <2> QED
    BY <1>8, <2>3, <2>4, <2>5, WorkingIsSafe DEF TypeOK, Write, Goto, Alone
<1>9. CASE Commit(s)
  <2>1. next[s] = Settings!Current(s[2]) /\ next[s] \in Settings!Record
    BY <1>9, SettingsAssumption DEF Commit, Fresh, Settings!Current
  <2> QED
    BY <1>9, <2>1, LeavingIsSafe DEF TypeOK, Commit, Alone
<1>10. CASE InterruptTaking(s)
  BY <1>10, LeavingIsSafe DEF TypeOK, InterruptTaking, Alone
<1>11. CASE IoFails(s)
  <2>1. stage[s] # "waiting" /\ calls[s] # <<>>
    BY <1>11 DEF IoFails, Alone
  <2>2. live' = live /\ file' = file /\ up' = up /\ closing' = closing
        /\ lock' = Free /\ Leave(s) /\ made' \in Nat /\ faults' \in Nat
    BY <1>11 DEF TypeOK, IoFails, Fails
  <2> QED
    BY <2>1, <2>2, LeavingIsSafe DEF TypeOK
<1> QED
  BY <1>1, <1>2, <1>3, <1>4, <1>5, <1>6, <1>7, <1>8, <1>9, <1>10, <1>11,
     CallIsSafe, InterruptIsSafe DEF StoreStep, Progress

LEMMA NextIsSafe == IInv /\ [Next]_vars => IInv'
<1> SUFFICES ASSUME IInv, [Next]_vars PROVE IInv'
  OBVIOUS
<1>1. CASE \E s \in Stores : StoreStep(s)
  BY <1>1, StoreStepIsSafe
<1>2. CASE Closed
  <2>1. \A s \in Stores : stage[s] = "waiting"
    BY <1>2 DEF IInv, Closed, Alone
  <2> QED
    BY <1>2, <2>1
    DEF IInv, TypeOK, Closed, storeVars, Alone, Fresh, Fallback, Settings!Current
<1>3. CASE \E h \in Hosts : Crash(h) \/ Start(h)
  BY <1>3, CrashIsSafe, StartIsSafe
<1>4. CASE UNCHANGED vars
  BY <1>4
  DEF vars, storeVars, IInv, TypeOK, Alone, Fresh, Fallback, Settings!Current
<1> QED
  BY <1>1, <1>2, <1>3, <1>4 DEF Next

-----------------------------------------------------------------------------
(* The theorems *)

\* The inductive invariant holds in every reachable state.
LEMMA Invariance == Spec => []IInv
BY Initially, NextIsSafe, PTL DEF Spec

\* The state of every store, of the lock and of the file stays well-formed.
THEOREM TypeCorrect == Spec => []TypeOK
<1>1. IInv => TypeOK
  BY DEF IInv
<1> QED
  BY <1>1, Invariance, PTL

\* Only a write changes the file, and what it writes is its change applied to
\* the file as it is.
LEMMA WriteIsOneChange ==
  ASSUME IInv, NEW s \in Stores, Write(s)
  PROVE  Settings!Next
<1>1. /\ calls[s] # <<>> /\ calls[s] \in Seq(Changes[s[2]])
      /\ s[2] \in Namespaces
  BY DEF IInv, TypeOK, Alone, Write, Stores
<1>2. Head(calls[s]) \in Changes[s[2]]
  BY <1>1
<1>3. Settings!Write(s[2], Head(calls[s]))
  BY DEF IInv, Fresh, Write, Settings!Write
<1> QED
  BY <1>1, <1>2, <1>3 DEF Settings!Next

\* No store takes from the file what others wrote (store.ts, file.ts): the
\* stores implement a file that changes by single atomic changes.
THEOREM AtomicWrites == Spec => WritesAreAtomic
<1>1. Init => Settings!Init
  BY DEF Init, Settings!Init
<1>2. IInv /\ [Next]_vars => [Settings!Next]_file
  <2> SUFFICES ASSUME IInv, [Next]_vars, file' # file
               PROVE  Settings!Next
    OBVIOUS
  <2>1. PICK s \in Stores : Write(s)
    BY DEF Next, vars, StoreStep, Progress, Take, TimesOut, Taken, Plan, AlreadySo,
      Unreadable, Fails, Merge, Commit, InterruptTaking, IoFails, Call, Interrupt,
      Closed, Crash, Start
  <2> QED
    BY <2>1, WriteIsOneChange
<1> QED
  BY <1>1, <1>2, Invariance, PTL DEF Spec, WritesAreAtomic, Settings!Spec

\* A value in memory changes only to what its namespace then holds (store.ts
\* replaceValue), so a store never forgets a change it has seen.
THEOREM MemoryIsCurrent == Spec => MemoryFollowsFile
<1>1. ASSUME IInv, [Next]_vars, NEW s \in Stores, live'[s] # live[s]
      PROVE  live'[s] = Settings!Current(s[2])'
  <2>1. \/ \E t \in Stores : AlreadySo(t) \/ Commit(t)
        \/ \E h \in Hosts : Start(h)
    BY <1>1
    DEF Next, vars, StoreStep, Progress, Take, TimesOut, Taken, Plan, Unreadable,
      Fails, Merge, Write, InterruptTaking, IoFails, Call, Interrupt, Closed, Crash
  <2>2. ASSUME NEW t \in Stores, AlreadySo(t)
        PROVE  live'[s] = Settings!Current(s[2])'
    <3>1. Basis(t) = Settings!Current(t[2])
      BY <1>1, <2>2, PlannedIsFresh DEF AlreadySo
    <3> QED
      BY <1>1, <2>2, <3>1 DEF AlreadySo, IInv, TypeOK, Settings!Current
  <2>3. ASSUME NEW t \in Stores, Commit(t)
        PROVE  live'[s] = Settings!Current(s[2])'
    BY <1>1, <2>3, SettingsAssumption
    DEF Commit, IInv, TypeOK, Fresh, Settings!Current
  <2>4. ASSUME NEW h \in Hosts, Start(h)
        PROVE  live'[s] = Settings!Current(s[2])'
    BY <1>1, <2>4 DEF Start, IInv, TypeOK, Settings!Current
  <2> QED
    BY <2>1, <2>2, <2>3, <2>4
<1>2. IInv /\ [Next]_vars =>
        [\A s \in Stores : live'[s] # live[s] => live'[s] = Settings!Current(s[2])']_vars
  BY <1>1
<1> QED
  BY <1>2, Invariance, PTL DEF Spec, MemoryFollowsFile

-----------------------------------------------------------------------------
(* The lease *)

\* Runners before their launch have no writer.
Before == {"idle", "create", "read", "judge", "inspect", "move", "held",
           "refused", "launch"}
Recording == {"publish", "verify", "record"}

DeadHasEnded(r) == ~alive[r] => phase[r] \in {"exited", "crashed"}

LaunchComesFirst(r) ==
  /\ phase[r] = "idle" => attempt[r] = 0
  /\ phase[r] \in Before => group[r] = "none"
  /\ phase[r] \in Recording /\ target[r] = "spawning" => group[r] = "none"

\* A record other than "running" is only made when nothing writes.
RecordFollows(r) ==
  /\ phase[r] = "publish" /\ target[r] # "running" => ~Writes(r)
  /\ phase[r] \in {"verify", "record"} /\ target[r] = "running" =>
       registry[r] = "running"
  /\ phase[r] = "open" => registry[r] = "running"
  /\ Writes(r) => registry[r] = "running"

Judged(r) ==
  /\ phase[r] \in {"create", "read", "judge", "inspect", "move"} =>
       attempt[r] < MaxAttempts
  /\ phase[r] \in {"judge", "inspect", "move"} => seen[r] \in Owner
  /\ phase[r] \in {"inspect", "move"} => ~alive[seen[r].token]
  /\ phase[r] = "move" => ~Writes(seen[r].token)

LeaseIInv ==
  /\ LeaseTypeOK
  /\ \A r \in Runners : DeadHasEnded(r) /\ LaunchComesFirst(r)
                        /\ RecordFollows(r) /\ Judged(r)

LEMMA LeaseInitially == LeaseInit => LeaseIInv
<1> SUFFICES ASSUME LeaseInit PROVE LeaseIInv
  OBVIOUS
<1>1. LeaseTypeOK
  <2>1. attempt \in [Runners -> 0 .. MaxAttempts]
    BY DEF LeaseInit, MaxAttempts
  <2>2. /\ leaseDir \in BOOLEAN /\ owner \in Owner \cup {NoOwner}
        /\ tombstones \subseteq Runners
        /\ seen \in [Runners -> Owner \cup {NoOwner}]
        /\ alive \in [Runners -> BOOLEAN]
    BY DEF LeaseInit
  <2>3. /\ phase \in [Runners -> Phase]
        /\ target \in [Runners -> WriterState]
        /\ registry \in [Runners -> WriterState]
        /\ group \in [Runners -> GroupState]
    BY DEF LeaseInit, Phase, Ended, WriterState, GroupState
  <2> QED BY <2>1, <2>2, <2>3 DEF LeaseTypeOK
<1>2. ASSUME NEW r \in Runners
      PROVE  DeadHasEnded(r) /\ LaunchComesFirst(r) /\ RecordFollows(r) /\ Judged(r)
  BY DEF LeaseInit, DeadHasEnded, LaunchComesFirst, RecordFollows, Judged, Before,
         Recording, Writes, MaxAttempts
<1> QED BY <1>1, <1>2 DEF LeaseIInv

LEMMA LeaseInductive == LeaseIInv /\ [LeaseNext]_leaseVars => LeaseIInv'
<1> SUFFICES ASSUME LeaseIInv, [LeaseNext]_leaseVars PROVE LeaseIInv'
  OBVIOUS
<1> USE NoOwnerAssumption
     DEF LeaseIInv, LeaseTypeOK, MaxAttempts, DeadHasEnded, LaunchComesFirst,
         RecordFollows, Judged, Phase, Ended, Owner, WriterState, GroupState, Before, Recording,
         Writes, Proceed, files, runners, processes
<1>1. CASE UNCHANGED leaseVars
  BY <1>1 DEF leaseVars
<1>2. ASSUME NEW r \in Runners,
             StartRunner(r) \/ RunnerStep(r) \/ CrashRunner(r) \/ GroupEnds(r) \/ SweepOrphan(r)
      PROVE  LeaseIInv'
  <2>1. CASE StartRunner(r)
    BY <2>1 DEF StartRunner
  <2>2. CASE Create(r)
    <3>1. CASE Vacant
      BY <2>2, <3>1 DEF Create
    <3>2. CASE ~Vacant
      BY <2>2, <3>2 DEF Create
    <3> QED BY <3>1, <3>2
  <2>3. CASE ReadOwner(r)
    BY <2>3 DEF ReadOwner
  <2>4. CASE JudgeRunner(r)
    BY <2>4 DEF JudgeRunner
  <2>5. CASE JudgeWriters(r)
    BY <2>5 DEF JudgeWriters, WritersAbsent
  <2>6. CASE MoveAside(r)
    <3> DEFINE t == seen[r].token
    <3>1. t \in Runners /\ attempt[r] + 1 \in 0 .. MaxAttempts
      BY <2>6 DEF MoveAside
    <3>2. LeaseTypeOK'
      <4>1. attempt' \in [Runners -> 0 .. MaxAttempts]
        BY <2>6, <3>1 DEF MoveAside
      <4>2. CASE leaseDir /\ t \notin tombstones
        <5>1. /\ leaseDir' = FALSE /\ owner' = NoOwner
              /\ tombstones' = IF owner = NoOwner THEN tombstones
                               ELSE tombstones \cup {t}
          BY <2>6, <4>2 DEF MoveAside
        <5>2. phase' \in [Runners -> Phase]
          BY <2>6 DEF MoveAside
        <5>3. tombstones' \subseteq Runners
          BY <3>1, <5>1
        <5> QED BY <2>6, <4>1, <5>1, <5>2, <5>3 DEF MoveAside
      <4>3. CASE ~(leaseDir /\ t \notin tombstones)
        BY <2>6, <3>1, <4>1, <4>3 DEF MoveAside
      <4> QED BY <4>2, <4>3
    <3>3. \A s \in Runners : Judged(s)'
      BY <2>6, <3>1 DEF MoveAside
    <3>4. \A s \in Runners : (DeadHasEnded(s) /\ LaunchComesFirst(s) /\ RecordFollows(s))'
      BY <2>6, <3>1 DEF MoveAside
    <3> QED BY <3>2, <3>3, <3>4
  <2>7. CASE BeginWork(r)
    BY <2>7 DEF BeginWork, Update
  <2>8. CASE Publish(r)
    BY <2>8 DEF Publish
  <2>9. CASE Verify(r)
    <3>1. CASE owner # NoOwner /\ owner.token = r
      BY <2>9, <3>1 DEF Verify
    <3>2. CASE ~(owner # NoOwner /\ owner.token = r)
      <4>1. CASE target[r] = "spawning"
        BY <2>9, <3>2, <4>1 DEF Verify, Update
      <4>2. CASE target[r] = "running"
        BY <2>9, <3>2, <4>2 DEF Verify
      <4>3. CASE target[r] = "none"
        BY <2>9, <3>2, <4>3 DEF Verify
      <4> QED BY <4>1, <4>2, <4>3
    <3> QED BY <3>1, <3>2
  <2>10. CASE WriteOwner(r)
    BY <2>10 DEF WriteOwner, NextAfter
  <2>11. CASE Launch(r)
    BY <2>11 DEF Launch, Update
  <2>12. CASE OpenGate(r)
    BY <2>12 DEF OpenGate
  <2>13. CASE RecoverGroup(r)
    BY <2>13 DEF RecoverGroup, Update
  <2>14. CASE Finish(r)
    BY <2>14 DEF Finish
  <2>15. CASE ReleaseRead(r)
    BY <2>15 DEF ReleaseRead
  <2>16. CASE Unlink(r)
    BY <2>16 DEF Unlink
  <2>17. CASE RemoveDirectory(r)
    BY <2>17 DEF RemoveDirectory
  <2>18. CASE Exit(r)
    BY <2>18 DEF Exit
  <2>19. CASE CrashRunner(r)
    BY <2>19 DEF CrashRunner
  <2>20. CASE GroupEnds(r)
    BY <2>20 DEF GroupEnds
  <2>21. CASE SweepOrphan(r)
    BY <2>21 DEF SweepOrphan, WritersAbsent
  <2> QED BY <1>2, <2>1, <2>2, <2>3, <2>4, <2>5, <2>6, <2>7, <2>8, <2>9, <2>10, <2>11, <2>12, <2>13, <2>14, <2>15, <2>16, <2>17, <2>18, <2>19, <2>20, <2>21 DEF RunnerStep
<1> QED BY <1>1, <1>2 DEF LeaseNext

\* What judging, launching and recording established holds in every reachable
\* state.
THEOREM LeaseInvariance == LeaseSpec => []LeaseIInv
<1> QED BY LeaseInitially, LeaseInductive, PTL DEF LeaseSpec

\* Every variable keeps its type; no runner makes a fifth attempt.
THEOREM LeaseTypeCorrect == LeaseSpec => []LeaseTypeOK
<1>1. LeaseIInv => LeaseTypeOK
  BY DEF LeaseIInv
<1> QED BY <1>1, LeaseInvariance, PTL

\* A writer that works is found in the registry of its run by whoever
\* inspects it, whatever crashed.
THEOREM WorkRecorded == LeaseSpec => []WorkIsRecorded
<1>1. LeaseIInv => WorkIsRecorded
  BY DEF LeaseIInv, RecordFollows, WorkIsRecorded
<1> QED BY <1>1, LeaseInvariance, PTL

\* demonstrablyStale proves what it claims: the owner that was read is dead
\* and its writers are gone when the lease is moved.
THEOREM TakeoverProved == LeaseSpec => TakeoverIsProved
<1>1. LeaseIInv => \A r \in Runners : MoveAside(r) => ~alive[seen[r].token] /\ ~Writes(seen[r].token)
  BY DEF LeaseIInv, Judged, MoveAside
<1>2. LeaseIInv /\ [LeaseNext]_leaseVars => [\A r \in Runners : MoveAside(r) => ~alive[seen[r].token] /\ ~Writes(seen[r].token)]_leaseVars
  BY <1>1
<1> QED BY <1>2, LeaseInvariance, PTL DEF LeaseSpec, TakeoverIsProved

-----------------------------------------------------------------------------
(* Mutual exclusion *)

Acquiring == {"idle", "create", "read", "judge", "inspect", "move"}
Holding == {"held", "publish", "verify", "record", "launch", "open", "wait",
            "finish", "release", "unlink"}

Owns(r) == owner # NoOwner /\ owner.token = r

\* A runner that still acquires the lease has no owner.json of its own.
Latecomers == \A r \in Runners : phase[r] \in Acquiring => ~Owns(r)

LEMMA LatecomersStay ==
  LeaseIInv /\ Latecomers /\ [LeaseNext]_leaseVars => Latecomers'
<1> SUFFICES ASSUME LeaseIInv, Latecomers, [LeaseNext]_leaseVars PROVE Latecomers'
  OBVIOUS
<1> USE NoOwnerAssumption
    DEF LeaseIInv, LeaseTypeOK, Latecomers, Acquiring, Owns, Owner, Ended, Proceed,
        files, runners, processes
<1>1. CASE UNCHANGED leaseVars
  BY <1>1 DEF leaseVars
<1>2. ASSUME NEW r \in Runners,
             \/ StartRunner(r) \/ ReadOwner(r) \/ JudgeRunner(r) \/ JudgeWriters(r)
             \/ BeginWork(r) \/ Publish(r) \/ Verify(r) \/ Launch(r) \/ OpenGate(r)
             \/ RecoverGroup(r) \/ Finish(r) \/ ReleaseRead(r) \/ RemoveDirectory(r)
             \/ Exit(r) \/ CrashRunner(r) \/ GroupEnds(r) \/ SweepOrphan(r)
      PROVE  Latecomers'
  <2>1. owner' = owner
    BY <1>2
    DEF StartRunner, ReadOwner, JudgeRunner, JudgeWriters, BeginWork, Publish, Verify,
        Launch, OpenGate, RecoverGroup, Finish, ReleaseRead, RemoveDirectory, Exit,
        CrashRunner, GroupEnds, SweepOrphan
  <2>2. \A s \in Runners : phase'[s] \in Acquiring => phase[s] \in Acquiring
    <3>1. CASE StartRunner(r)
      BY <3>1 DEF StartRunner
    <3>2. CASE ReadOwner(r)
      BY <3>2 DEF ReadOwner
    <3>3. CASE JudgeRunner(r)
      BY <3>3 DEF JudgeRunner
    <3>4. CASE JudgeWriters(r)
      BY <3>4 DEF JudgeWriters
    <3>5. CASE BeginWork(r)
      BY <3>5 DEF BeginWork, Update
    <3>6. CASE Publish(r)
      BY <3>6 DEF Publish
    <3>7. CASE Verify(r)
      <4>1. CASE Owns(r)
        BY <3>7, <4>1 DEF Verify
      <4>2. CASE ~Owns(r) /\ target[r] = "spawning"
        BY <3>7, <4>2 DEF Verify, Update
      <4>3. CASE ~Owns(r) /\ target[r] = "running"
        BY <3>7, <4>3 DEF Verify
      <4>4. CASE ~Owns(r) /\ target[r] = "none"
        BY <3>7, <4>4 DEF Verify
      <4> QED BY <4>1, <4>2, <4>3, <4>4 DEF WriterState
    <3>8. CASE Launch(r)
      BY <3>8 DEF Launch, Update
    <3>9. CASE OpenGate(r)
      BY <3>9 DEF OpenGate
    <3>10. CASE RecoverGroup(r)
      BY <3>10 DEF RecoverGroup, Update
    <3>11. CASE Finish(r)
      BY <3>11 DEF Finish
    <3>12. CASE ReleaseRead(r)
      BY <3>12 DEF ReleaseRead
    <3>13. CASE RemoveDirectory(r)
      BY <3>13 DEF RemoveDirectory
    <3>14. CASE Exit(r)
      BY <3>14 DEF Exit
    <3>15. CASE CrashRunner(r)
      BY <3>15 DEF CrashRunner
    <3>16. CASE GroupEnds(r)
      BY <3>16 DEF GroupEnds
    <3>17. CASE SweepOrphan(r)
      BY <3>17 DEF SweepOrphan
    <3> QED BY <1>2, <3>1, <3>2, <3>3, <3>4, <3>5, <3>6, <3>7, <3>8, <3>9, <3>10, <3>11, <3>12, <3>13, <3>14, <3>15, <3>16, <3>17
  <2> QED BY <2>1, <2>2
<1>3. ASSUME NEW r \in Runners, Create(r) PROVE Latecomers'
  BY <1>3 DEF Create, Vacant
<1>4. ASSUME NEW r \in Runners, MoveAside(r) PROVE Latecomers'
  BY <1>4 DEF MoveAside
<1>5. ASSUME NEW r \in Runners, WriteOwner(r) PROVE Latecomers'
  BY <1>5 DEF WriteOwner, NextAfter, WriterState
<1>6. ASSUME NEW r \in Runners, Unlink(r) PROVE Latecomers'
  BY <1>6 DEF Unlink
<1> QED
  BY <1>1, <1>2, <1>3, <1>4, <1>5, <1>6 DEF LeaseNext, RunnerStep

LEMMA NoLatecomerOwns == LeaseSpec => []Latecomers
<1>1. LeaseInit => Latecomers
  BY DEF LeaseInit, Latecomers, Owns
<1> QED
  BY <1>1, LatecomersStay, LeaseInvariance, PTL DEF LeaseSpec

\* Who works under the lease, and whose writer writes, is its owner.
Exclusive(r) ==
  /\ phase[r] \in Holding \/ Writes(r) => Owns(r)
  /\ phase[r] \in {"release", "unlink"} => ~Writes(r)

\* rename(2) moves the lease that was read, or a directory that is empty now.
TakesWhatItRead ==
  \A r \in Runners : MoveAside(r) => owner = NoOwner \/ owner.token = seen[r].token

LEMMA ExclusionIsKept ==
  ASSUME LeaseIInv, \A s \in Runners : Exclusive(s),
         [LeaseNext]_leaseVars, [TakesWhatItRead]_leaseVars
  PROVE  \A s \in Runners : Exclusive(s)'
<1> USE NoOwnerAssumption
    DEF LeaseIInv, LeaseTypeOK, Exclusive, Holding, Owns, Owner, Ended, Proceed, Writes,
        DeadHasEnded, RecordFollows, LaunchComesFirst, Before, files, runners, processes
<1>1. CASE UNCHANGED leaseVars
  BY <1>1 DEF leaseVars
<1>2. ASSUME NEW r \in Runners,
             \/ StartRunner(r) \/ ReadOwner(r) \/ JudgeRunner(r) \/ JudgeWriters(r)
             \/ BeginWork(r) \/ Publish(r) \/ Verify(r) \/ RemoveDirectory(r)
             \/ ReleaseRead(r) \/ Exit(r) \/ CrashRunner(r) \/ SweepOrphan(r)
      PROVE  \A s \in Runners : Exclusive(s)'
  <2>1. owner' = owner /\ group' = group
    BY <1>2
    DEF StartRunner, ReadOwner, JudgeRunner, JudgeWriters, BeginWork, Publish, Verify,
        ReleaseRead, RemoveDirectory, Exit, CrashRunner, SweepOrphan
  <2>2. \A s \in Runners :
          /\ phase'[s] \in Holding => phase[s] \in Holding
          /\ phase'[s] \in {"release", "unlink"} => phase[s] \in {"release", "unlink"}
    <3>1. CASE StartRunner(r)
      BY <3>1 DEF StartRunner
    <3>2. CASE ReadOwner(r)
      BY <3>2 DEF ReadOwner
    <3>3. CASE JudgeRunner(r)
      BY <3>3 DEF JudgeRunner
    <3>4. CASE JudgeWriters(r)
      BY <3>4 DEF JudgeWriters
    <3>5. CASE BeginWork(r)
      BY <3>5 DEF BeginWork, Update
    <3>6. CASE Publish(r)
      BY <3>6 DEF Publish
    <3>7. CASE Verify(r)
      <4>1. CASE Owns(r)
        BY <3>7, <4>1 DEF Verify
      <4>2. CASE ~Owns(r) /\ target[r] = "spawning"
        BY <3>7, <4>2 DEF Verify, Update
      <4>3. CASE ~Owns(r) /\ target[r] = "running"
        BY <3>7, <4>3 DEF Verify
      <4>4. CASE ~Owns(r) /\ target[r] = "none"
        BY <3>7, <4>4 DEF Verify
      <4> QED BY <4>1, <4>2, <4>3, <4>4 DEF WriterState
    <3>8. CASE RemoveDirectory(r)
      BY <3>8 DEF RemoveDirectory
    <3>9. CASE ReleaseRead(r)
      BY <3>9 DEF ReleaseRead
    <3>10. CASE Exit(r)
      BY <3>10 DEF Exit
    <3>11. CASE CrashRunner(r)
      BY <3>11 DEF CrashRunner
    <3>12. CASE SweepOrphan(r)
      BY <3>12 DEF SweepOrphan
    <3> QED BY <1>2, <3>1, <3>2, <3>3, <3>4, <3>5, <3>6, <3>7, <3>8, <3>9, <3>10, <3>11, <3>12
  <2> QED BY <2>1, <2>2
<1>3. ASSUME NEW r \in Runners, Create(r) PROVE \A s \in Runners : Exclusive(s)'
  <2>1. CASE Vacant
    <3>1. \A s \in Runners : phase[s] \notin Holding /\ ~Writes(s)
      BY <2>1 DEF Vacant
    <3>2. owner'.token = r /\ owner' # NoOwner /\ group' = group
      <4>1. owner' = [token |-> r, writer |-> "none"] /\ group' = group
        BY <1>3, <2>1 DEF Create
      <4> QED BY <4>1 DEF WriterState
    <3>3. \A s \in Runners : phase'[s] \in Holding => s = r
      BY <1>3, <2>1, <3>1 DEF Create
    <3>4. phase'[r] = "held"
      BY <1>3, <2>1 DEF Create
    <3> QED BY <3>1, <3>2, <3>3, <3>4
  <2>2. CASE ~Vacant
    BY <1>3, <2>2 DEF Create
  <2> QED BY <2>1, <2>2
<1>4. ASSUME NEW r \in Runners, MoveAside(r) PROVE \A s \in Runners : Exclusive(s)'
  <2>1. phase[r] = "move" /\ phase'[r] # "move"
    BY <1>4 DEF MoveAside
  <2>2. leaseVars' # leaseVars
    BY <2>1 DEF leaseVars
  <2>3. owner = NoOwner \/ owner.token = seen[r].token
    BY <1>4, <2>2 DEF TakesWhatItRead
  <2>4. ~alive[seen[r].token] /\ ~Writes(seen[r].token) /\ seen[r].token \in Runners
    BY <2>1 DEF Judged
  <2>5. \A s \in Runners : Owns(s) => ~alive[s] /\ ~Writes(s)
    BY <2>3, <2>4
  <2>6. \A s \in Runners : phase[s] \notin Holding /\ ~Writes(s)
    BY <2>5
  <2> QED BY <1>4, <2>6 DEF MoveAside
<1>5. ASSUME NEW r \in Runners, WriteOwner(r) PROVE \A s \in Runners : Exclusive(s)'
  BY <1>5 DEF WriteOwner, NextAfter, WriterState
<1>6. ASSUME NEW r \in Runners, Launch(r) PROVE \A s \in Runners : Exclusive(s)'
  BY <1>6 DEF Launch, Update
<1>7. ASSUME NEW r \in Runners, OpenGate(r) PROVE \A s \in Runners : Exclusive(s)'
  BY <1>7 DEF OpenGate
<1>8. ASSUME NEW r \in Runners, RecoverGroup(r) PROVE \A s \in Runners : Exclusive(s)'
  BY <1>8 DEF RecoverGroup, Update
<1>9. ASSUME NEW r \in Runners, Finish(r) PROVE \A s \in Runners : Exclusive(s)'
  BY <1>9 DEF Finish, MayRelease, WritersAbsent
<1>10. ASSUME NEW r \in Runners, Unlink(r) PROVE \A s \in Runners : Exclusive(s)'
  BY <1>10 DEF Unlink
<1>11. ASSUME NEW r \in Runners, GroupEnds(r) PROVE \A s \in Runners : Exclusive(s)'
  BY <1>11 DEF GroupEnds
<1> QED
  BY <1>1, <1>2, <1>3, <1>4, <1>5, <1>6, <1>7, <1>8, <1>9, <1>10, <1>11
  DEF LeaseNext, RunnerStep

\* For any number of runners, two of them write to the session file at the
\* same time only after a takeover renamed a lease other than the one it had
\* read.  Crashes, releases and the reads before a write of owner.json never
\* suffice.
THEOREM ExclusionUpToRename ==
  LeaseSpec /\ [][TakesWhatItRead]_leaseVars => []OneWriter
<1> DEFINE Excl == \A s \in Runners : Exclusive(s)
<1>1. LeaseInit => Excl
  BY DEF LeaseInit, Exclusive, Holding, Writes
<1>2. LeaseIInv /\ Excl /\ [LeaseNext]_leaseVars /\ [TakesWhatItRead]_leaseVars => Excl'
  BY ExclusionIsKept
<1>3. Excl => OneWriter
  BY DEF Exclusive, Owns, OneWriter
<1> HIDE DEF Excl
<1> QED
  BY <1>1, <1>2, <1>3, LeaseInvariance, PTL DEF LeaseSpec

\* Two runners alone cannot meet that case: whoever takes over is not the owner,
\* so the lease it renames is the one of the other runner, which it read.
THEOREM TwoRunnersExclude ==
  ASSUME NEW a, NEW b, Runners = {a, b}
  PROVE  LeaseSpec => []OneWriter
<1>1. LeaseIInv /\ Latecomers => [TakesWhatItRead]_leaseVars
  <2> SUFFICES ASSUME LeaseIInv, Latecomers, NEW r \in Runners, MoveAside(r),
                      owner # NoOwner
               PROVE  owner.token = seen[r].token
    BY DEF TakesWhatItRead
  <2>1. phase[r] = "move" /\ alive[r]
    BY DEF MoveAside, LeaseIInv, DeadHasEnded
  <2>2. seen[r].token \in Runners /\ ~alive[seen[r].token]
    BY <2>1 DEF LeaseIInv, Judged, Owner
  <2>3. owner.token \in Runners /\ owner.token # r
    BY <2>1 DEF LeaseIInv, LeaseTypeOK, Latecomers, Acquiring, Owns, Owner
  <2> QED BY <2>1, <2>2, <2>3
<1>2. LeaseSpec => [][TakesWhatItRead]_leaseVars
  BY <1>1, LeaseInvariance, NoLatecomerOwns, PTL
<1> QED
  BY <1>2, ExclusionUpToRename, PTL
=============================================================================
