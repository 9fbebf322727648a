------------------------ MODULE ResultDeliveryProofs ------------------------
(***************************************************************************)
(* Proofs about ResultDelivery, for any number of Hosts, versions of the   *)
(* result file, changes of Session, crashes and failed operations: what a  *)
(* delivery record says has happened, and a result file goes only after    *)
(* its delivery.  The invariant carries what every attempt, every late     *)
(* operation, every record and every memory of a Host claims.  What is     *)
(* told, and to whom, has invariants of its own at the end.                *)
(***************************************************************************)
EXTENDS ResultDelivery, TLAPS

\* The outcome reached the Session or the addressee.
Brought == InSession \/ acked # {}

\* A delivery is over, and announced.
Announced == Brought /\ emitted # {}

\* What the flags of a version claim.
Claims(version, flags) ==
  /\ flags.accepted => Brought
  /\ flags.emitted => version \in emitted
  /\ flags.intercom => ~addressed \/ version \in acked
  /\ flags.taken => version \in acked

\* Where an attempt has read nothing yet.
Blank == {"none", "read"}

\* What the place of an attempt claims of its flags, and of what happened.
Reached(place, flags) ==
  /\ place \in Blank => flags = NoFlags
  /\ place \in {"accepted", "mark", "emitted", "finish"} => flags.accepted
  /\ place \in {"emitted", "finish"} => flags.emitted
  /\ place = "dispose" => Announced
  /\ place \in {"remove", "compare", "unrecord"} => Announced /\ proof

\* The place of an attempt, or of an operation that outlives it.
Place(a) ==
  /\ a.ready => proof
  /\ a.at \notin Blank => a.version # NoFile
  /\ Reached(a.at, a.flags)

Honest(a) == Claims(a.version, a.flags) /\ Place(a)

\* What a Host remembers of the key.
Remembers(h) == seen[h] # "no" \/ owed[h] => Announced

\* What the notifier of a Host remembers of its delivery.
Notified(h) ==
  /\ pending[h] = "observed" => told[h] > 0
  /\ delivered[h] \/ answer[h] = "yes" => InSession

IInv ==
  /\ TypeOK
  /\ \A h \in Hosts : Honest(attempt[h]) /\ Remembers(h) /\ Notified(h)
  /\ \A op \in late : Honest(op[2])
  /\ Claims(record.digest, record.flags)
  /\ gone => Announced /\ proof

\* What happened stays.
Grows ==
  /\ InSession => InSession'
  /\ acked \subseteq acked' /\ emitted \subseteq emitted'
  /\ proof => proof'
  /\ ~addressed => ~addressed'

-----------------------------------------------------------------------------

LEMMA ClaimsStay ==
  ASSUME NEW v, NEW flags, Claims(v, flags), Grows
  PROVE  Claims(v, flags)'
<1>1. Brought => Brought'
  BY DEF Brought, Grows
<1>2. v \in emitted => v \in emitted'
  BY DEF Grows
<1>3. v \in acked => v \in acked'
  BY DEF Grows
<1>4. ~addressed => ~addressed'
  BY DEF Grows
<1>. QED BY Zenon, <1>1, <1>2, <1>3, <1>4 DEF Claims

LEMMA AnnouncedStays ==
  ASSUME Grows, Announced
  PROVE  Announced'
BY DEF Announced, Brought, Grows

LEMMA PlaceStays ==
  ASSUME NEW a, Place(a), Grows
  PROVE  Place(a)'
<1>1. Announced => Announced'
  BY AnnouncedStays
<1>2. proof => proof'
  BY DEF Grows
<1>. QED BY Zenon, <1>1, <1>2 DEF Place, Reached

LEMMA HonestStays ==
  ASSUME NEW a, Honest(a), Grows
  PROVE  Honest(a)'
BY ClaimsStay, PlaceStays DEF Honest

LEMMA Initially == Init => IInv
<1> SUFFICES ASSUME Init PROVE IInv
  OBVIOUS
<1>1. NoFlags \in Flags /\ NoAttempt \in Attempts
  BY VersionsAssumption DEF NoFlags, Flags, NoAttempt, Attempts, Places, NoFile
<1>2. TypeOK
  <2>1. NotifierTypeOK
    <3>1. told = [h \in Hosts |-> 0] => told \in [Hosts -> Nat]
      OBVIOUS
    <3>. QED BY <3>1 DEF Init, NotifierInit, NotifierTypeOK
  <2>2. record \in [digest : 0 .. MaxVersions, flags : Flags]
    BY <1>1, VersionsAssumption DEF Init, NoRecord, NoFile
  <2>3. /\ published \in 0 .. MaxVersions /\ result \in 0 .. MaxVersions
        /\ moves \in 0 .. MaxMoves
        /\ ignored \in [Hosts -> 0 .. MaxVersions]
    BY VersionsAssumption DEF Init, NoFile
  <2>4. addressed \in BOOLEAN
    BY VersionsAssumption DEF Init
  <2>5. attempt \in [Hosts -> Attempts]
    BY <1>1 DEF Init
  <2>. QED BY <2>1, <2>2, <2>3, <2>4, <2>5 DEF Init, TypeOK
<1>3. Honest(NoAttempt)
  BY DEF Honest, Claims, Place, Reached, Blank, NoAttempt, NoFlags
<1>4. Claims(record.digest, record.flags)
  BY DEF Init, NoRecord, NoFlags, Claims
<1>. QED BY <1>2, <1>3, <1>4
     DEF Init, NotifierInit, IInv, Remembers, Notified

-----------------------------------------------------------------------------
(* The notifier *)

\* The part of TypeOK that is about the result file.
DeliveryTypeOK ==
  /\ published \in 0 .. MaxVersions /\ result \in 0 .. MaxVersions
  /\ aside \subseteq Versions
  /\ record \in [digest : 0 .. MaxVersions, flags : Flags]
  /\ claim \in Hosts \cup {Nobody}
  /\ proof \in BOOLEAN /\ addressed \in BOOLEAN
  /\ seen \in [Hosts -> {"no", "new", "old"}]
  /\ owed \in [Hosts -> BOOLEAN] /\ queued \in [Hosts -> BOOLEAN]
  /\ ignored \in [Hosts -> 0 .. MaxVersions]
  /\ attempt \in [Hosts -> Attempts]
  /\ late \subseteq Hosts \X Attempts
  /\ moves \in 0 .. MaxMoves
  /\ acked \subseteq Versions /\ emitted \subseteq Versions /\ gone \in BOOLEAN

LEMMA SplitTypes == TypeOK <=> NotifierTypeOK /\ DeliveryTypeOK
BY DEF TypeOK, DeliveryTypeOK

NotifierInv == NotifierTypeOK /\ \A h \in Hosts : Notified(h)

\* The end of a delivery by the notifier.
LEMMA FinishKeeps ==
  ASSUME NotifierInv, NEW h \in Hosts, NEW accepted \in BOOLEAN, NEW saved \in BOOLEAN,
         Finish(h, accepted, saved), UNCHANGED told
  PROVE  /\ pending' \in [Hosts -> {"none", "waiting", "submitted", "observed"}]
         /\ answer' \in [Hosts -> {"none", "yes", "no"}]
         /\ delivered' \in [Hosts -> BOOLEAN] /\ row' \in BOOLEAN
         /\ InSession => InSession'
         /\ \A g \in Hosts : Notified(g)'
<1>1. /\ pending \in [Hosts -> {"none", "waiting", "submitted", "observed"}]
      /\ answer \in [Hosts -> {"none", "yes", "no"}]
      /\ delivered \in [Hosts -> BOOLEAN] /\ row \in BOOLEAN
      /\ told \in [Hosts -> Nat]
  BY DEF NotifierInv, NotifierTypeOK
<1>. DEFINE stands == accepted /\ (saved \/ pending[h] = "observed")
<1>2. /\ pending' = [pending EXCEPT ![h] = "none"]
      /\ answer' = [answer EXCEPT ![h] = IF stands THEN "yes" ELSE "no"]
      /\ delivered' = [delivered EXCEPT ![h] = delivered[h] \/ stands]
      /\ row' = (row \/ (accepted /\ saved))
  BY DEF Finish, Set
<1>3. stands => InSession'
  <2>1. CASE accepted /\ saved
    BY <1>2, <2>1 DEF InSession
  <2>2. CASE pending[h] = "observed"
    <3>1. told'[h] > 0
      BY <2>2 DEF NotifierInv, Notified
    <3>. QED BY <3>1 DEF InSession
  <2>. QED BY <2>1, <2>2
<1>4. InSession => InSession'
  BY <1>2 DEF InSession
<1>5. stands \in BOOLEAN
  OBVIOUS
<1>. HIDE DEF stands
<1>6. ASSUME NEW g \in Hosts PROVE Notified(g)'
  BY <1>1, <1>2, <1>3, <1>4, <1>5 DEF NotifierInv, Notified
<1>7. /\ pending' \in [Hosts -> {"none", "waiting", "submitted", "observed"}]
      /\ answer' \in [Hosts -> {"none", "yes", "no"}]
      /\ delivered' \in [Hosts -> BOOLEAN] /\ row' \in BOOLEAN
  BY <1>1, <1>2, <1>5
<1>. QED BY <1>4, <1>6, <1>7

-----------------------------------------------------------------------------
(* What a step keeps, put together *)

LEMMA Remembered ==
  ASSUME IInv, Grows, NEW h \in Hosts,
         seen'[h] # "no" \/ owed'[h] => seen[h] # "no" \/ owed[h]
  PROVE  Remembers(h)'
<1>1. Announced => Announced'
  BY AnnouncedStays
<1>. QED BY <1>1 DEF IInv, Remembers

LEMMA Combine ==
  ASSUME IInv, TypeOK', Grows,
         \A h \in Hosts : Notified(h)' /\ Remembers(h)',
         \A h \in Hosts : attempt'[h] = attempt[h] \/ Honest(attempt[h])',
         \A op \in late' : op \in late \/ Honest(op[2])',
         record' = record \/ Claims(record.digest, record.flags)',
         gone' => gone \/ (Announced /\ proof)'
  PROVE  IInv'
<1>1. ASSUME NEW h \in Hosts PROVE Honest(attempt[h])'
  <2>1. CASE attempt'[h] = attempt[h]
    <3>1. PICK a : a = attempt[h]
      OBVIOUS
    <3>2. Honest(a)'
      BY <3>1, HonestStays DEF IInv
    <3>. QED BY <2>1, <3>1, <3>2
  <2>. QED BY <2>1
<1>2. ASSUME NEW op \in late' PROVE Honest(op[2])'
  <2>1. CASE op \in late
    BY <2>1, HonestStays DEF IInv
  <2>. QED BY <2>1
<1>3. Claims(record.digest, record.flags)'
  <2>1. CASE record' = record
    <3>1. PICK v, flags : v = record.digest /\ flags = record.flags
      OBVIOUS
    <3>2. Claims(v, flags)'
      BY <3>1, ClaimsStay DEF IInv
    <3>. QED BY <2>1, <3>1, <3>2
  <2>. QED BY <2>1
<1>4. gone' => Announced' /\ proof'
  <2>1. Announced => Announced'
    BY AnnouncedStays
  <2>2. proof => proof'
    BY DEF Grows
  <2>. QED BY <2>1, <2>2 DEF IInv
<1>. QED BY <1>1, <1>2, <1>3, <1>4 DEF IInv

\* The types of what a Host watches.
WatchTypeOK ==
  /\ seen \in [Hosts -> {"no", "new", "old"}]
  /\ owed \in [Hosts -> BOOLEAN] /\ queued \in [Hosts -> BOOLEAN]
  /\ ignored \in [Hosts -> 0 .. MaxVersions]
  /\ claim \in Hosts \cup {Nobody} /\ moves \in 0 .. MaxMoves

\* One attempt goes somewhere.
Goes(h) == \E a \in Attempts : Honest(a) /\ attempt' = Set(attempt, h, a)

\* A step that leaves the files alone and takes one attempt somewhere.
LEMMA Moves ==
  ASSUME IInv, NotifierTypeOK', InSession => InSession',
         \A g \in Hosts : Notified(g)',
         NEW h \in Hosts, Goes(h), WatchTypeOK',
         \A g \in Hosts : seen'[g] # "no" \/ owed'[g] => seen[g] # "no" \/ owed[g],
         late' \subseteq late \cup {<<h, attempt[h]>>},
         UNCHANGED <<files, history>>
  PROVE  IInv'
<1>. PICK a \in Attempts : Honest(a) /\ attempt' = Set(attempt, h, a)
  BY DEF Goes
<1>1. attempt \in [Hosts -> Attempts] /\ late \subseteq Hosts \X Attempts
  BY DEF IInv, TypeOK
<1>2. attempt' \in [Hosts -> Attempts]
  BY <1>1 DEF Set
<1>3. late' \subseteq Hosts \X Attempts
  BY <1>1
<1>4. TypeOK'
  <2>1. /\ published' \in 0 .. MaxVersions /\ result' \in 0 .. MaxVersions
        /\ aside' \subseteq Versions
        /\ record' \in [digest : 0 .. MaxVersions, flags : Flags]
        /\ proof' \in BOOLEAN /\ addressed' \in BOOLEAN
        /\ acked' \subseteq Versions /\ emitted' \subseteq Versions /\ gone' \in BOOLEAN
    BY DEF IInv, TypeOK, files, history
  <2>. QED BY <1>2, <1>3, <2>1 DEF TypeOK, WatchTypeOK
<1>5. Grows
  BY DEF Grows, files, history, IInv, TypeOK
<1>6. ASSUME NEW g \in Hosts PROVE Notified(g)' /\ Remembers(g)'
  BY <1>5, Remembered
<1>7. ASSUME NEW g \in Hosts PROVE attempt'[g] = attempt[g] \/ Honest(attempt[g])'
  <2>1. CASE g = h
    <3>1. attempt'[g] = a
      BY <1>1, <2>1 DEF Set
    <3>2. Honest(a)'
      BY <1>5, HonestStays
    <3>. QED BY <3>1, <3>2
  <2>2. CASE g # h
    BY <1>1, <2>2 DEF Set
  <2>. QED BY <2>1, <2>2
<1>8. ASSUME NEW op \in late' PROVE op \in late \/ Honest(op[2])'
  <2>1. CASE op = <<h, attempt[h]>>
    <3>1. Honest(op[2])
      BY <2>1 DEF IInv
    <3>. QED BY <1>5, <3>1, HonestStays
  <2>. QED BY <2>1
<1>9. record' = record /\ gone' = gone
  BY DEF files, history
<1>. QED BY <1>4, <1>5, <1>6, <1>7, <1>8, <1>9, Combine

\* A step that leaves the notifier alone.
LEMMA NotifierSame ==
  ASSUME IInv, UNCHANGED <<hostVars, notifierVars>>
  PROVE  NotifierTypeOK' /\ (InSession => InSession') /\ \A g \in Hosts : Notified(g)'
<1>1. NotifierTypeOK /\ \A g \in Hosts : Notified(g)
  BY DEF IInv, TypeOK
<1>2. NotifierTypeOK'
  BY <1>1 DEF NotifierTypeOK, hostVars, notifierVars, calm
<1>3. InSession' = InSession
  BY DEF InSession, notifierVars, calm
<1>4. ASSUME NEW g \in Hosts PROVE Notified(g)'
  BY <1>1, <1>3 DEF Notified, notifierVars, calm
<1>. QED BY <1>2, <1>3, <1>4

LEMMA NotifierFaults ==
  ASSUME IInv, Fault, UNCHANGED <<hostVars, calm>>
  PROVE  NotifierTypeOK' /\ (InSession => InSession') /\ \A g \in Hosts : Notified(g)'
<1>1. NotifierTypeOK /\ \A g \in Hosts : Notified(g)
  BY DEF IInv, TypeOK
<1>2. NotifierTypeOK'
  BY <1>1, BoundsAssumption DEF NotifierTypeOK, hostVars, calm, Fault
<1>3. InSession' = InSession
  BY DEF InSession, calm
<1>4. ASSUME NEW g \in Hosts PROVE Notified(g)'
  BY <1>1, <1>3 DEF Notified, calm
<1>. QED BY <1>2, <1>3, <1>4

LEMMA WatchSame ==
  ASSUME IInv, UNCHANGED <<seen, owed, queued, ignored, claim, moves>>
  PROVE  WatchTypeOK'
BY DEF IInv, TypeOK, WatchTypeOK

LEMMA Stays ==
  ASSUME IInv, NEW h \in Hosts, UNCHANGED attempt
  PROVE  Goes(h)
BY DEF IInv, TypeOK, Goes, Set

LEMMA GoneTo ==
  ASSUME IInv, NEW h \in Hosts, NEW place \in Places, Goto(h, place),
         place \notin Blank, attempt[h].at \notin Blank,
         Reached(place, attempt[h].flags)
  PROVE  Goes(h)
<1>1. PICK a : a = [attempt[h] EXCEPT !.at = place]
  OBVIOUS
<1>2. attempt[h] \in Attempts /\ Honest(attempt[h])
  BY DEF IInv, TypeOK
<1>3. a \in Attempts /\ attempt' = Set(attempt, h, a)
  BY <1>1, <1>2 DEF Goto, Set, Attempts
<1>4. /\ a.at = place /\ a.version = attempt[h].version
      /\ a.flags = attempt[h].flags /\ a.ready = attempt[h].ready
  BY <1>1, <1>2 DEF Attempts
<1>5. Honest(a)
  BY <1>2, <1>4 DEF Honest, Place
<1>. QED BY <1>3, <1>5 DEF Goes

LEMMA Ended ==
  ASSUME IInv, NEW h \in Hosts, End(h)
  PROVE  Goes(h) /\ claim' \in Hosts \cup {Nobody}
<1>1. NoAttempt \in Attempts
  BY VersionsAssumption DEF NoAttempt, NoFlags, Flags, Attempts, Places, NoFile
<1>2. Honest(NoAttempt)
  BY DEF Honest, Claims, Place, Reached, Blank, NoAttempt, NoFlags
<1>. QED BY <1>1, <1>2 DEF Goes, End

-----------------------------------------------------------------------------
(* The steps of the notifier *)

LEMMA VerdictKeeps ==
  ASSUME NotifierInv, NEW h \in Hosts, Accept(h) \/ Refuse(h), UNCHANGED told
  PROVE  /\ pending' \in [Hosts -> {"none", "waiting", "submitted", "observed"}]
         /\ answer' \in [Hosts -> {"none", "yes", "no"}]
         /\ delivered' \in [Hosts -> BOOLEAN] /\ row' \in BOOLEAN /\ faults' \in Nat
         /\ InSession => InSession'
         /\ \A g \in Hosts : Notified(g)'
<1>1. faults' \in Nat
  <2>1. faults \in Nat
    BY DEF NotifierInv, NotifierTypeOK
  <2>2. UNCHANGED faults \/ Fault
    BY Zenon DEF Accept, Refuse
  <2>. QED BY <2>1, <2>2 DEF Fault
<1>2. CASE Accept(h)
  BY <1>1, <1>2, FinishKeeps DEF Accept
<1>3. CASE Refuse(h)
  BY <1>1, <1>3, FinishKeeps DEF Refuse
<1>. QED BY <1>2, <1>3

\* Nothing is decided, and nothing is told.
LEMMA Undecided ==
  ASSUME NotifierInv, UNCHANGED <<answer, delivered, row, told>>,
         \A g \in Hosts : pending'[g] = "observed" => pending[g] = "observed"
  PROVE  (InSession => InSession') /\ \A g \in Hosts : Notified(g)'
<1>1. InSession' = InSession
  BY DEF InSession
<1>. QED BY <1>1 DEF NotifierInv, Notified

LEMMA NotifierStepKeeps ==
  ASSUME NotifierInv, NEW h \in Hosts, NotifierStep(h)
  PROVE  NotifierTypeOK' /\ (InSession => InSession') /\ \A g \in Hosts : Notified(g)'
<1>. USE DEF Set
<1>1. /\ stage \in [Hosts -> {"down", "leaving", "open", "watching"}]
      /\ home \in [Hosts -> BOOLEAN] /\ busy \in [Hosts -> BOOLEAN]
      /\ sent \in [Hosts -> BOOLEAN] /\ ended \in [Hosts -> BOOLEAN]
      /\ delivered \in [Hosts -> BOOLEAN]
      /\ told \in [Hosts -> Nat] /\ row \in BOOLEAN /\ stopped \in BOOLEAN
      /\ pending \in [Hosts -> {"none", "waiting", "submitted", "observed"}]
      /\ flush \in [Hosts -> {"off", "gate", "prepare"}]
      /\ answer \in [Hosts -> {"none", "yes", "no"}]
      /\ turns \in Nat /\ faults \in Nat
  BY DEF NotifierInv, NotifierTypeOK
<1>2. CASE Gate(h)
  <2>1. /\ flush' \in [Hosts -> {"off", "gate", "prepare"}]
        /\ UNCHANGED <<hostVars, busy, sent, told, stopped, ended, turns>>
    BY <1>1, <1>2 DEF Gate, agent, runs
  <2>2. CASE Accept(h)
    BY <1>1, <2>1, <2>2, VerdictKeeps DEF NotifierTypeOK, hostVars
  <2>3. CASE ~Accept(h)
    <3>1. /\ pending' \in [Hosts -> {"none", "waiting", "submitted", "observed"}]
          /\ \A g \in Hosts : pending'[g] = "observed" => pending[g] = "observed"
          /\ UNCHANGED <<answer, delivered, row, faults>>
      BY <1>1, <1>2, <2>3 DEF Gate, unresolved
    <3>. QED BY <1>1, <2>1, <3>1, Undecided DEF NotifierTypeOK, hostVars
  <2>. QED BY <2>2, <2>3
<1>3. CASE Send(h)
  <2>1. /\ pending' \in [Hosts -> {"none", "waiting", "submitted", "observed"}]
        /\ flush' \in [Hosts -> {"off", "gate", "prepare"}]
        /\ sent' \in [Hosts -> BOOLEAN] /\ busy' \in [Hosts -> BOOLEAN]
        /\ \A g \in Hosts : pending'[g] = "observed" => pending[g] = "observed"
        /\ UNCHANGED <<hostVars, told, stopped, ended, answer, delivered, row, faults,
                       turns>>
    BY <1>1, <1>3 DEF Send, runs
  <2>. QED BY <1>1, <2>1, Undecided DEF NotifierTypeOK, hostVars
<1>4. CASE SendFails(h)
  <2>1. Finish(h, FALSE, FALSE) /\ flush' = Set(flush, h, "off") /\ Fault
        /\ UNCHANGED <<hostVars, agent, runs, turns>>
    BY Zenon, <1>4 DEF SendFails
  <2>2. /\ flush' \in [Hosts -> {"off", "gate", "prepare"}] /\ faults' \in Nat
        /\ UNCHANGED <<hostVars, busy, sent, told, stopped, ended, turns>>
    BY <1>1, <2>1 DEF Fault, agent, runs
  <2>3. /\ pending' \in [Hosts -> {"none", "waiting", "submitted", "observed"}]
        /\ answer' \in [Hosts -> {"none", "yes", "no"}]
        /\ delivered' \in [Hosts -> BOOLEAN] /\ row' \in BOOLEAN
        /\ InSession => InSession'
        /\ \A g \in Hosts : Notified(g)'
    <3>1. FALSE \in BOOLEAN /\ told' = told
      BY <2>2
    <3>. HIDE DEF Set
    <3>. QED BY <2>1, <3>1, FinishKeeps
  <2>. QED BY <1>1, <2>2, <2>3 DEF NotifierTypeOK, hostVars
<1>5. CASE Observe(h)
  <2>1. /\ sent' \in [Hosts -> BOOLEAN]
        /\ told' = [told EXCEPT ![h] = told[h] + 1]
        /\ pending' \in [Hosts -> {"none", "waiting", "submitted", "observed"}]
        /\ UNCHANGED <<hostVars, busy, stopped, ended, answer, delivered, row, flush, turns,
                       faults>>
    BY <1>1, <1>5 DEF Observe, runs
  <2>2. told' \in [Hosts -> Nat] /\ \A g \in Hosts : told[g] > 0 => told'[g] > 0
    BY <1>1, <2>1
  <2>3. told'[h] > 0
    BY <1>1, <2>1
  <2>4. InSession => InSession'
    BY <2>1, <2>2 DEF InSession
  <2>5. ASSUME NEW g \in Hosts PROVE Notified(g)'
    BY <1>1, <1>5, <2>1, <2>2, <2>3, <2>4 DEF Observe, NotifierInv, Notified
  <2>. QED BY <1>1, <2>1, <2>2, <2>4, <2>5 DEF NotifierTypeOK, hostVars
<1>6. CASE Request(h)
  BY <1>1, <1>6, VerdictKeeps DEF Request, NotifierTypeOK, hostVars, agent, runs
<1>7. CASE Settle(h)
  <2>1. /\ busy' \in [Hosts -> BOOLEAN] /\ sent' \in [Hosts -> BOOLEAN]
        /\ flush' \in [Hosts -> {"off", "gate", "prepare"}]
        /\ UNCHANGED <<hostVars, told, stopped, ended, turns>>
    BY <1>1, <1>7 DEF Settle, Scheduled, runs
  <2>2. Accept(h) \/ Refuse(h) \/ UNCHANGED unresolved
    BY <1>7 DEF Settle
  <2>3. CASE Accept(h) \/ Refuse(h)
    BY <1>1, <2>1, <2>3, VerdictKeeps DEF NotifierTypeOK, hostVars
  <2>4. CASE UNCHANGED unresolved
    BY <1>1, <2>1, <2>4, Undecided DEF NotifierTypeOK, hostVars, unresolved
  <2>. QED BY <2>2, <2>3, <2>4
<1>8. CASE UserTurn(h)
  <2>1. /\ busy' \in [Hosts -> BOOLEAN] /\ turns' \in Nat
        /\ UNCHANGED <<hostVars, sent, told, stopped, ended, unresolved, flush>>
    BY <1>1, <1>8 DEF UserTurn, runs
  <2>. QED BY <1>1, <2>1, Undecided DEF NotifierTypeOK, hostVars, unresolved
<1>9. CASE EndRun(h)
  <2>1. /\ ended' \in [Hosts -> BOOLEAN] /\ stopped' \in BOOLEAN
        /\ flush' \in [Hosts -> {"off", "gate", "prepare"}]
        /\ UNCHANGED <<hostVars, agent, unresolved, turns>>
    BY <1>1, <1>9 DEF EndRun, Scheduled
  <2>. QED BY <1>1, <2>1, Undecided DEF NotifierTypeOK, hostVars, unresolved, agent
<1>. QED BY <1>2, <1>3, <1>4, <1>5, <1>6, <1>7, <1>8, <1>9 DEF NotifierStep

LEMMA NotifierKeeps ==
  ASSUME IInv, NEW h \in Hosts, NotifierStep(h), UNCHANGED deliveryVars
  PROVE  IInv'
<1>1. NotifierInv
  BY DEF IInv, TypeOK, NotifierInv
<1>2. /\ UNCHANGED <<attempt, files, history, late, seen, owed>> /\ WatchTypeOK'
  BY WatchSame DEF deliveryVars, watch
<1>. QED BY <1>1, <1>2, NotifierStepKeeps, Stays, Moves

-----------------------------------------------------------------------------
(* The steps of an attempt that leave files and history alone *)

\* What every such step shares; a step that also leaves the notifier alone
\* has it from NotifierSame.
Aloof ==
  /\ NotifierTypeOK' /\ (InSession => InSession') /\ \A g \in Hosts : Notified(g)'
  /\ UNCHANGED <<files, history>>

LEMMA Steps ==
  ASSUME IInv, NEW h \in Hosts, Goes(h), Aloof,
         claim' \in Hosts \cup {Nobody}, queued' \in [Hosts -> BOOLEAN],
         ignored' \in [Hosts -> 0 .. MaxVersions],
         UNCHANGED <<seen, owed, late, moves>>
  PROVE  IInv'
<1>1. WatchTypeOK'
  BY DEF IInv, TypeOK, WatchTypeOK
<1>2. /\ \A g \in Hosts : seen'[g] # "no" \/ owed'[g] => seen[g] # "no" \/ owed[g]
      /\ late' \subseteq late \cup {<<h, attempt[h]>>}
  OBVIOUS
<1>. QED BY <1>1, <1>2, Moves DEF Aloof

\* The types a step of an attempt starts from.
LEMMA Types ==
  ASSUME IInv, NEW h \in Hosts
  PROVE  /\ attempt \in [Hosts -> Attempts] /\ attempt[h] \in Attempts
         /\ Honest(attempt[h])
         /\ claim \in Hosts \cup {Nobody} /\ queued \in [Hosts -> BOOLEAN]
         /\ ignored \in [Hosts -> 0 .. MaxVersions]
         /\ result \in 0 .. MaxVersions
BY DEF IInv, TypeOK

LEMMA ReadKeeps ==
  ASSUME IInv, NEW h \in Hosts, Read(h)
  PROVE  IInv'
<1>1. Aloof /\ UNCHANGED <<seen, owed, late, moves, queued, ignored>>
  BY NotifierSame DEF Read, quiet, watch, Aloof
<1>2. Goes(h) /\ claim' \in Hosts \cup {Nobody}
  <2>1. CASE Exists
    <3>1. PICK a : a = [attempt[h] EXCEPT !.at = "own", !.version = result]
      OBVIOUS
    <3>2. a \in Attempts /\ attempt' = Set(attempt, h, a)
      BY <2>1, <3>1, Types DEF Read, Set, Attempts, Places
    <3>3. /\ a.at = "own" /\ a.version = result
          /\ a.flags = attempt[h].flags /\ a.ready = attempt[h].ready
      BY <3>1, Types DEF Attempts
    <3>4. attempt[h].flags = NoFlags /\ (attempt[h].ready => proof)
      BY Types DEF Read, At, Honest, Place, Reached, Blank
    <3>5. Honest(a)
      BY <2>1, <3>3, <3>4 DEF Honest, Claims, Place, Reached, Blank, NoFlags, Exists
    <3>. QED BY <2>1, <3>2, <3>5, Types DEF Goes, Read
  <2>2. CASE ~Exists
    BY <2>2, Ended DEF Read
  <2>. QED BY <2>1, <2>2
<1>. QED BY <1>1, <1>2, Steps, Types

LEMMA OwnKeeps ==
  ASSUME IInv, NEW h \in Hosts, Own(h)
  PROVE  IInv'
<1>1. Aloof /\ UNCHANGED <<seen, owed, late, moves, queued>>
  BY NotifierSame DEF Own, Aloof
<1>2. ignored' \in [Hosts -> 0 .. MaxVersions]
  BY Types DEF Own, Set, Attempts
<1>3. Goes(h) /\ claim' \in Hosts \cup {Nobody}
  <2>1. CASE Owns(h)
    <3>1. PICK a : a = [attempt[h] EXCEPT !.at = "restore", !.ready = proof]
      OBVIOUS
    <3>2. a \in Attempts /\ attempt' = Set(attempt, h, a)
      <4>1. proof \in BOOLEAN
        BY DEF IInv, TypeOK
      <4>. QED BY <2>1, <3>1, <4>1, Types DEF Own, Set, Attempts, Places
    <3>3. /\ a.at = "restore" /\ a.version = attempt[h].version
          /\ a.flags = attempt[h].flags /\ a.ready = proof
      BY <3>1, Types DEF Attempts
    <3>4. Claims(attempt[h].version, attempt[h].flags) /\ attempt[h].version # NoFile
      BY Types DEF Own, At, Honest, Place, Blank
    <3>5. Honest(a)
      BY <3>3, <3>4 DEF Honest, Place, Reached, Blank
    <3>. QED BY <2>1, <3>2, <3>5, Types DEF Goes, Own
  <2>2. CASE ~Owns(h)
    BY <2>2, Ended DEF Own
  <2>. QED BY <2>1, <2>2
<1>. QED BY <1>1, <1>2, <1>3, Steps, Types

LEMMA RestoredGoes ==
  ASSUME IInv, NEW h \in Hosts, At(h, "restore"), NEW known \in BOOLEAN,
         Restored(h, known), known => record.digest = attempt[h].version
  PROVE  /\ Goes(h) /\ seen' \in [Hosts -> {"no", "new", "old"}]
         /\ \A g \in Hosts : seen'[g] # "no" \/ owed'[g] => seen[g] # "no" \/ owed[g]
         /\ UNCHANGED <<claim, owed, queued, ignored, late, moves, files, history>>
<1>1. /\ seen' \in [Hosts -> {"no", "new", "old"}]
      /\ \A g \in Hosts : seen'[g] # "no" => seen[g] # "no"
      /\ UNCHANGED <<claim, owed, queued, ignored, late, moves, files, history>>
  BY DEF IInv, TypeOK, Restored, Set
<1>2. PICK place, flags :
        /\ place = IF ~(seen[h] = "old" /\ ~owed[h]) /\ SettledBefore(h, known)
                   THEN "dispose" ELSE "intercom"
        /\ flags = IF known THEN record.flags ELSE NoFlags
  OBVIOUS
<1>3. PICK a : a = [attempt[h] EXCEPT !.at = place, !.flags = flags]
  OBVIOUS
<1>4. flags \in Flags
  BY <1>2 DEF IInv, TypeOK, NoFlags, Flags
<1>5. a \in Attempts /\ attempt' = Set(attempt, h, a)
  BY <1>2, <1>3, <1>4, Types DEF Restored, Set, Attempts, Places
<1>6. /\ a.at = place /\ a.version = attempt[h].version
      /\ a.flags = flags /\ a.ready = attempt[h].ready
  BY <1>3, Types DEF Attempts
<1>7. Claims(a.version, a.flags)
  <2>1. CASE known
    BY <1>2, <1>6, <2>1 DEF IInv
  <2>2. CASE ~known
    BY <1>2, <1>6, <2>2 DEF Claims, NoFlags
  <2>. QED BY <2>1, <2>2
<1>8. Reached(a.at, a.flags)
  <2>1. CASE place = "dispose"
    <3>1. Announced
      BY <1>2, <2>1 DEF SettledBefore, IInv, Remembers
    <3>. QED BY <1>6, <2>1, <3>1 DEF Reached, Blank
  <2>2. CASE place = "intercom"
    BY <1>6, <2>2 DEF Reached, Blank
  <2>. QED BY <1>2, <2>1, <2>2
<1>9. Honest(a)
  BY <1>6, <1>7, <1>8, Types DEF Honest, Place, At, Blank
<1>. QED BY <1>1, <1>5, <1>9 DEF Goes

LEMMA RestoreKeeps ==
  ASSUME IInv, NEW h \in Hosts, Restore(h) \/ RestoreFails(h)
  PROVE  IInv'
<1>1. \E known \in BOOLEAN :
        Restored(h, known) /\ (known => record.digest = attempt[h].version)
  BY DEF Restore, RestoreFails
<1>2. At(h, "restore")
  BY DEF Restore, RestoreFails
<1>3. /\ Goes(h) /\ seen' \in [Hosts -> {"no", "new", "old"}]
      /\ \A g \in Hosts : seen'[g] # "no" \/ owed'[g] => seen[g] # "no" \/ owed[g]
      /\ UNCHANGED <<claim, owed, queued, ignored, late, moves, files, history>>
  BY <1>1, <1>2, RestoredGoes
<1>4. UNCHANGED hostVars /\ (UNCHANGED notifierVars \/ (Fault /\ UNCHANGED calm))
  BY DEF Restore, RestoreFails, Restored
<1>5. NotifierTypeOK' /\ (InSession => InSession') /\ \A g \in Hosts : Notified(g)'
  BY <1>4, NotifierSame, NotifierFaults
<1>6. WatchTypeOK'
  BY <1>3 DEF IInv, TypeOK, WatchTypeOK
<1>. QED BY <1>3, <1>5, <1>6, Moves

LEMMA IntercomKeeps ==
  ASSUME IInv, NEW h \in Hosts, Intercom(h)
  PROVE  IInv'
<1>1. Aloof /\ UNCHANGED <<seen, owed, late, moves, queued, ignored>>
  BY NotifierSame DEF Intercom, quiet, watch, Aloof
<1>2. \/ \E place \in {"ack", "route"} : Goto(h, place) /\ UNCHANGED claim
      \/ End(h)
  BY DEF Intercom
<1>3. attempt[h].at \notin Blank
      /\ \A place \in {"ack", "route"} : place \in Places /\ place \notin Blank
           /\ Reached(place, attempt[h].flags)
  BY DEF Intercom, At, Places, Blank, Reached
<1>4. Goes(h) /\ claim' \in Hosts \cup {Nobody}
  BY <1>2, <1>3, GoneTo, Ended, Types
<1>. QED BY <1>1, <1>4, Steps, Types

LEMMA RouteKeeps ==
  ASSUME IInv, NEW h \in Hosts, Route(h)
  PROVE  IInv'
<1>1. Aloof /\ UNCHANGED <<seen, owed, late, moves, queued, ignored>>
  BY NotifierSame DEF Route, quiet, watch, Aloof
<1>2. Goes(h) /\ claim' \in Hosts \cup {Nobody}
  <2>1. CASE ~Owns(h)
    BY <2>1, Ended DEF Route
  <2>2. CASE Owns(h) /\ (~addressed \/ attempt[h].flags.taken)
    <3>1. PICK a : a = [attempt[h] EXCEPT !.at = "routed", !.flags.intercom = TRUE]
      OBVIOUS
    <3>2. a \in Attempts /\ attempt' = Set(attempt, h, a)
      <4>1. attempt' = [attempt EXCEPT ![h].at = "routed", ![h].flags.intercom = TRUE]
        BY <2>2 DEF Route
      <4>2. [attempt[h].flags EXCEPT !.intercom = TRUE] \in Flags
        BY Types DEF Attempts, Flags
      <4>3. a = [attempt[h] EXCEPT !.at = "routed",
                                   !.flags = [attempt[h].flags EXCEPT !.intercom = TRUE]]
        BY <3>1, Types DEF Attempts
      <4>4. a \in Attempts
        BY <4>2, <4>3, Types DEF Attempts, Places
      <4>5. attempt' = Set(attempt, h, a)
        BY <3>1, <4>1, Types DEF Set, Attempts
      <4>. QED BY <4>4, <4>5
    <3>3. /\ a.at = "routed" /\ a.version = attempt[h].version
          /\ a.ready = attempt[h].ready
          /\ a.flags = [attempt[h].flags EXCEPT !.intercom = TRUE]
      BY <3>1, Types DEF Attempts
    <3>4. /\ a.flags.accepted = attempt[h].flags.accepted
          /\ a.flags.emitted = attempt[h].flags.emitted
          /\ a.flags.taken = attempt[h].flags.taken
      BY <3>3, Types DEF Attempts, Flags
    <3>5. Claims(attempt[h].version, attempt[h].flags) /\ Place(attempt[h])
      BY Types DEF Honest
    <3>6. Claims(a.version, a.flags)
      BY <2>2, <3>3, <3>4, <3>5 DEF Claims
    <3>7. Place(a)
      BY <3>3, <3>5 DEF Place, Reached, Blank, Route, At
    <3>. QED BY <2>2, <3>2, <3>6, <3>7, Types DEF Goes, Route, Honest
  <2>3. CASE Owns(h) /\ ~(~addressed \/ attempt[h].flags.taken)
    <3>1. Goto(h, "notify") /\ UNCHANGED claim
      BY <2>3 DEF Route
    <3>2. /\ "notify" \in Places /\ "notify" \notin Blank /\ attempt[h].at \notin Blank
          /\ Reached("notify", attempt[h].flags)
      BY DEF Route, At, Places, Blank, Reached
    <3>. QED BY <3>1, <3>2, GoneTo, Types
  <2>. QED BY <2>1, <2>2, <2>3
<1>. QED BY <1>1, <1>2, Steps, Types

LEMMA AcceptedGoes ==
  ASSUME IInv, NEW h \in Hosts, attempt[h].at \in {"notify", "answer"}, Brought, Accepted(h)
  PROVE  Goes(h)
<1>1. PICK a : a = [attempt[h] EXCEPT !.at = "accepted", !.flags.accepted = TRUE]
  OBVIOUS
<1>2. [attempt[h].flags EXCEPT !.accepted = TRUE] \in Flags
  BY Types DEF Attempts, Flags
<1>3. a = [attempt[h] EXCEPT !.at = "accepted",
                             !.flags = [attempt[h].flags EXCEPT !.accepted = TRUE]]
  BY <1>1, Types DEF Attempts
<1>4. a \in Attempts
  BY <1>2, <1>3, Types DEF Attempts, Places
<1>5. attempt' = Set(attempt, h, a)
  BY <1>1, Types DEF Accepted, Set, Attempts
<1>6. /\ a.at = "accepted" /\ a.version = attempt[h].version
      /\ a.ready = attempt[h].ready
      /\ a.flags = [attempt[h].flags EXCEPT !.accepted = TRUE]
  BY <1>3, Types DEF Attempts
<1>7. /\ a.flags.intercom = attempt[h].flags.intercom
      /\ a.flags.emitted = attempt[h].flags.emitted
      /\ a.flags.taken = attempt[h].flags.taken /\ a.flags.accepted
  BY <1>6, Types DEF Attempts, Flags
<1>8. Claims(attempt[h].version, attempt[h].flags) /\ Place(attempt[h])
  BY Types DEF Honest
<1>9. Claims(a.version, a.flags)
  BY <1>6, <1>7, <1>8 DEF Claims
<1>10. Place(a)
  BY <1>6, <1>7, <1>8 DEF Place, Reached, Blank
<1>. QED BY <1>4, <1>5, <1>9, <1>10 DEF Goes, Honest

LEMMA NotifyKeeps ==
  ASSUME IInv, NEW h \in Hosts, Notify(h)
  PROVE  IInv'
<1>1. UNCHANGED <<hostVars, files, history, seen, owed, late, moves, queued, ignored>>
  BY DEF Notify, watch
<1>2. attempt[h].at = "notify"
  BY DEF Notify, At
<1>3. CASE ~Owns(h)
  <2>1. End(h) /\ UNCHANGED notifierVars
    BY <1>3 DEF Notify
  <2>. QED BY <1>1, <2>1, Ended, NotifierSame, Steps, Types DEF Aloof
<1>4. CASE Owns(h) /\ attempt[h].flags.accepted
  <2>1. Goto(h, "mark") /\ UNCHANGED <<claim, notifierVars>>
    BY <1>4 DEF Notify
  <2>2. /\ "mark" \in Places /\ "mark" \notin Blank /\ attempt[h].at \notin Blank
        /\ Reached("mark", attempt[h].flags)
    BY <1>2, <1>4 DEF Places, Blank, Reached
  <2>. QED BY <1>1, <2>1, <2>2, GoneTo, NotifierSame, Steps, Types DEF Aloof
<1>5. CASE Owns(h) /\ ~attempt[h].flags.accepted /\ (attempt[h].flags.taken \/ Known(h))
  <2>1. Accepted(h) /\ UNCHANGED <<claim, notifierVars>>
    BY <1>5 DEF Notify
  <2>2. Brought
    BY <1>5, Types DEF Honest, Claims, Known, IInv, Notified, Brought
  <2>. QED BY <1>1, <1>2, <2>1, <2>2, AcceptedGoes, NotifierSame, Steps, Types DEF Aloof
<1>6. CASE Owns(h) /\ ~attempt[h].flags.accepted /\ ~(attempt[h].flags.taken \/ Known(h))
  <2>1. Goto(h, "answer") /\ Enqueue(h) /\ UNCHANGED claim
    BY <1>6 DEF Notify
  <2>2. /\ "answer" \in Places /\ "answer" \notin Blank /\ attempt[h].at \notin Blank
        /\ Reached("answer", attempt[h].flags)
    BY <1>2 DEF Places, Blank, Reached
  <2>3. NotifierInv
    BY DEF IInv, TypeOK, NotifierInv
  <2>4. /\ pending' \in [Hosts -> {"none", "waiting", "submitted", "observed"}]
        /\ flush' \in [Hosts -> {"off", "gate", "prepare"}]
        /\ \A g \in Hosts : pending'[g] = "observed" => pending[g] = "observed"
        /\ UNCHANGED <<answer, delivered, row, faults, busy, sent, told, stopped, ended,
                       turns>>
    BY <2>1, <2>3 DEF NotifierInv, NotifierTypeOK, Enqueue, Set, agent, runs
  <2>5. NotifierTypeOK'
    BY <1>1, <2>3, <2>4 DEF NotifierInv, NotifierTypeOK, hostVars
  <2>6. (InSession => InSession') /\ \A g \in Hosts : Notified(g)'
    BY <2>3, <2>4, Undecided
  <2>. QED BY <1>1, <2>1, <2>2, <2>5, <2>6, GoneTo, Steps, Types DEF Aloof
<1>. QED BY <1>3, <1>4, <1>5, <1>6

LEMMA AnswerKeeps ==
  ASSUME IInv, NEW h \in Hosts, Answer(h)
  PROVE  IInv'
<1>1. /\ UNCHANGED <<hostVars, busy, sent, told, row, stopped, ended, delivered, pending,
                     flush, turns, faults>>
      /\ UNCHANGED <<files, seen, owed, ignored, late, moves, history>>
      /\ answer' = Set(answer, h, "none") /\ attempt[h].at = "answer"
  BY DEF Answer, At
<1>2. NotifierInv
  BY DEF IInv, TypeOK, NotifierInv
<1>3. Aloof
  <2>1. /\ answer' \in [Hosts -> {"none", "yes", "no"}]
        /\ \A g \in Hosts : answer'[g] = "yes" => answer[g] = "yes"
    BY <1>1, <1>2 DEF NotifierInv, NotifierTypeOK, Set
  <2>2. NotifierTypeOK'
    BY <1>1, <1>2, <2>1 DEF NotifierInv, NotifierTypeOK, hostVars
  <2>3. InSession' = InSession
    BY <1>1 DEF InSession
  <2>4. ASSUME NEW g \in Hosts PROVE Notified(g)'
    BY <1>1, <1>2, <2>1, <2>3 DEF NotifierInv, Notified
  <2>. QED BY <1>1, <2>2, <2>3, <2>4 DEF Aloof
<1>4. CASE answer[h] = "yes"
  <2>1. Accepted(h) /\ UNCHANGED <<claim, queued>>
    BY <1>4 DEF Answer
  <2>2. Brought
    BY <1>2, <1>4 DEF NotifierInv, Notified, Brought
  <2>. QED BY <1>1, <1>3, <2>1, <2>2, AcceptedGoes, Steps, Types
<1>5. CASE answer[h] # "yes"
  <2>1. End(h) /\ (Retry(h) \/ UNCHANGED queued)
    BY <1>5 DEF Answer
  <2>2. queued' \in [Hosts -> BOOLEAN]
    BY <2>1, Types DEF Retry, Set
  <2>. QED BY <1>1, <1>3, <2>1, <2>2, Ended, Steps, Types
<1>. QED BY <1>4, <1>5

LEMMA DisposeKeeps ==
  ASSUME IInv, NEW h \in Hosts, Dispose(h)
  PROVE  IInv'
<1>1. Aloof /\ UNCHANGED <<seen, owed, ignored, late, moves>>
  BY NotifierSame DEF Dispose, Aloof
<1>2. CASE End(h) /\ (Retry(h) \/ UNCHANGED queued)
  <2>1. queued' \in [Hosts -> BOOLEAN]
    BY <1>2, Types DEF Retry, Set
  <2>. QED BY <1>1, <1>2, <2>1, Ended, Steps, Types
<1>3. CASE ~(End(h) /\ (Retry(h) \/ UNCHANGED queued))
  <2>1. /\ attempt[h].ready /\ Goto(h, "remove") /\ UNCHANGED <<claim, queued>>
        /\ attempt[h].at \in {"finish", "dispose"}
    BY <1>3 DEF Dispose
  <2>2. Claims(attempt[h].version, attempt[h].flags) /\ Place(attempt[h])
    BY Types DEF Honest
  <2>3. Announced /\ proof
    BY <2>1, <2>2 DEF Place, Reached, Claims, Announced
  <2>4. /\ "remove" \in Places /\ "remove" \notin Blank /\ attempt[h].at \notin Blank
        /\ Reached("remove", attempt[h].flags)
    BY <2>1, <2>3 DEF Places, Blank, Reached
  <2>. QED BY <1>1, <2>1, <2>4, GoneTo, Steps, Types
<1>. QED BY <1>2, <1>3

LEMMA FailKeeps ==
  ASSUME IInv, NEW h \in Hosts, Fail(h)
  PROVE  IInv'
<1>1. Fault /\ End(h) /\ (Retry(h) \/ RetryFailed(h))
      /\ UNCHANGED <<hostVars, calm, files, seen, owed, ignored, late, moves, history>>
  BY DEF Fail, RetryFailed
<1>2. Aloof
  BY <1>1, NotifierFaults DEF Aloof
<1>3. queued' \in [Hosts -> BOOLEAN]
  BY <1>1, Types DEF Retry, RetryFailed, Set, Exists
<1>. QED BY <1>1, <1>2, <1>3, Ended, Steps, Types

LEMMA WatchingKeeps ==
  ASSUME IInv, NEW h \in Hosts, ExpireSeen(h) \/ Notice(h) \/ Begin(h)
  PROVE  IInv'
<1>1. CASE ExpireSeen(h)
  <2>1. /\ UNCHANGED <<hostVars, notifierVars, files, claim, owed, queued, ignored, attempt,
                       late, moves, history>>
        /\ seen' \in [Hosts -> {"no", "new", "old"}]
        /\ \A g \in Hosts : seen'[g] # "no" => seen[g] # "no"
    BY <1>1 DEF ExpireSeen, Set, IInv, TypeOK
  <2>2. WatchTypeOK'
    BY <2>1 DEF IInv, TypeOK, WatchTypeOK
  <2>. QED BY <2>1, <2>2, NotifierSame, Stays, Moves
<1>2. CASE Notice(h)
  <2>1. /\ UNCHANGED <<hostVars, notifierVars, files, claim, seen, owed, ignored, attempt,
                       late, moves, history>>
        /\ queued' \in [Hosts -> BOOLEAN]
    BY <1>2, Types DEF Notice, Set
  <2>. QED BY <2>1, NotifierSame, Stays, Steps, Types DEF Aloof
<1>3. CASE Begin(h)
  <2>1. /\ UNCHANGED <<hostVars, notifierVars, files, seen, owed, ignored, late, moves,
                       history>>
        /\ queued' \in [Hosts -> BOOLEAN]
    BY <1>3, Types DEF Begin, Set
  <2>2. Goes(h) /\ claim' \in Hosts \cup {Nobody}
    <3>1. CASE UNCHANGED <<claim, attempt>>
      BY <3>1, Stays, Types
    <3>2. CASE At(h, "none") /\ claim' = h /\ Goto(h, "read")
      <4>1. PICK a : a = [attempt[h] EXCEPT !.at = "read"]
        OBVIOUS
      <4>2. a \in Attempts /\ attempt' = Set(attempt, h, a)
        BY <3>2, <4>1, Types DEF Goto, Set, Attempts, Places
      <4>3. /\ a.at = "read" /\ a.version = attempt[h].version
            /\ a.flags = attempt[h].flags /\ a.ready = attempt[h].ready
        BY <4>1, Types DEF Attempts
      <4>4. Honest(a)
        BY <3>2, <4>3, Types DEF At, Honest, Place, Reached, Blank
      <4>. QED BY <3>2, <4>2, <4>4 DEF Goes
    <3>. QED BY <1>3, <3>1, <3>2 DEF Begin
  <2>. QED BY <2>1, <2>2, NotifierSame, Steps, Types DEF Aloof
<1>. QED BY <1>1, <1>2, <1>3

-----------------------------------------------------------------------------
(* The Session of a Host *)

LEMMA ResetKeeps ==
  ASSUME NotifierInv, NEW h \in Hosts, NEW own \in BOOLEAN, Reset(h, own),
         stage' \in [Hosts -> {"down", "leaving", "open", "watching"}],
         home' \in [Hosts -> BOOLEAN]
  PROVE  NotifierTypeOK' /\ (InSession => InSession') /\ \A g \in Hosts : Notified(g)'
<1>1. InSession' = InSession /\ InSession \in BOOLEAN
  BY DEF Reset, InSession
<1>2. /\ pending' = [pending EXCEPT ![h] = "none"]
      /\ answer' = [answer EXCEPT ![h] = "none"]
      /\ flush' = [flush EXCEPT ![h] = "off"]
      /\ busy' = [busy EXCEPT ![h] = FALSE] /\ sent' = [sent EXCEPT ![h] = FALSE]
      /\ UNCHANGED <<told, row, stopped, turns, faults>>
  BY DEF Reset, Set
<1>3. PICK known \in BOOLEAN : (known <=> own /\ InSession)
      /\ delivered' = [delivered EXCEPT ![h] = known]
  BY DEF Reset, Set
<1>4. PICK over \in BOOLEAN : ended' = [ended EXCEPT ![h] = over]
  BY DEF Reset, Set, NotifierInv, NotifierTypeOK
<1>5. NotifierTypeOK'
  BY <1>2, <1>3, <1>4 DEF NotifierInv, NotifierTypeOK
<1>6. ASSUME NEW g \in Hosts PROVE Notified(g)'
  BY <1>1, <1>2, <1>3 DEF NotifierInv, NotifierTypeOK, Notified
<1>. QED BY <1>1, <1>5, <1>6

LEMMA SessionKeeps ==
  ASSUME IInv, NEW h \in Hosts, SessionStep(h)
  PROVE  IInv'
<1>. USE DEF Set
<1>1. NotifierInv /\ stage \in [Hosts -> {"down", "leaving", "open", "watching"}]
      /\ home \in [Hosts -> BOOLEAN]
  BY DEF IInv, TypeOK, NotifierTypeOK, NotifierInv
<1>2. CASE Leave(h)
  <2>1. /\ stage' \in [Hosts -> {"down", "leaving", "open", "watching"}]
        /\ UNCHANGED <<home, notifierVars, files, claim, attempt, late, history>>
    BY <1>1, <1>2 DEF Leave
  <2>2. NotifierTypeOK' /\ (InSession => InSession') /\ \A g \in Hosts : Notified(g)'
    <3>1. NotifierTypeOK'
      BY <1>1, <2>1 DEF NotifierInv, NotifierTypeOK, notifierVars, calm
    <3>2. InSession' = InSession
      BY <2>1 DEF InSession, notifierVars, calm
    <3>3. ASSUME NEW g \in Hosts PROVE Notified(g)'
      BY <1>1, <2>1, <3>2 DEF NotifierInv, Notified, notifierVars, calm
    <3>. QED BY <3>1, <3>2, <3>3
  <2>3. /\ WatchTypeOK'
        /\ \A g \in Hosts : seen'[g] # "no" \/ owed'[g] => seen[g] # "no" \/ owed[g]
    BY <1>2, VersionsAssumption
       DEF Leave, Forget, Move, IInv, TypeOK, WatchTypeOK, NoFile
  <2>. QED BY <2>1, <2>2, <2>3, Stays, Moves
<1>3. CASE Interrupt(h)
  <2>1. /\ UNCHANGED <<hostVars, agent, row, runs, delivered, flush, turns, faults, files,
                       watch, moves, history>>
        /\ pending' = [pending EXCEPT ![h] = "none"]
        /\ answer' = [answer EXCEPT ![h] = "none"]
        /\ End(h) /\ late' \subseteq late \cup {<<h, attempt[h]>>}
    BY <1>3 DEF Interrupt
  <2>2. NotifierTypeOK'
    BY <1>1, <2>1 DEF NotifierInv, NotifierTypeOK, hostVars, agent, runs
  <2>3. InSession' = InSession
    BY <2>1 DEF InSession, agent
  <2>4. ASSUME NEW g \in Hosts PROVE Notified(g)'
    BY <1>1, <2>1, <2>3 DEF NotifierInv, NotifierTypeOK, Notified, agent
  <2>5. /\ WatchTypeOK'
        /\ \A g \in Hosts : seen'[g] # "no" \/ owed'[g] => seen[g] # "no" \/ owed[g]
    BY <2>1, Ended DEF IInv, TypeOK, WatchTypeOK, watch
  <2>. QED BY <2>1, <2>2, <2>3, <2>4, <2>5, Ended, Moves
<1>4. CASE Watch(h)
  <2>1. /\ stage' \in [Hosts -> {"down", "leaving", "open", "watching"}]
        /\ UNCHANGED <<home, notifierVars, files, claim, seen, owed, attempt, late, moves,
                       history>>
    BY <1>1, <1>4 DEF Watch
  <2>2. NotifierTypeOK'
    BY <1>1, <2>1 DEF NotifierInv, NotifierTypeOK, notifierVars, calm
  <2>3. InSession' = InSession
    BY <2>1 DEF InSession, notifierVars, calm
  <2>4. ASSUME NEW g \in Hosts PROVE Notified(g)'
    BY <1>1, <2>1, <2>3 DEF NotifierInv, Notified, notifierVars, calm
  <2>5. /\ WatchTypeOK'
        /\ \A g \in Hosts : seen'[g] # "no" \/ owed'[g] => seen[g] # "no" \/ owed[g]
    BY <1>4, <2>1, VersionsAssumption DEF Watch, Exists, IInv, TypeOK, WatchTypeOK, NoFile
  <2>. QED BY <2>1, <2>2, <2>3, <2>4, <2>5, Stays, Moves
<1>5. ASSUME NEW own \in BOOLEAN, Join(h, own) PROVE IInv'
  <2>1. /\ stage' \in [Hosts -> {"down", "leaving", "open", "watching"}]
        /\ home' \in [Hosts -> BOOLEAN] /\ Reset(h, own) /\ UNCHANGED deliveryVars
    BY <1>1, <1>5 DEF Join
  <2>2. NotifierTypeOK' /\ (InSession => InSession') /\ \A g \in Hosts : Notified(g)'
    BY <1>1, <2>1, ResetKeeps
  <2>3. UNCHANGED <<attempt, files, history, late, seen, owed>> /\ WatchTypeOK'
    BY <2>1, WatchSame DEF deliveryVars, watch
  <2>. QED BY <2>2, <2>3, Stays, Moves
<1>6. CASE Crash(h)
  <2>1. /\ stage' \in [Hosts -> {"down", "leaving", "open", "watching"}]
        /\ home' \in [Hosts -> BOOLEAN] /\ Reset(h, FALSE)
        /\ UNCHANGED <<files, history>> /\ late' \subseteq late
        /\ attempt' = [attempt EXCEPT ![h] = NoAttempt]
    BY <1>1, <1>6 DEF Crash
  <2>2. NotifierTypeOK' /\ (InSession => InSession') /\ \A g \in Hosts : Notified(g)'
    <3>1. FALSE \in BOOLEAN
      OBVIOUS
    <3>. QED BY <1>1, <2>1, <3>1, ResetKeeps
  <2>3. Goes(h)
    <3>1. NoAttempt \in Attempts
      BY VersionsAssumption DEF NoAttempt, NoFlags, Flags, Attempts, Places, NoFile
    <3>2. Honest(NoAttempt)
      BY DEF Honest, Claims, Place, Reached, Blank, NoAttempt, NoFlags
    <3>. QED BY <2>1, <3>1, <3>2 DEF Goes
  <2>4. /\ WatchTypeOK'
        /\ \A g \in Hosts : seen'[g] # "no" \/ owed'[g] => seen[g] # "no" \/ owed[g]
    BY <1>6, VersionsAssumption
       DEF Crash, Forget, Move, IInv, TypeOK, WatchTypeOK, NoFile
  <2>. QED BY <2>1, <2>2, <2>3, <2>4, Moves
<1>. QED BY <1>2, <1>3, <1>4, <1>5, <1>6 DEF SessionStep

-----------------------------------------------------------------------------
(* The steps that change a file, or what has happened *)

LEMMA GoesHonestly ==
  ASSUME IInv, Grows, NEW h \in Hosts, Goes(h)
  PROVE  /\ attempt' \in [Hosts -> Attempts]
         /\ \A g \in Hosts : attempt'[g] = attempt[g] \/ Honest(attempt[g])'
<1>1. PICK a \in Attempts : Honest(a) /\ attempt' = Set(attempt, h, a)
  BY DEF Goes
<1>2. Honest(a)'
  BY <1>1, HonestStays
<1>. QED BY <1>1, <1>2, Types DEF Set

\* The same where what the new place claims has only just happened.
LEMMA PutHonestly ==
  ASSUME IInv, NEW h \in Hosts, NEW a \in Attempts, Honest(a)',
         attempt' = Set(attempt, h, a)
  PROVE  /\ attempt' \in [Hosts -> Attempts]
         /\ \A g \in Hosts : attempt'[g] = attempt[g] \/ Honest(attempt[g])'
BY Types DEF Set

LEMMA Filed ==
  ASSUME IInv, UNCHANGED <<hostVars, notifierVars>>, DeliveryTypeOK', Grows,
         \A g \in Hosts : Remembers(g)',
         \A g \in Hosts : attempt'[g] = attempt[g] \/ Honest(attempt[g])',
         \A op \in late' : op \in late \/ Honest(op[2])',
         record' = record \/ Claims(record.digest, record.flags)',
         gone' => gone \/ (Announced /\ proof)'
  PROVE  IInv'
<1>1. NotifierTypeOK' /\ \A g \in Hosts : Notified(g)'
  BY NotifierSame
<1>2. TypeOK'
  BY <1>1 DEF TypeOK, DeliveryTypeOK
<1>. QED BY <1>1, <1>2, Combine

\* Nothing but the named variables changes what a Host remembers.
LEMMA RememberedBy ==
  ASSUME IInv, Grows,
         \A g \in Hosts : seen'[g] # "no" \/ owed'[g] => seen[g] # "no" \/ owed[g]
  PROVE  \A g \in Hosts : Remembers(g)'
BY Remembered

LEMMA WorldKeeps ==
  ASSUME IInv, Publish \/ ObserveEnd
  PROVE  IInv'
<1>1. UNCHANGED <<hostVars, notifierVars, aside, record, addressed, claim, watch, attempt,
                  late, moves, history>>
  BY DEF Publish, ObserveEnd
<1>2. published' \in 0 .. MaxVersions /\ result' \in 0 .. MaxVersions /\ proof' \in BOOLEAN
      /\ (proof => proof')
  <2>1. /\ published \in 0 .. MaxVersions /\ result \in 0 .. MaxVersions
        /\ proof \in BOOLEAN /\ MaxVersions \in Nat
    BY VersionsAssumption DEF IInv, TypeOK
  <2>2. CASE Publish
    BY <2>1, <2>2 DEF Publish
  <2>3. CASE ObserveEnd
    <3>1. proof' = TRUE /\ published' = published /\ result' = result
      BY <2>3 DEF ObserveEnd
    <3>. QED BY <2>1, <3>1
  <2>. QED BY <2>2, <2>3
<1>3. DeliveryTypeOK'
  BY <1>1, <1>2 DEF IInv, TypeOK, DeliveryTypeOK, watch, history
<1>4. InSession' = InSession
  BY <1>1 DEF InSession, notifierVars, calm
<1>5. Grows
  BY <1>1, <1>2, <1>4 DEF Grows, history, IInv, TypeOK
<1>6. \A g \in Hosts : Remembers(g)'
  BY <1>1, <1>5, RememberedBy DEF watch
<1>. QED BY <1>1, <1>3, <1>5, <1>6, Filed DEF history

LEMMA AckKeeps ==
  ASSUME IInv, NEW h \in Hosts, NEW yes \in BOOLEAN, Ack(h, yes)
  PROVE  IInv'
<1>1. UNCHANGED <<hostVars, notifierVars, files, claim, watch, late, moves, emitted, gone>>
  BY DEF Ack
<1>2. Claims(attempt[h].version, attempt[h].flags) /\ Place(attempt[h])
      /\ attempt[h].version \in Versions /\ attempt[h].at = "ack"
  BY Types, VersionsAssumption DEF Ack, At, Honest, Place, Blank, Attempts, Versions, NoFile
<1>3. /\ acked' \subseteq Versions /\ acked \subseteq acked'
      /\ yes => attempt[h].version \in acked'
  BY <1>2 DEF Ack, IInv, TypeOK
<1>4. InSession' = InSession
  BY <1>1 DEF InSession, notifierVars, calm
<1>5. Grows
  BY <1>1, <1>3, <1>4 DEF Grows, files, IInv, TypeOK
<1>6. PICK a : a = [attempt[h] EXCEPT !.at = "route", !.flags.taken = yes]
  OBVIOUS
<1>7. [attempt[h].flags EXCEPT !.taken = yes] \in Flags
  BY Types DEF Attempts, Flags
<1>8. a = [attempt[h] EXCEPT !.at = "route",
                             !.flags = [attempt[h].flags EXCEPT !.taken = yes]]
  BY <1>6, Types DEF Attempts
<1>9. a \in Attempts
  BY <1>7, <1>8, Types DEF Attempts, Places
<1>10. attempt' = Set(attempt, h, a)
  BY <1>6, Types DEF Ack, Set, Attempts
<1>11. /\ a.at = "route" /\ a.version = attempt[h].version
       /\ a.ready = attempt[h].ready
       /\ a.flags = [attempt[h].flags EXCEPT !.taken = yes]
  BY <1>8, Types DEF Attempts
<1>12. /\ a.flags.intercom = attempt[h].flags.intercom
       /\ a.flags.emitted = attempt[h].flags.emitted
       /\ a.flags.accepted = attempt[h].flags.accepted /\ a.flags.taken = yes
  BY <1>11, Types DEF Attempts, Flags
<1>13. Claims(a.version, a.flags)'
  <2>1. PICK v, flags : v = attempt[h].version /\ flags = attempt[h].flags
    OBVIOUS
  <2>2. Claims(v, flags)'
    BY <1>2, <1>5, <2>1, ClaimsStay
  <2>3. yes => a.version \in acked'
    BY <1>3, <1>11
  <2>4. /\ a.version = v /\ a.flags.intercom = flags.intercom
        /\ a.flags.emitted = flags.emitted /\ a.flags.accepted = flags.accepted
    BY <1>11, <1>12, <2>1
  <2>. QED BY <1>12, <2>2, <2>3, <2>4 DEF Claims
<1>14. Place(a)'
  BY <1>1, <1>2, <1>11 DEF Place, Reached, Blank, files
<1>15. /\ attempt' \in [Hosts -> Attempts]
       /\ \A g \in Hosts : attempt'[g] = attempt[g] \/ Honest(attempt[g])'
  BY <1>9, <1>10, <1>13, <1>14, PutHonestly DEF Honest
<1>16. DeliveryTypeOK'
  BY <1>1, <1>3, <1>15 DEF IInv, TypeOK, DeliveryTypeOK, files, watch
<1>17. \A g \in Hosts : Remembers(g)'
  BY <1>1, <1>5, RememberedBy DEF watch
<1>. QED BY <1>1, <1>5, <1>15, <1>16, <1>17, Filed DEF files

LEMMA WriteKeeps ==
  ASSUME IInv, NEW h \in Hosts, Write(h)
  PROVE  IInv'
<1>1. /\ UNCHANGED <<hostVars, notifierVars, published, result, aside, proof, addressed,
                     claim, watch, late, moves, history>>
      /\ record' = RecordOf(attempt[h])
  BY DEF Write
<1>2. \E place \in {"notify", "mark", "finish"} :
        /\ Goto(h, place)
        /\ attempt[h].at = CASE place = "notify" -> "routed"
                             [] place = "mark" -> "accepted"
                             [] OTHER -> "emitted"
  BY DEF Write, AfterWrite
<1>3. Claims(attempt[h].version, attempt[h].flags) /\ Place(attempt[h])
  BY Types DEF Honest
<1>4. Goes(h)
  <2>1. PICK place \in {"notify", "mark", "finish"} :
          /\ Goto(h, place)
          /\ attempt[h].at = CASE place = "notify" -> "routed"
                               [] place = "mark" -> "accepted"
                               [] OTHER -> "emitted"
    BY <1>2
  <2>2. /\ place \in Places /\ place \notin Blank /\ attempt[h].at \notin Blank
        /\ Reached(place, attempt[h].flags)
    BY <1>3, <2>1 DEF Places, Blank, Reached, Place
  <2>. QED BY <2>1, <2>2, GoneTo
<1>5. InSession' = InSession
  BY <1>1 DEF InSession, notifierVars, calm
<1>6. Grows
  BY <1>1, <1>5 DEF Grows, history, IInv, TypeOK
<1>7. Claims(record.digest, record.flags)'
  <2>1. PICK v, flags : v = attempt[h].version /\ flags = attempt[h].flags
    OBVIOUS
  <2>2. Claims(v, flags)'
    BY <1>3, <1>6, <2>1, ClaimsStay
  <2>3. record'.digest = v /\ record'.flags = flags
    BY <1>1, <2>1 DEF RecordOf
  <2>. QED BY <2>2, <2>3
<1>8. record' \in [digest : 0 .. MaxVersions, flags : Flags]
  BY <1>1, Types DEF RecordOf, Attempts
<1>9. /\ attempt' \in [Hosts -> Attempts]
      /\ \A g \in Hosts : attempt'[g] = attempt[g] \/ Honest(attempt[g])'
  BY <1>4, <1>6, GoesHonestly
<1>10. DeliveryTypeOK'
  BY <1>1, <1>8, <1>9 DEF IInv, TypeOK, DeliveryTypeOK, watch, history
<1>11. \A g \in Hosts : Remembers(g)'
  BY <1>1, <1>6, RememberedBy DEF watch
<1>. QED BY <1>1, <1>6, <1>7, <1>9, <1>10, <1>11, Filed DEF history

LEMMA MarkKeeps ==
  ASSUME IInv, NEW h \in Hosts, Mark(h)
  PROVE  IInv'
<1>1. UNCHANGED <<hostVars, notifierVars, files, queued, ignored, late, moves, acked, gone>>
  BY DEF Mark
<1>2. /\ Claims(attempt[h].version, attempt[h].flags) /\ Place(attempt[h])
      /\ attempt[h].version \in Versions /\ attempt[h].at = "mark"
      /\ attempt[h].flags.accepted
  BY Types, VersionsAssumption
     DEF Mark, At, Honest, Place, Reached, Blank, Attempts, Versions, NoFile
<1>3. CASE ~Owns(h)
  <2>1. End(h) /\ UNCHANGED <<seen, owed, emitted>>
    BY <1>3 DEF Mark
  <2>. QED BY <1>1, <2>1, Ended, NotifierSame, Steps, Types DEF Aloof, history
<1>4. CASE Owns(h)
  <2>1. /\ seen' = [seen EXCEPT ![h] = "new"]
        /\ owed' = [owed EXCEPT ![h] = owed[h] \/ ~attempt[h].ready]
        /\ claim' = claim
    BY <1>4 DEF Mark, Set
  <2>2. /\ emitted' \subseteq Versions /\ emitted \subseteq emitted'
        /\ attempt[h].version \in emitted'
    BY <1>2, <1>4 DEF Mark, IInv, TypeOK, Claims
  <2>3. InSession' = InSession
    BY <1>1 DEF InSession, notifierVars, calm
  <2>4. Grows
    BY <1>1, <2>2, <2>3 DEF Grows, files, IInv, TypeOK
  <2>5. Announced'
    <3>1. Brought'
      BY <1>1, <1>2, <2>3 DEF Claims, Brought
    <3>. QED BY <2>2, <3>1 DEF Announced
  <2>6. PICK a : a = [attempt[h] EXCEPT !.at = IF attempt[h].flags.emitted
                                              THEN "finish" ELSE "emitted",
                                       !.flags.emitted = TRUE]
    OBVIOUS
  <2>7. PICK flags : flags = [attempt[h].flags EXCEPT !.emitted = TRUE]
    OBVIOUS
  <2>8. /\ flags \in Flags /\ flags.intercom = attempt[h].flags.intercom
        /\ flags.taken = attempt[h].flags.taken /\ flags.emitted
        /\ flags.accepted = attempt[h].flags.accepted
    BY <2>7, Types DEF Attempts, Flags
  <2>9. a = [attempt[h] EXCEPT !.at = IF attempt[h].flags.emitted
                                      THEN "finish" ELSE "emitted",
                               !.flags = flags]
    BY <2>6, <2>7, Types DEF Attempts
  <2>10. a \in Attempts
    BY <2>8, <2>9, Types DEF Attempts, Places
  <2>11. attempt' = Set(attempt, h, a)
    <3>1. CASE attempt[h].flags.emitted
      <4>1. attempt[h].flags.emitted = TRUE
        BY <3>1, Types DEF Attempts, Flags
      <4>2. flags = attempt[h].flags
        BY <2>7, <4>1, Types DEF Attempts, Flags
      <4>3. attempt' = [attempt EXCEPT ![h].at = "finish"]
        BY <1>4, <3>1 DEF Mark, Goto
      <4>4. a = [attempt[h] EXCEPT !.at = "finish"]
        BY <2>9, <3>1, <4>2, Types DEF Attempts
      <4>. QED BY <4>3, <4>4, Types DEF Set
    <3>2. CASE ~attempt[h].flags.emitted
      <4>1. attempt' = [attempt EXCEPT ![h].at = "emitted", ![h].flags.emitted = TRUE]
        BY <1>4, <3>2 DEF Mark
      <4>. QED BY <2>6, <3>2, <4>1, Types DEF Set, Attempts
    <3>. QED BY <3>1, <3>2
  <2>12. /\ a.at \in {"finish", "emitted"} /\ a.version = attempt[h].version
         /\ a.ready = attempt[h].ready /\ a.flags = flags
    BY <2>8, <2>9, Types DEF Attempts
  <2>13. Claims(a.version, a.flags)'
    <3>1. PICK v, old : v = attempt[h].version /\ old = attempt[h].flags
      OBVIOUS
    <3>2. Claims(v, old)'
      BY <1>2, <2>4, <3>1, ClaimsStay
    <3>. QED BY <2>2, <2>8, <2>12, <3>1, <3>2 DEF Claims
  <2>14. Place(a)'
    BY <1>1, <1>2, <2>8, <2>12 DEF Place, Reached, Blank, files, NoFile
  <2>15. /\ attempt' \in [Hosts -> Attempts]
         /\ \A g \in Hosts : attempt'[g] = attempt[g] \/ Honest(attempt[g])'
    BY <2>10, <2>11, <2>13, <2>14, PutHonestly DEF Honest
  <2>16. DeliveryTypeOK'
    <3>1. seen' \in [Hosts -> {"no", "new", "old"}] /\ owed' \in [Hosts -> BOOLEAN]
      BY <2>1 DEF IInv, TypeOK
    <3>. QED BY <1>1, <2>1, <2>2, <2>15, <3>1 DEF IInv, TypeOK, DeliveryTypeOK, files
  <2>17. \A g \in Hosts : Remembers(g)'
    BY <2>5 DEF Remembers
  <2>. QED BY <1>1, <2>4, <2>15, <2>16, <2>17, Filed DEF files
<1>. QED BY <1>3, <1>4

\* removeOwnedFileSnapshotAsync, by an attempt or by what outlives it.
LEMMA MovedHonest ==
  ASSUME IInv, NEW b \in Attempts, Honest(b), b.at = "remove"
  PROVE  Moved(b) \in Attempts /\ Honest(Moved(b))
<1>1. PICK a : a = Moved(b)
  OBVIOUS
<1>2. result \in 0 .. MaxVersions
  BY DEF IInv, TypeOK
<1>3. a \in Attempts
  BY <1>1, <1>2 DEF Moved, Attempts, Places
<1>4. /\ a.at \in {"compare", "unrecord"} /\ a.version = b.version
      /\ a.ready = b.ready /\ a.flags = b.flags
  BY <1>1 DEF Moved, Attempts
<1>5. Honest(a)
  BY <1>4 DEF Honest, Place, Reached, Blank
<1>. QED BY <1>1, <1>3, <1>5

LEMMA SettleTypes ==
  ASSUME IInv, NEW b \in Attempts, SettleAside(b)
  PROVE  /\ result' \in 0 .. MaxVersions /\ aside' \subseteq Versions
         /\ gone' \in BOOLEAN
BY DEF IInv, TypeOK, SettleAside, Attempts

LEMMA MoveTypes ==
  ASSUME IInv, MoveAside
  PROVE  result' \in 0 .. MaxVersions /\ aside' \subseteq Versions
BY VersionsAssumption DEF IInv, TypeOK, MoveAside, Exists, NoFile, Versions

\* A step of the removal: what happened so far, and the memories, are as before.
LEMMA Removal ==
  ASSUME IInv, UNCHANGED <<hostVars, notifierVars, proof, addressed, acked, emitted>>,
         \A g \in Hosts : seen'[g] # "no" \/ owed'[g] => seen[g] # "no" \/ owed[g]
  PROVE  Grows /\ \A g \in Hosts : Remembers(g)'
<1>1. InSession' = InSession
  BY DEF InSession, notifierVars, calm
<1>2. Grows
  BY <1>1 DEF Grows, IInv, TypeOK
<1>. QED BY <1>2, RememberedBy

LEMMA RemoveKeeps ==
  ASSUME IInv, NEW h \in Hosts, Remove(h)
  PROVE  IInv'
<1>1. /\ UNCHANGED <<hostVars, notifierVars, published, record, proof, addressed, claim,
                     watch, late, moves, history>>
      /\ MoveAside
  BY DEF Remove
<1>2. Goes(h)
  BY Types, MovedHonest DEF Remove, At, Goes
<1>3. Grows /\ \A g \in Hosts : Remembers(g)'
  BY <1>1, Removal DEF watch, history
<1>4. /\ attempt' \in [Hosts -> Attempts]
      /\ \A g \in Hosts : attempt'[g] = attempt[g] \/ Honest(attempt[g])'
  BY <1>2, <1>3, GoesHonestly
<1>5. DeliveryTypeOK'
  BY <1>1, <1>4, MoveTypes DEF IInv, TypeOK, DeliveryTypeOK, watch, history
<1>. QED BY <1>1, <1>3, <1>4, <1>5, Filed DEF history

LEMMA CompareKeeps ==
  ASSUME IInv, NEW h \in Hosts, Compare(h)
  PROVE  IInv'
<1>1. /\ UNCHANGED <<hostVars, notifierVars, published, record, proof, addressed, seen,
                     owed, ignored, late, moves, acked, emitted>>
      /\ SettleAside(attempt[h]) /\ attempt[h].at = "compare"
  BY DEF Compare, At
<1>2. Announced /\ proof
  BY <1>1, Types DEF Honest, Place, Reached
<1>3. Goes(h) /\ claim' \in Hosts \cup {Nobody} /\ queued' \in [Hosts -> BOOLEAN]
  <2>1. CASE End(h) /\ Retry(h)
    BY <2>1, Ended, Types DEF Retry, Set
  <2>2. CASE Goto(h, "unrecord") /\ UNCHANGED <<claim, queued>>
    <3>1. /\ "unrecord" \in Places /\ "unrecord" \notin Blank
          /\ attempt[h].at \notin Blank /\ Reached("unrecord", attempt[h].flags)
      BY <1>1, <1>2 DEF Places, Blank, Reached
    <3>. QED BY <2>2, <3>1, GoneTo, Types
  <2>. QED BY <2>1, <2>2 DEF Compare
<1>4. Grows /\ \A g \in Hosts : Remembers(g)'
  BY <1>1, Removal
<1>5. /\ attempt' \in [Hosts -> Attempts]
      /\ \A g \in Hosts : attempt'[g] = attempt[g] \/ Honest(attempt[g])'
  BY <1>3, <1>4, GoesHonestly
<1>6. DeliveryTypeOK'
  <2>1. result' \in 0 .. MaxVersions /\ aside' \subseteq Versions /\ gone' \in BOOLEAN
    BY <1>1, SettleTypes, Types
  <2>. QED BY <1>1, <1>3, <1>5, <2>1 DEF IInv, TypeOK, DeliveryTypeOK
<1>7. Announced' /\ proof'
  BY <1>1, <1>2, <1>4, AnnouncedStays
<1>. QED BY <1>1, <1>4, <1>5, <1>6, <1>7, Filed

LEMMA NothingRecorded ==
  ASSUME record' = NoRecord
  PROVE  /\ record' \in [digest : 0 .. MaxVersions, flags : Flags]
         /\ Claims(record.digest, record.flags)'
<1>1. NoFlags \in Flags
  BY DEF NoFlags, Flags
<1>2. record' \in [digest : 0 .. MaxVersions, flags : Flags]
  BY <1>1, VersionsAssumption DEF NoRecord, NoFile
<1>3. Claims(record.digest, record.flags)'
  BY DEF NoRecord, NoFlags, Claims
<1>. QED BY <1>2, <1>3

LEMMA UnrecordKeeps ==
  ASSUME IInv, NEW h \in Hosts, Unrecord(h)
  PROVE  IInv'
<1>1. /\ UNCHANGED <<hostVars, notifierVars, published, result, aside, proof, addressed,
                     seen, queued, ignored, late, moves, history>>
      /\ record' = NoRecord /\ End(h)
  BY DEF Unrecord
<1>2. /\ owed' \in [Hosts -> BOOLEAN]
      /\ \A g \in Hosts : owed'[g] => owed[g]
  BY DEF Unrecord, Set, IInv, TypeOK
<1>3. Grows /\ \A g \in Hosts : Remembers(g)'
  BY <1>1, <1>2, Removal DEF history
<1>4. /\ attempt' \in [Hosts -> Attempts] /\ claim' \in Hosts \cup {Nobody}
      /\ \A g \in Hosts : attempt'[g] = attempt[g] \/ Honest(attempt[g])'
  BY <1>1, <1>3, Ended, GoesHonestly
<1>5. DeliveryTypeOK'
  BY <1>1, <1>2, <1>4, NothingRecorded DEF IInv, TypeOK, DeliveryTypeOK, history
<1>. QED BY <1>1, <1>3, <1>4, <1>5, NothingRecorded, Filed DEF history

LEMMA LateKeeps ==
  ASSUME IInv, NEW h \in Hosts, NEW a, LateStep(h, a)
  PROVE  IInv'
<1>1. UNCHANGED <<hostVars, notifierVars, published, proof, addressed, claim, watch,
                  attempt, moves, acked, emitted>>
  BY DEF LateStep
<1>2. a \in Attempts /\ Honest(a) /\ <<h, a>> \in late
  BY DEF LateStep, IInv, TypeOK
<1>3. Grows /\ \A g \in Hosts : Remembers(g)'
  BY <1>1, Removal DEF watch
<1>4. late \subseteq Hosts \X Attempts
  BY DEF IInv, TypeOK
<1>. USE DEF DeliveryTypeOK, watch
<1>5. CASE record' = RecordOf(a) /\ late' = late \ {<<h, a>>} /\ UNCHANGED <<result, aside, gone>>
  <2>1. record' \in [digest : 0 .. MaxVersions, flags : Flags]
    BY <1>2, <1>5 DEF RecordOf, Attempts
  <2>2. Claims(record.digest, record.flags)'
    <3>1. Claims(a.version, a.flags)'
      BY <1>2, <1>3, ClaimsStay DEF Honest
    <3>2. record'.digest = a.version /\ record'.flags = a.flags
      BY <1>5 DEF RecordOf
    <3>. QED BY <3>1, <3>2
  <2>3. DeliveryTypeOK'
    BY <1>1, <1>4, <1>5, <2>1 DEF IInv, TypeOK
  <2>. QED BY <1>1, <1>3, <1>5, <2>2, <2>3, Filed
<1>6. CASE /\ a.at = "remove" /\ MoveAside /\ UNCHANGED <<record, gone>>
           /\ late' = (late \ {<<h, a>>}) \cup (IF Exists THEN {<<h, Moved(a)>>} ELSE {})
  <2>1. PICK b : b = Moved(a)
    OBVIOUS
  <2>2. b \in Attempts /\ Honest(b)
    BY <1>2, <1>6, <2>1, MovedHonest
  <2>3. late' \subseteq late \cup {<<h, b>>}
    BY <1>6, <2>1
  <2>4. ASSUME NEW op \in late' PROVE op \in late \/ Honest(op[2])'
    BY <1>3, <2>2, <2>3, HonestStays
  <2>5. late' \subseteq Hosts \X Attempts
    BY <1>4, <2>2, <2>3
  <2>6. DeliveryTypeOK'
    BY <1>1, <1>6, <2>5, MoveTypes DEF IInv, TypeOK
  <2>. QED BY <1>1, <1>3, <1>6, <2>4, <2>6, Filed
<1>7. CASE a.at = "compare" /\ SettleAside(a) /\ late' = late \ {<<h, a>>} /\ UNCHANGED record
  <2>1. Announced /\ proof
    BY <1>2, <1>7 DEF Honest, Place, Reached
  <2>2. Announced' /\ proof'
    BY <1>1, <1>3, <2>1, AnnouncedStays
  <2>3. DeliveryTypeOK'
    BY <1>1, <1>2, <1>4, <1>7, SettleTypes DEF IInv, TypeOK
  <2>. QED BY <1>1, <1>3, <1>7, <2>2, <2>3, Filed
<1>8. CASE record' = NoRecord /\ late' = late \ {<<h, a>>} /\ UNCHANGED <<result, aside, gone>>
  <2>1. DeliveryTypeOK'
    BY <1>1, <1>4, <1>8, NothingRecorded DEF IInv, TypeOK
  <2>. QED BY <1>1, <1>3, <1>8, <2>1, NothingRecorded, Filed
<1>. QED BY <1>5, <1>6, <1>7, <1>8 DEF LateStep

LEMMA AttemptKeeps ==
  ASSUME IInv, NEW h \in Hosts, AttemptStep(h)
  PROVE  IInv'
BY ReadKeeps, OwnKeeps, RestoreKeeps, IntercomKeeps, RouteKeeps, WriteKeeps, NotifyKeeps,
   AnswerKeeps, MarkKeeps, DisposeKeeps, RemoveKeeps, CompareKeeps, UnrecordKeeps
   DEF AttemptStep

LEMMA StutterKeeps ==
  ASSUME IInv, UNCHANGED vars
  PROVE  IInv'
<1>1. UNCHANGED <<hostVars, notifierVars, files, claim, watch, attempt, late, moves, history>>
  BY DEF vars, deliveryVars
<1>2. DeliveryTypeOK'
  BY <1>1 DEF IInv, TypeOK, DeliveryTypeOK, files, watch, history
<1>3. Grows /\ \A g \in Hosts : Remembers(g)'
  BY <1>1, Removal DEF files, history, watch
<1>. QED BY <1>1, <1>2, <1>3, Filed DEF files, history

-----------------------------------------------------------------------------
(* Theorems *)

\* Every step keeps what the attempts, the records and the memories claim.
THEOREM Invariance == Spec => []IInv
<1>1. ASSUME IInv, Next PROVE IInv'
  <2>1. CASE Publish \/ ObserveEnd
    BY <1>1, <2>1, WorldKeeps
  <2>2. ASSUME NEW h \in Hosts, ExpireSeen(h) \/ Notice(h) \/ Begin(h) PROVE IInv'
    BY <1>1, <2>2, WatchingKeeps
  <2>3. ASSUME NEW h \in Hosts, AttemptStep(h) PROVE IInv'
    BY <1>1, <2>3, AttemptKeeps
  <2>4. ASSUME NEW h \in Hosts, RestoreFails(h) PROVE IInv'
    BY <1>1, <2>4, RestoreKeeps
  <2>5. ASSUME NEW h \in Hosts, Fail(h) PROVE IInv'
    BY <1>1, <2>5, FailKeeps
  <2>6. ASSUME NEW h \in Hosts, NEW yes \in BOOLEAN, Ack(h, yes) PROVE IInv'
    BY <1>1, <2>6, AckKeeps
  <2>7. ASSUME NEW h \in Hosts, NEW op \in late, LateStep(h, op[2]) PROVE IInv'
    BY <1>1, <2>7, LateKeeps
  <2>8. ASSUME NEW h \in Hosts, SessionStep(h) PROVE IInv'
    BY <1>1, <2>8, SessionKeeps
  <2>9. ASSUME NEW h \in Hosts, NotifierStep(h), UNCHANGED deliveryVars PROVE IInv'
    BY <1>1, <2>9, NotifierKeeps
  <2>. QED BY <1>1, <2>1, <2>2, <2>3, <2>4, <2>5, <2>6, <2>7, <2>8, <2>9 DEF Next
<1>2. IInv /\ [Next]_vars => IInv'
  BY <1>1, StutterKeeps
<1>. QED BY Initially, <1>2, PTL DEF Spec

\* The types of the files, of every Host's memory and of its attempt.
THEOREM TypeCorrect == Spec => []TypeOK
<1>1. IInv => TypeOK
  BY DEF IInv
<1>. QED BY Invariance, <1>1, PTL

\* The delivery record says only what has happened (writeDeliveryState).
THEOREM RecordAlwaysTrue == Spec => []RecordIsTrue
<1>1. IInv => RecordIsTrue
  BY DEF IInv, Claims, Brought, RecordIsTrue
<1>. QED BY Invariance, <1>1, PTL

\* A result file is unlinked only after its delivery (removeDeliveredResult).
THEOREM OnlyDeliveredRemoved == Spec => []RemovedIsDelivered
<1>1. IInv => RemovedIsDelivered
  BY DEF IInv, Announced, Brought, RemovedIsDelivered
<1>. QED BY Invariance, <1>1, PTL

-----------------------------------------------------------------------------
(* Nothing for another Session *)

\* A completion waits only in a Host whose Session is the one of the run.
WaitsAtHome == \A h \in Hosts : pending[h] # "none" => home[h]

Told(h) == (~sent[h] /\ sent'[h]) \/ (row # row' /\ pending[h] # pending'[h])

LEMMA Untold ==
  ASSUME WaitsAtHome, UNCHANGED <<pending, home, sent, row>>
  PROVE  WaitsAtHome' /\ \A h \in Hosts : Told(h) => home[h]
BY DEF WaitsAtHome, Told

LEMMA NotifierAtHome ==
  ASSUME NotifierTypeOK, WaitsAtHome, NEW h \in Hosts, NotifierStep(h)
  PROVE  WaitsAtHome' /\ \A g \in Hosts : Told(g) => home[g]
<1>. USE DEF Set
<1>1. /\ pending \in [Hosts -> {"none", "waiting", "submitted", "observed"}]
      /\ sent \in [Hosts -> BOOLEAN] /\ home' = home
  BY DEF NotifierTypeOK, NotifierStep, Gate, Send, SendFails, Observe, Request, Settle,
         UserTurn, EndRun, hostVars
<1>2. \/ UNCHANGED <<pending, row>>
      \/ /\ pending[h] # "none"
         /\ \A g \in Hosts : g # h => pending'[g] = pending[g]
      \/ row' = row /\ \A g \in Hosts : pending'[g] # "none" => pending[g] # "none"
  <2>1. ASSUME Accept(h) \/ Refuse(h) \/ Finish(h, FALSE, FALSE)
        PROVE  \A g \in Hosts : g # h => pending'[g] = pending[g]
    BY <1>1, <2>1 DEF Accept, Refuse, Finish
  <2>2. CASE Gate(h)
    BY <1>1, <2>1, <2>2 DEF Gate, unresolved
  <2>3. CASE Send(h)
    BY <1>1, <2>3 DEF Send
  <2>4. CASE SendFails(h)
    BY <1>1, <2>1, <2>4 DEF SendFails
  <2>5. CASE Observe(h)
    BY <1>1, <2>5 DEF Observe
  <2>6. CASE Request(h)
    BY <1>1, <2>1, <2>6 DEF Request
  <2>7. CASE Settle(h)
    BY <1>1, <2>1, <2>7 DEF Settle, unresolved
  <2>8. CASE UserTurn(h) \/ EndRun(h)
    BY <2>8 DEF UserTurn, EndRun, unresolved
  <2>. QED BY <2>2, <2>3, <2>4, <2>5, <2>6, <2>7, <2>8 DEF NotifierStep
<1>3. \A g \in Hosts : ~sent[g] /\ sent'[g] => g = h /\ pending[h] # "none"
  BY <1>1 DEF NotifierStep, Gate, Send, SendFails, Observe, Request, Settle, UserTurn,
              EndRun, agent
<1>. QED BY <1>1, <1>2, <1>3 DEF WaitsAtHome, Told

LEMMA StepAtHome ==
  ASSUME TypeOK, WaitsAtHome, [Next]_vars
  PROVE  WaitsAtHome' /\ \A h \in Hosts : Told(h) => home[h]
<1>1. /\ pending \in [Hosts -> {"none", "waiting", "submitted", "observed"}]
      /\ sent \in [Hosts -> BOOLEAN] /\ home \in [Hosts -> BOOLEAN] /\ NotifierTypeOK
  BY DEF TypeOK, NotifierTypeOK
<1>. USE DEF notifierVars, calm, hostVars, quiet
<1>2. CASE UNCHANGED vars
  BY <1>2, Untold DEF vars
<1>3. CASE Publish \/ ObserveEnd
  BY <1>3, Untold DEF Publish, ObserveEnd
<1>4. ASSUME NEW h \in Hosts,
             \/ ExpireSeen(h) \/ Notice(h) \/ Begin(h) \/ RestoreFails(h) \/ Fail(h)
             \/ \E yes \in BOOLEAN : Ack(h, yes)
             \/ \E op \in late : LateStep(h, op[2])
             \/ Leave(h) \/ Watch(h)
      PROVE  UNCHANGED <<pending, home, sent, row>>
  <2>1. CASE ExpireSeen(h) \/ Notice(h) \/ Begin(h) \/ Leave(h) \/ Watch(h)
    BY <2>1 DEF ExpireSeen, Notice, Begin, Leave, Watch
  <2>2. CASE RestoreFails(h) \/ Fail(h)
    BY <2>2 DEF RestoreFails, Restored, Fail
  <2>3. CASE \E yes \in BOOLEAN : Ack(h, yes)
    BY <2>3 DEF Ack
  <2>4. CASE \E op \in late : LateStep(h, op[2])
    BY <2>4 DEF LateStep
  <2>. QED BY <1>4, <2>1, <2>2, <2>3, <2>4
<1>5. ASSUME NEW h \in Hosts, AttemptStep(h), ~Notify(h)
      PROVE  UNCHANGED <<pending, home, sent, row>>
  <2>1. CASE Read(h) \/ Own(h) \/ Restore(h) \/ Intercom(h) \/ Route(h)
    BY <2>1 DEF Read, Own, Restore, Restored, Intercom, Route
  <2>2. CASE Write(h) \/ Answer(h) \/ Mark(h) \/ Dispose(h)
    BY <2>2 DEF Write, Answer, Mark, Dispose
  <2>3. CASE Remove(h) \/ Compare(h) \/ Unrecord(h)
    BY <2>3 DEF Remove, Compare, Unrecord
  <2>. QED BY <1>5, <2>1, <2>2, <2>3 DEF AttemptStep
<1>6. ASSUME NEW h \in Hosts, Notify(h)
      PROVE  WaitsAtHome' /\ \A g \in Hosts : Told(g) => home[g]
  <2>1. UNCHANGED home /\ (UNCHANGED notifierVars \/ (Owns(h) /\ Enqueue(h)))
    BY <1>6 DEF Notify
  <2>2. CASE UNCHANGED notifierVars
    BY <2>1, <2>2, Untold
  <2>3. CASE Owns(h) /\ Enqueue(h)
    BY <1>1, <2>1, <2>3 DEF Owns, Enqueue, Set, agent, WaitsAtHome, Told
  <2>. QED BY <2>1, <2>2, <2>3
<1>7. ASSUME NEW h \in Hosts, Interrupt(h)
      PROVE  WaitsAtHome' /\ \A g \in Hosts : Told(g) => home[g]
  BY <1>1, <1>7 DEF Interrupt, Set, agent, WaitsAtHome, Told
<1>8. ASSUME NEW h \in Hosts, NEW own \in BOOLEAN, Reset(h, own), home' = Set(home, h, own)
      PROVE  WaitsAtHome' /\ \A g \in Hosts : Told(g) => home[g]
  BY <1>1, <1>8 DEF Reset, Set, WaitsAtHome, Told
<1>9. ASSUME NEW h \in Hosts, SessionStep(h)
      PROVE  WaitsAtHome' /\ \A g \in Hosts : Told(g) => home[g]
  <2>1. CASE Leave(h) \/ Watch(h)
    BY <1>4, <2>1, Untold
  <2>2. CASE Interrupt(h)
    BY <1>7, <2>2
  <2>3. CASE \E own \in BOOLEAN : Join(h, own)
    BY <1>8, <2>3 DEF Join
  <2>4. CASE Crash(h)
    <3>1. FALSE \in BOOLEAN /\ Reset(h, FALSE) /\ home' = Set(home, h, FALSE)
      BY <2>4 DEF Crash
    <3>. QED BY <1>8, <3>1
  <2>. QED BY <1>9, <2>1, <2>2, <2>3, <2>4 DEF SessionStep
<1>10. ASSUME NEW h \in Hosts, NotifierStep(h)
       PROVE  WaitsAtHome' /\ \A g \in Hosts : Told(g) => home[g]
  BY <1>1, <1>10, NotifierAtHome
<1>. QED BY <1>2, <1>3, <1>4, <1>5, <1>6, <1>9, <1>10, Untold DEF Next

\* A message or an entry of the outcome goes only into the Session of the run
\* (the epoch and ownership checks before every step of a delivery).
THEOREM NothingForOthers == Spec => NotIntoOtherSession
<1>1. Init => WaitsAtHome
  BY DEF Init, NotifierInit, WaitsAtHome
<1>2. TypeOK /\ WaitsAtHome /\ [Next]_vars => WaitsAtHome'
  BY StepAtHome
<1>3. TypeOK /\ WaitsAtHome /\ [Next]_vars
      => [\A h \in Hosts : (~sent[h] /\ sent'[h]) \/ (row # row' /\ pending[h] # pending'[h])
            => home[h]]_vars
  BY StepAtHome DEF Told
<1>. QED BY <1>1, <1>2, <1>3, TypeCorrect, PTL DEF Spec, NotIntoOtherSession

-----------------------------------------------------------------------------
(* Replaced results stay *)

LEMMA SettledLeaves ==
  ASSUME NEW a, SettleAside(a)
  PROVE  (OnDisk \ {NoFile}) \ OnDisk' \subseteq {a.version}
<1>1. CASE ~Changed(a)
  BY <1>1 DEF SettleAside, Changed, OnDisk
<1>2. CASE Changed(a)
  BY <1>2 DEF SettleAside, OnDisk, Exists
<1>. QED BY <1>1, <1>2

LEMMA MovedStays ==
  ASSUME MoveAside
  PROVE  (OnDisk \ {NoFile}) \ OnDisk' = {}
BY DEF MoveAside, OnDisk, Exists

LEMMA OnlyReadGoes ==
  ASSUME TypeOK, [Next]_vars, published' = published
  PROVE  (OnDisk \ {NoFile}) \ OnDisk' \subseteq ReadBy
<1>1. CASE UNCHANGED <<result, aside>>
  BY <1>1 DEF OnDisk
<1>2. ASSUME NEW h \in Hosts, AttemptStep(h) PROVE (OnDisk \ {NoFile}) \ OnDisk' \subseteq ReadBy
  <2>1. CASE Remove(h)
    BY <2>1, MovedStays DEF Remove
  <2>2. CASE Compare(h)
    <3>1. (OnDisk \ {NoFile}) \ OnDisk' \subseteq {attempt[h].version}
      BY <2>2, SettledLeaves DEF Compare
    <3>. QED BY <3>1 DEF ReadBy
  <2>3. CASE \/ Read(h) \/ Own(h) \/ Restore(h) \/ Intercom(h) \/ Route(h) \/ Write(h)
             \/ Notify(h) \/ Answer(h) \/ Mark(h) \/ Dispose(h) \/ Unrecord(h)
    <3>1. UNCHANGED <<result, aside>>
      BY <2>3 DEF Read, Own, Restore, Restored, Intercom, Route, Write, Notify, Answer, Mark,
         Dispose, Unrecord, quiet, files
    <3>. QED BY <1>1, <3>1
  <2>. QED BY <1>2, <2>1, <2>2, <2>3 DEF AttemptStep
<1>3. ASSUME NEW h \in Hosts, NEW op \in late, op[1] = h, LateStep(h, op[2])
      PROVE  (OnDisk \ {NoFile}) \ OnDisk' \subseteq ReadBy
  <2>1. CASE UNCHANGED <<result, aside>>
    BY <1>1, <2>1
  <2>2. CASE MoveAside
    BY <2>2, MovedStays
  <2>3. CASE SettleAside(op[2])
    <3>1. (OnDisk \ {NoFile}) \ OnDisk' \subseteq {op[2].version}
      BY <2>3, SettledLeaves
    <3>. QED BY <3>1 DEF ReadBy
  <2>. QED BY <1>3, <2>1, <2>2, <2>3 DEF LateStep
<1>4. ASSUME NEW h \in Hosts,
             \/ ExpireSeen(h) \/ Notice(h) \/ Begin(h) \/ RestoreFails(h) \/ Fail(h)
             \/ \E yes \in BOOLEAN : Ack(h, yes)
             \/ SessionStep(h)
             \/ NotifierStep(h) /\ UNCHANGED deliveryVars
      PROVE  UNCHANGED <<result, aside>>
  <2>1. CASE SessionStep(h)
    BY <2>1 DEF SessionStep, Leave, Interrupt, Watch, Crash, Join, files, deliveryVars
  <2>2. CASE RestoreFails(h) \/ Fail(h) \/ \E yes \in BOOLEAN : Ack(h, yes)
    BY <2>2 DEF RestoreFails, Restored, Fail, Ack, files
  <2>3. CASE ExpireSeen(h) \/ Notice(h) \/ Begin(h)
    BY <2>3 DEF ExpireSeen, Notice, Begin, files
  <2>4. CASE NotifierStep(h) /\ UNCHANGED deliveryVars
    BY <2>4 DEF files, deliveryVars
  <2>. QED BY <1>4, <2>1, <2>2, <2>3, <2>4
<1>5. CASE ObserveEnd \/ UNCHANGED vars
  BY <1>1, <1>5 DEF ObserveEnd, vars, deliveryVars, files
<1>6. ~Publish
  <2>1. published \in Nat
    BY VersionsAssumption DEF TypeOK
  <2>. QED BY <2>1 DEF Publish
<1>. QED BY <1>1, <1>2, <1>3, <1>4, <1>5, <1>6 DEF Next

\* What leaves the disk was read by an attempt: a result that is replaced while
\* the one before it is removed goes back or stays in quarantine
\* (removeOwnedFileSnapshotAsync), also when the removal outlives its attempt.
THEOREM OnlyReadAlways == Spec => OnlyReadIsRemoved
<1>1. TypeOK /\ [Next]_vars
      => [published' = published => (OnDisk \ {NoFile}) \ OnDisk' \subseteq ReadBy]_vars
  BY OnlyReadGoes
<1>. QED BY <1>1, TypeCorrect, PTL DEF Spec, OnlyReadIsRemoved

-----------------------------------------------------------------------------
(* Told once *)

\* A message that is being prepared or is on its way is the only one: its
\* delivery waits for the answer, or its Session is being left.
Sole(h) == pending[h] = "submitted" \/ (pending[h] = "none" /\ stage[h] = "leaving")

Once(h) ==
  /\ told[h] <= 1
  /\ sent[h] => told[h] = 0 /\ busy[h] /\ flush[h] # "prepare" /\ Sole(h)
  /\ flush[h] = "prepare" => ~busy[h] /\ Sole(h)
  /\ pending[h] = "waiting" => told[h] = 0 /\ ~sent[h]
  /\ pending[h] = "submitted" => told[h] = 0 /\ (sent[h] \/ flush[h] = "prepare")
  /\ pending[h] # "none" => attempt[h].at = "answer" /\ answer[h] = "none"
  /\ answer[h] # "none" => attempt[h].at = "answer"
  /\ home[h] /\ stage[h] \in {"open", "watching"} /\ told[h] > 0 =>
       delivered[h] \/ pending[h] = "observed"

\* The user starts no turn while a message is prepared.
PreparesAlone == \A h \in Hosts : UserTurn(h) => flush[h] # "prepare"

\* A Host about whose message nothing changes; only its attempt may go on.
Untouched(h) ==
  /\ told'[h] = told[h] /\ sent'[h] = sent[h] /\ busy'[h] = busy[h]
  /\ flush'[h] = flush[h] /\ pending'[h] = pending[h] /\ delivered'[h] = delivered[h]
  /\ home'[h] = home[h] /\ stage'[h] = stage[h]
  /\ \/ attempt'[h] = attempt[h] /\ answer'[h] = answer[h]
     \/ pending[h] = "none" /\ answer'[h] = "none"

LEMMA UntouchedOnce ==
  ASSUME NEW h \in Hosts, Once(h), Untouched(h)
  PROVE  Once(h)'
BY DEF Once, Sole, Untouched

LEMMA VerdictIsOnes ==
  ASSUME NotifierTypeOK, NEW h \in Hosts, Accept(h) \/ Refuse(h) \/ Finish(h, FALSE, FALSE)
  PROVE  /\ pending'[h] = "none"
         /\ delivered[h] \/ (pending[h] = "observed" /\ Accept(h)) => delivered'[h]
         /\ \A g \in Hosts : g # h => /\ pending'[g] = pending[g] /\ answer'[g] = answer[g]
                                      /\ delivered'[g] = delivered[g]
BY DEF Accept, Refuse, Finish, Set, NotifierTypeOK

LEMMA NotifierOnce ==
  ASSUME NotifierTypeOK, NEW h \in Hosts, Once(h), NotifierStep(h), UNCHANGED attempt,
         UserTurn(h) => flush[h] # "prepare"
  PROVE  Once(h)' /\ \A g \in Hosts : g # h => Untouched(g)
<1>. USE DEF Set, agent, runs, unresolved, hostVars
<1>1. /\ told \in [Hosts -> Nat] /\ flush \in [Hosts -> {"off", "gate", "prepare"}]
      /\ pending \in [Hosts -> {"none", "waiting", "submitted", "observed"}]
      /\ sent \in [Hosts -> BOOLEAN] /\ busy \in [Hosts -> BOOLEAN]
  BY DEF NotifierTypeOK
<1>2. UNCHANGED <<stage, home>>
  BY DEF NotifierStep, Gate, Send, SendFails, Observe, Request, Settle, UserTurn, EndRun
<1>3. CASE Gate(h)
  <2>1. UNCHANGED <<told, sent, busy>> /\ pending[h] \in {"none", "waiting"}
    BY <1>3 DEF Gate
  <2>2. CASE pending[h] = "none"
    BY <1>1, <1>2, <1>3, <2>1, <2>2 DEF Gate, Once, Sole, Untouched
  <2>3. CASE pending[h] = "waiting" /\ ~MayContinue(h)
    BY <1>1, <1>2, <1>3, <2>1, <2>3, VerdictIsOnes DEF Gate, Once, Sole, Untouched
  <2>4. CASE pending[h] = "waiting" /\ MayContinue(h)
    BY <1>1, <1>2, <1>3, <2>1, <2>4 DEF Gate, Once, Sole, Untouched
  <2>. QED BY <2>1, <2>2, <2>3, <2>4
<1>4. CASE Send(h)
  BY <1>1, <1>2, <1>4 DEF Send, Once, Sole, Untouched
<1>5. CASE SendFails(h)
  BY <1>1, <1>2, <1>5, VerdictIsOnes DEF SendFails, Once, Sole, Untouched
<1>6. CASE Observe(h)
  BY <1>1, <1>2, <1>6 DEF Observe, Once, Sole, Untouched
<1>7. CASE Request(h)
  <2>1. pending[h] = "observed" /\ Accept(h) /\ UNCHANGED <<told, sent, busy, flush>>
    BY <1>7 DEF Request
  <2>2. /\ pending'[h] = "none" /\ delivered'[h]
        /\ \A g \in Hosts : g # h => /\ pending'[g] = pending[g] /\ answer'[g] = answer[g]
                                     /\ delivered'[g] = delivered[g]
    BY <2>1, VerdictIsOnes
  <2>. QED BY <1>2, <2>1, <2>2 DEF Once, Sole, Untouched
<1>8. CASE Settle(h)
  <2>1. /\ busy[h] /\ busy' = Set(busy, h, FALSE) /\ sent' = Set(sent, h, FALSE)
        /\ flush' = Scheduled(h) /\ told' = told
    BY <1>8 DEF Settle
  <2>2. flush[h] # "prepare" /\ \A g \in Hosts : g # h => flush'[g] = flush[g]
    BY <1>1, <2>1 DEF Once, Scheduled
  <2>3. flush'[h] # "prepare"
    BY <1>1, <2>1, <2>2 DEF Scheduled
  <2>4. CASE pending[h] = "observed"
    <3>1. Accept(h)
      BY <1>8, <2>4 DEF Settle
    <3>2. /\ pending'[h] = "none" /\ delivered'[h]
          /\ \A g \in Hosts : g # h => /\ pending'[g] = pending[g] /\ answer'[g] = answer[g]
                                       /\ delivered'[g] = delivered[g]
      BY <2>4, <3>1, VerdictIsOnes
    <3>. QED BY <1>1, <1>2, <2>1, <2>2, <2>3, <2>4, <3>2 DEF Once, Sole, Untouched
  <2>5. CASE pending[h] = "submitted"
    <3>1. Refuse(h)
      BY <1>8, <2>5 DEF Settle
    <3>2. /\ pending'[h] = "none" /\ (delivered[h] => delivered'[h])
          /\ \A g \in Hosts : g # h => /\ pending'[g] = pending[g] /\ answer'[g] = answer[g]
                                       /\ delivered'[g] = delivered[g]
      BY <2>5, <3>1, VerdictIsOnes
    <3>. QED BY <1>1, <1>2, <2>1, <2>2, <2>3, <2>5, <3>2 DEF Once, Sole, Untouched
  <2>6. CASE pending[h] \notin {"observed", "submitted"}
    BY <1>1, <1>2, <1>8, <2>1, <2>2, <2>3, <2>6 DEF Settle, Once, Sole, Untouched
  <2>. QED BY <2>4, <2>5, <2>6
<1>9. CASE UserTurn(h)
  BY <1>1, <1>2, <1>9 DEF UserTurn, Once, Sole, Untouched
<1>10. CASE EndRun(h)
  BY <1>1, <1>2, <1>10 DEF EndRun, Scheduled, Once, Sole, Untouched
<1>. QED BY <1>3, <1>4, <1>5, <1>6, <1>7, <1>8, <1>9, <1>10 DEF NotifierStep

LEMMA ResetOnce ==
  ASSUME TypeOK, NEW h \in Hosts, Once(h), NEW own \in BOOLEAN, Reset(h, own),
         home' = Set(home, h, own)
  PROVE  Once(h)'
<1>1. /\ told' = told /\ ~sent'[h] /\ ~busy'[h] /\ pending'[h] = "none"
      /\ flush'[h] = "off" /\ answer'[h] = "none" /\ delivered'[h] = (own /\ InSession) /\ home'[h] = own
  BY DEF Reset, Set, TypeOK, NotifierTypeOK
<1>2. told[h] > 0 => InSession
  BY DEF InSession
<1>. QED BY <1>1, <1>2 DEF Once, Sole

\* The steps of an attempt that ask nothing of the notifier.
LEMMA AttemptOnce ==
  ASSUME TypeOK, NEW h \in Hosts, \A g \in Hosts : Once(g),
         AttemptStep(h), ~Notify(h)
  PROVE  \A g \in Hosts : Untouched(g)
<1>. USE DEF At, End, Goto, Set, hostVars, notifierVars, calm, quiet
<1>1. attempt \in [Hosts -> Attempts] /\ answer \in [Hosts -> {"none", "yes", "no"}]
  BY DEF TypeOK, NotifierTypeOK
<1>2. UNCHANGED <<told, sent, busy, flush, pending, delivered, home, stage>>
  <2>1. CASE Read(h) \/ Own(h) \/ Restore(h) \/ Intercom(h) \/ Route(h)
    BY <2>1 DEF Read, Own, Restore, Restored, Intercom, Route
  <2>2. CASE Write(h) \/ Answer(h) \/ Mark(h) \/ Dispose(h)
    BY <2>2 DEF Write, Answer, Mark, Dispose
  <2>3. CASE Remove(h) \/ Compare(h) \/ Unrecord(h)
    BY <2>3 DEF Remove, Compare, Unrecord
  <2>. QED BY <2>1, <2>2, <2>3 DEF AttemptStep
<1>3. pending[h] = "none" /\ answer'[h] = "none"
  <2>1. CASE Answer(h)
    BY <1>1, <2>1 DEF Answer, Once
  <2>2. CASE ~Answer(h)
    <3>1. attempt[h].at # "answer"
      BY <2>2 DEF AttemptStep, Read, Own, Restore, Intercom, Route, Write, AfterWrite, Notify,
                  Mark, Dispose, Remove, Compare, Unrecord
    <3>2. answer' = answer
      BY <2>2 DEF AttemptStep, Read, Own, Restore, Restored, Intercom, Route, Write, Mark,
                  Dispose, Remove, Compare, Unrecord
    <3>. QED BY <3>1, <3>2 DEF Once
  <2>. QED BY <2>1, <2>2
<1>4. \A g \in Hosts : g # h => attempt'[g] = attempt[g] /\ answer'[g] = answer[g]
  <2>1. CASE Read(h) \/ Own(h) \/ Restore(h) \/ Intercom(h) \/ Route(h)
    BY <1>1, <2>1 DEF Read, Own, Restore, Restored, Intercom, Route
  <2>2. CASE Write(h) \/ Answer(h)
    BY <1>1, <2>2 DEF Write, Answer, Accepted
  <2>3. CASE Mark(h) \/ Dispose(h)
    BY <1>1, <2>3 DEF Mark, Dispose
  <2>4. CASE Remove(h) \/ Compare(h) \/ Unrecord(h)
    BY <1>1, <2>4 DEF Remove, Compare, Unrecord
  <2>. QED BY <2>1, <2>2, <2>3, <2>4 DEF AttemptStep
<1>. QED BY <1>2, <1>3, <1>4 DEF Untouched

LEMMA NotifyOnce ==
  ASSUME TypeOK, NEW h \in Hosts, \A g \in Hosts : Once(g), Notify(h)
  PROVE  \A g \in Hosts : Once(g)'
<1>. USE DEF At, End, Goto, Set, hostVars, notifierVars, calm
<1>1. /\ attempt \in [Hosts -> Attempts]
      /\ pending \in [Hosts -> {"none", "waiting", "submitted", "observed"}]
      /\ flush \in [Hosts -> {"off", "gate", "prepare"}]
      /\ answer \in [Hosts -> {"none", "yes", "no"}]
  BY DEF TypeOK, NotifierTypeOK
<1>2. attempt[h].at = "notify" /\ UNCHANGED <<stage, home>>
  BY DEF Notify
<1>3. pending[h] = "none" /\ answer[h] = "none"
  BY <1>2 DEF Once
<1>4. \/ UNCHANGED notifierVars
      \/ Owns(h) /\ ~Known(h) /\ Enqueue(h)
           /\ attempt' = [attempt EXCEPT ![h].at = "answer"]
  BY Zenon DEF Notify
<1>5. \A g \in Hosts : g # h => attempt'[g] = attempt[g]
  BY <1>1 DEF Notify, Accepted
<1>6. CASE UNCHANGED notifierVars
  <2>1. \A g \in Hosts : Untouched(g)
    BY <1>2, <1>3, <1>5, <1>6 DEF Untouched
  <2>. QED BY <2>1, UntouchedOnce
<1>7. CASE Owns(h) /\ ~Known(h) /\ Enqueue(h)
             /\ attempt' = [attempt EXCEPT ![h].at = "answer"]
  <2>1. ~delivered[h] /\ home[h] /\ stage[h] = "watching"
    BY <1>7 DEF Owns, Known
  <2>2. told[h] <= 0 /\ ~sent[h] /\ flush[h] # "prepare"
    BY <1>3, <2>1 DEF Once, Sole, TypeOK, NotifierTypeOK
  <2>3. /\ UNCHANGED <<told, sent, busy, delivered, answer>>
        /\ pending'[h] = "waiting" /\ flush'[h] # "prepare" /\ attempt'[h].at = "answer"
        /\ \A g \in Hosts : g # h => pending'[g] = pending[g] /\ flush'[g] = flush[g]
    BY <1>1, <1>7, <2>2 DEF Enqueue, agent
  <2>4. Once(h)'
    BY <1>2, <1>7, <2>1, <2>2, <2>3 DEF Once, Sole, TypeOK, NotifierTypeOK
  <2>5. \A g \in Hosts : g # h => Untouched(g)
    BY <1>2, <1>5, <2>3 DEF Untouched
  <2>. QED BY <2>4, <2>5, UntouchedOnce
<1>. QED BY <1>4, <1>6, <1>7

LEMMA SessionOnce ==
  ASSUME TypeOK, NEW h \in Hosts, \A g \in Hosts : Once(g), SessionStep(h)
  PROVE  \A g \in Hosts : Once(g)'
<1>. USE DEF At, End, Set, notifierVars, calm
<1>1. /\ attempt \in [Hosts -> Attempts] /\ home \in [Hosts -> BOOLEAN]
      /\ stage \in [Hosts -> {"down", "leaving", "open", "watching"}]
      /\ pending \in [Hosts -> {"none", "waiting", "submitted", "observed"}]
      /\ answer \in [Hosts -> {"none", "yes", "no"}]
  BY DEF TypeOK, NotifierTypeOK
<1>2. CASE Leave(h) \/ Watch(h)
  <2>1. UNCHANGED <<home, notifierVars, attempt>>
    BY <1>2 DEF Leave, Watch
  <2>2. \A g \in Hosts : g # h => stage'[g] = stage[g]
    BY <1>1, <1>2 DEF Leave, Watch
  <2>3. (stage[h] \in {"open", "watching"} /\ stage'[h] = "leaving")
        \/ (stage[h] = "open" /\ stage'[h] = "watching")
    BY <1>1, <1>2 DEF Leave, Watch
  <2>4. Once(h)'
    BY <2>1, <2>3 DEF Once, Sole
  <2>5. \A g \in Hosts : g # h => Untouched(g)
    BY <2>1, <2>2 DEF Untouched
  <2>. QED BY <2>4, <2>5, UntouchedOnce
<1>3. CASE Interrupt(h)
  <2>1. /\ UNCHANGED <<stage, home, told, sent, busy, flush, delivered>>
        /\ stage[h] = "leaving" /\ pending'[h] = "none" /\ answer'[h] = "none"
    BY <1>1, <1>3 DEF Interrupt, hostVars, agent
  <2>2. \A g \in Hosts : g # h => /\ pending'[g] = pending[g] /\ answer'[g] = answer[g]
                                  /\ attempt'[g] = attempt[g]
    BY <1>1, <1>3 DEF Interrupt
  <2>3. Once(h)'
    BY <2>1 DEF Once, Sole
  <2>4. \A g \in Hosts : g # h => Untouched(g)
    BY <2>1, <2>2 DEF Untouched
  <2>. QED BY <2>3, <2>4, UntouchedOnce
<1>4. ASSUME NEW own \in BOOLEAN, Reset(h, own), home' = Set(home, h, own),
             \A g \in Hosts : g # h => stage'[g] = stage[g] /\ attempt'[g] = attempt[g]
      PROVE  \A g \in Hosts : Once(g)'
  <2>1. Once(h)'
    BY <1>4, ResetOnce
  <2>2. \A g \in Hosts : g # h => Untouched(g)
    BY <1>1, <1>4 DEF Reset, Untouched, TypeOK, NotifierTypeOK
  <2>. QED BY <2>1, <2>2, UntouchedOnce
<1>5. ASSUME NEW own \in BOOLEAN, Join(h, own) PROVE \A g \in Hosts : Once(g)'
  <2>1. \A g \in Hosts : g # h => stage'[g] = stage[g] /\ attempt'[g] = attempt[g]
    BY <1>1, <1>5 DEF Join, deliveryVars
  <2>. QED BY <1>4, <1>5, <2>1 DEF Join
<1>6. CASE Crash(h)
  <2>1. \A g \in Hosts : g # h => stage'[g] = stage[g] /\ attempt'[g] = attempt[g]
    BY <1>1, <1>6 DEF Crash
  <2>2. Reset(h, FALSE) /\ home' = Set(home, h, FALSE) /\ FALSE \in BOOLEAN
    BY <1>6 DEF Crash
  <2>. QED BY <1>4, <2>1, <2>2
<1>. QED BY <1>2, <1>3, <1>5, <1>6 DEF SessionStep

LEMMA StepOnce ==
  ASSUME TypeOK, \A g \in Hosts : Once(g), [Next]_vars, [PreparesAlone]_vars
  PROVE  \A g \in Hosts : Once(g)'
<1>1. attempt \in [Hosts -> Attempts] /\ NotifierTypeOK
  BY DEF TypeOK
<1>. USE DEF hostVars, notifierVars, calm
<1>2. CASE UNCHANGED <<hostVars, notifierVars, attempt>>
  BY <1>2, UntouchedOnce DEF Untouched
<1>3. CASE UNCHANGED vars \/ Publish \/ ObserveEnd
  BY <1>2, <1>3 DEF vars, deliveryVars, Publish, ObserveEnd
<1>4. ASSUME NEW h \in Hosts,
             \/ ExpireSeen(h) \/ Notice(h) \/ Begin(h) \/ RestoreFails(h) \/ Fail(h)
             \/ \E yes \in BOOLEAN : Ack(h, yes)
             \/ \E op \in late : LateStep(h, op[2])
      PROVE  \A g \in Hosts : Once(g)'
  <2>1. CASE ExpireSeen(h) \/ Notice(h) \/ \E op \in late : LateStep(h, op[2])
    BY <1>2, <2>1 DEF ExpireSeen, Notice, LateStep
  <2>2. CASE Begin(h) \/ RestoreFails(h) \/ Fail(h) \/ \E yes \in BOOLEAN : Ack(h, yes)
    <3>1. UNCHANGED <<told, sent, busy, flush, pending, delivered, home, stage, answer>>
      BY <2>2 DEF Begin, RestoreFails, Restored, Fail, Ack
    <3>2. attempt' = attempt \/ attempt[h].at # "answer"
      BY <2>2 DEF Begin, RestoreFails, Fail, Ack, At, AfterWrite
    <3>3. \A g \in Hosts : g # h => attempt'[g] = attempt[g]
      BY <1>1, <2>2
      DEF Begin, RestoreFails, Restored, Fail, RetryFailed, End, Goto, Set, Ack
    <3>4. \A g \in Hosts : Untouched(g)
      BY <3>1, <3>2, <3>3 DEF Once, Untouched
    <3>. QED BY <3>4, UntouchedOnce
  <2>. QED BY <1>4, <2>1, <2>2
<1>5. ASSUME NEW h \in Hosts, AttemptStep(h) PROVE \A g \in Hosts : Once(g)'
  BY <1>5, NotifyOnce, AttemptOnce, UntouchedOnce
<1>6. ASSUME NEW h \in Hosts, SessionStep(h) PROVE \A g \in Hosts : Once(g)'
  BY <1>6, SessionOnce
<1>7. ASSUME NEW h \in Hosts, NotifierStep(h), UNCHANGED deliveryVars
      PROVE  \A g \in Hosts : Once(g)'
  <2>1. UserTurn(h) => flush[h] # "prepare"
    <3>1. UserTurn(h) => vars' # vars
      <4>1. ASSUME UserTurn(h) PROVE turns' # turns
        BY <1>1, <4>1 DEF UserTurn, NotifierTypeOK
      <4>. QED BY <4>1 DEF vars
    <3>. QED BY <3>1 DEF PreparesAlone
  <2>2. UNCHANGED attempt
    BY <1>7 DEF deliveryVars
  <2>. QED BY <1>1, <1>7, <2>1, <2>2, NotifierOnce, UntouchedOnce
<1>. QED BY <1>3, <1>4, <1>5, <1>6, <1>7 DEF Next

\* The conversation of a Host is told of a run once, whatever crashes, changes
\* of Session, repeated deliveries and turns of the user come between, as long
\* as the user starts no turn while the message is being prepared (flush and
\* sendSuiteAgentMessage); with such a turn the code may tell it twice.
THEOREM ToldOnceUnlessTurned ==
  Spec /\ [][PreparesAlone]_vars => []ToldOnce
<1>. DEFINE AllOnce == \A h \in Hosts : Once(h)
<1>1. Init => AllOnce
  <2> SUFFICES ASSUME Init, NEW h \in Hosts PROVE Once(h)
    OBVIOUS
  <2>1. /\ told[h] = 0 /\ ~sent[h] /\ flush[h] = "off" /\ pending[h] = "none"
        /\ answer[h] = "none" /\ ~home[h]
    BY DEF Init, NotifierInit
  <2>. QED BY <2>1 DEF Once
<1>2. TypeOK /\ AllOnce /\ [Next]_vars /\ [PreparesAlone]_vars => AllOnce'
  BY StepOnce
<1>3. AllOnce => ToldOnce
  BY DEF Once, ToldOnce
<1>. HIDE DEF AllOnce
<1>. QED BY <1>1, <1>2, <1>3, TypeCorrect, PTL DEF Spec

\* Without turns of the user that is unconditional.
THEOREM ToldOnceUndisturbed ==
  ASSUME MaxTurns = 0
  PROVE  Spec => []ToldOnce
<1>1. TypeOK => [PreparesAlone]_vars
  <2> SUFFICES ASSUME TypeOK, NEW h \in Hosts, UserTurn(h) PROVE FALSE
    BY DEF PreparesAlone
  <2>1. turns \in Nat /\ turns < 0
    BY DEF TypeOK, NotifierTypeOK, UserTurn
  <2>. QED BY <2>1
<1>. QED BY <1>1, ToldOnceUnlessTurned, TypeCorrect, PTL

=============================================================================
