----------------------------- MODULE OutcomeQueue -----------------------------
(***************************************************************************)
(* What each Session is promised about the outcomes of its background      *)
(* work: each one is told at most once, in the order in which they         *)
(* settled, and none is passed over; only the end of the Session drops     *)
(* the rest.                                                               *)
(***************************************************************************)
EXTENDS Naturals, Sequences

CONSTANTS Hosts, Outcomes

VARIABLES
  waiting,  \* of each Session: settled and not yet told
  told      \* told to its Agent

Elements(s) == {s[i] : i \in DOMAIN s}

Init ==
  /\ waiting = [h \in Hosts |-> <<>>]
  /\ told = [h \in Hosts |-> <<>>]

Settled(h, a) ==
  /\ a \notin Elements(waiting[h]) \cup Elements(told[h])
  /\ waiting' = [waiting EXCEPT ![h] = Append(@, a)]
  /\ UNCHANGED told

\* Some of the oldest are told together.
Tell(h, n) ==
  /\ n \in 1 .. Len(waiting[h])
  /\ told' = [told EXCEPT ![h] = @ \o SubSeq(waiting[h], 1, n)]
  /\ waiting' = [waiting EXCEPT ![h] = SubSeq(@, n + 1, Len(@))]

Drop(h) == waiting' = [waiting EXCEPT ![h] = <<>>] /\ UNCHANGED told

Next ==
  \E h \in Hosts :
    \/ \E a \in Outcomes : Settled(h, a)
    \/ \E n \in 1 .. Len(waiting[h]) : Tell(h, n)
    \/ Drop(h)

Spec == Init /\ [][Next]_<<waiting, told>>
=============================================================================
