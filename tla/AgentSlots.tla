----------------------------- MODULE AgentSlots -----------------------------
(***************************************************************************)
(* What a session's governor promises, without its ledger: a roster of the *)
(* Agents known to the session and the capped set of those that run.       *)
(* What is launched or resumed is admitted within the cap only; a running  *)
(* Agent is not admitted again; an Agent that ran stays on the roster.     *)
(***************************************************************************)
EXTENDS Naturals, FiniteSets

VARIABLES
  cap,      \* how many may run; 0 until the session is opened
  roster,   \* Agents recorded in the session
  running,  \* those that hold a slot
  fresh     \* running Agents in their first run, whose launch may be undone

vars == <<cap, roster, running, fresh>>

Init == cap = 0 /\ roster = {} /\ running = {} /\ fresh = {}

\* The first operation opens the session and fixes its cap.
Open == IF cap = 0 THEN cap' \in Nat \ {0} ELSE cap' = cap

Launch ==
  /\ roster \subseteq roster'
  /\ running' = running \cup (roster' \ roster)
  /\ fresh' = fresh \cup (roster' \ roster)
  /\ Cardinality(running') <= cap'

Resume ==
  /\ \E a \in roster \ running : running' = running \cup {a}
  /\ Cardinality(running') <= cap'
  /\ UNCHANGED <<roster, fresh>>

Retire ==
  /\ running' \subseteq running
  /\ fresh' = fresh \cap running'
  /\ UNCHANGED roster

\* A launch that never started leaves no trace.
Undo ==
  /\ roster' \subseteq roster
  /\ roster \ roster' \subseteq fresh
  /\ running' = running \ (roster \ roster')
  /\ fresh' = fresh \ (roster \ roster')

\* Agents of an earlier version of the session join the roster.
Enrol ==
  /\ roster \subseteq roster'
  /\ UNCHANGED <<running, fresh>>

Next == Open /\ (Launch \/ Resume \/ Retire \/ Undo \/ Enrol)

Spec == Init /\ [][Next]_vars
=============================================================================
