---------------------------- MODULE SharedSettings ----------------------------
(***************************************************************************)
(* What the settings file promises to all who share it: every write is one *)
(* change of one namespace as it is at that moment, and takes nothing from *)
(* what others wrote.                                                      *)
(***************************************************************************)
CONSTANTS
  Namespaces,  \* the sections of the file
  Fields,      \* of a section
  Values,      \* of a field
  Changes,     \* of each namespace: the changes its owner makes
  Defaults,    \* of each namespace: what holds until it is written
  Absent,      \* a namespace that is not in the file
  Invalid      \* one that is not an object

Record == [Fields -> Values]
File == [Namespaces -> Record \cup {Absent, Invalid}]

VARIABLE file

Change == UNION {[s -> Values] : s \in SUBSET Fields}

\* What a reader takes the namespace to be.
Current(n) == IF file[n] \in {Absent, Invalid} THEN Defaults[n] ELSE file[n]

Changed(r, c) == [f \in Fields |-> IF f \in DOMAIN c THEN c[f] ELSE r[f]]

Init == file \in File

Write(n, c) == file' = [file EXCEPT ![n] = Changed(Current(n), c)]

Next == \E n \in Namespaces : \E c \in Changes[n] : Write(n, c)

Spec == Init /\ [][Next]_file
=============================================================================
