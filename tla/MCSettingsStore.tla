--------------------------- MODULE MCSettingsStore ---------------------------
(* Two Hosts; a capability that patches a field of two, and one that replaces. *)
EXTENDS SettingsStore, TLC

CONSTANTS h1, h2, patched, replaced, f, g

MCChanges ==
  patched :> {f :> 1, g :> 1} @@ replaced :> {f :> 1 @@ g :> 1}
MCDefaults == [n \in Namespaces |-> [x \in Fields |-> 0]]
=============================================================================
