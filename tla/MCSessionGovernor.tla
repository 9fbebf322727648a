------------------------- MODULE MCSessionGovernor -------------------------
(* The root Host and the host of its child Agent r1:0 compete for the ledger,
   into which the root may import records of an older version. *)
EXTENDS SessionGovernor, TLC

CONSTANTS r1, r2, old, p1, root1, child

MCRuns == {r1, r2, old}
MCPath == root1 :> <<>> @@ child :> << <<r1, 0>> >>
MCLimits == root1 :> [maxDepth |-> 2, maxRunning |-> 2]
         @@ child :> [maxDepth |-> 3, maxRunning |-> 3]
MCOneTime == {1}

HistoricRoot == [id |-> <<old, 0>>, owner |-> <<>>,
                 limits |-> [maxDepth |-> 1, maxRunning |-> 1], createdAt |-> 1]
HistoricChild == [id |-> <<old, 1>>, owner |-> << <<old, 0>> >>,
                  limits |-> [maxDepth |-> 3, maxRunning |-> 4], createdAt |-> 1]
MCHistories == {{HistoricRoot}, {HistoricRoot, HistoricChild}}

=============================================================================
