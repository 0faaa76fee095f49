----------------------------- MODULE MCRemoteTasks -----------------------------
(* Two nodes, a task with two attempts, two requests in flight: of one node   *)
(* that asks again before it is answered, or of both.                         *)
EXTENDS RemoteTasks

\* The nodes differ by their names only, so any behaviour in which the other
\* node gets the first lease is the mirror image of one in which this one
\* does: the constraint leaves out whole behaviours, each with its image kept,
\* which is sound for the temporal property too.
FirstNode        == CHOOSE e \in Employees : TRUE
FirstLeaseIsHers == \A t \in Tasks : Leased(t) => mail[t][1].employee = FirstNode
=============================================================================
