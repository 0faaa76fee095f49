-------------------------- MODULE MCWorkforceRuntime --------------------------
(* Two employees on one node, each of whom can do every task.                 *)
EXTENDS WorkforceRuntime, TLC

CONSTANTS n1

MCNodeOf  == [e \in Employees |-> n1]
MCCapable == [t \in Tasks |-> Employees]

Symmetry == Permutations(Employees) \cup Permutations(Calls)
              \cup Permutations(Tasks)
=============================================================================
