-------------------------- MODULE MCDurableControlPlane --------------------------
(* Two clients racing on one order: eve plans, ann codes, bob reviews. An order *)
(* reaches running through blocked, which needs no approver.                    *)
EXTENDS DurableControlPlane, TLC

CONSTANTS ann, bob, eve

MCPeople  == {ann, bob, eve}
MCCallers == {[id |-> eve, role |-> "planner"], [id |-> ann, role |-> "coder"],
              [id |-> bob, role |-> "reviewer"]}

ClientSymmetry == Permutations(Clients)
=============================================================================
