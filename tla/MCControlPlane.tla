---------------------------- MODULE MCControlPlane ----------------------------
(* A small instance of ControlPlane: one order, two pieces of evidence, and   *)
(* three people, one of whom (ann) holds a coder's and a reviewer's token.    *)
(* Evidence ids and metadata values are told apart only by equality.          *)
EXTENDS ControlPlane, TLC

CONSTANTS ann, bob, eve

MCPeople  == {ann, bob, eve}
MCCallers == {[id |-> eve, role |-> "planner"],  [id |-> eve, role |-> "approver"],
              [id |-> ann, role |-> "coder"],    [id |-> bob, role |-> "coder"],
              [id |-> ann, role |-> "reviewer"], [id |-> eve, role |-> "judge"]}

DataSymmetry == Permutations(EvidenceIds) \cup Permutations(Metadata)
=============================================================================
