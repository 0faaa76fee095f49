---------------------------- MODULE MCApiMutations ----------------------------
(* Two requests at a time against an order that ann is running and that has   *)
(* one piece of evidence.  bob's "blocked" verdict may be given any number of *)
(* times; ann's new evidence only once; one key is used for two requests.     *)
EXTENDS ApiMutations, TLC

CONSTANTS ann, bob, o1, o2, k1, k2, e1, e2, m1, m2

MCPeople == {ann, bob}
Coder    == [id |-> ann, role |-> "coder"]
Reviewer == [id |-> bob, role |-> "reviewer"]

MCStored ==
  o1 :> EvidenceRecorded(
          Transitioned(Transitioned(Created(m1, [id |-> bob, role |-> "planner"]),
                                    "blocked", Coder), "running", Coder),
          [id |-> e1, good |-> TRUE], Coder)

Verdict == [gate |-> "REVIEW", status |-> "blocked", evaluatorId |-> bob,
            evidenceIds |-> {e1}]

MCRequests ==
  {[actor |-> Reviewer, key |-> k1, order |-> o1, op |-> "gate", arg |-> Verdict],
   [actor |-> Reviewer, key |-> k1, order |-> o1, op |-> "metadata", arg |-> m2],
   [actor |-> Coder, key |-> k1, order |-> o1, op |-> "evidence",
    arg |-> [id |-> e2, good |-> FALSE]],
   [actor |-> Coder, key |-> k2, order |-> o1, op |-> "transition",
    arg |-> "failed"],
   [actor |-> [id |-> bob, role |-> "planner"], key |-> k2, order |-> o2,
    op |-> "create", arg |-> m1]}

HandlerSymmetry == Permutations(Handlers)
=============================================================================
