---------------------------- MODULE MCApiAdmission ----------------------------
(* Three requests at a time on two slots; two actors with a quota of one      *)
(* (or two) per window of two ticks, over three windows.                      *)
EXTENDS ApiAdmission, TLC

RequestSymmetry == Permutations(RequestIds) \cup Permutations(ActorIds)
=============================================================================
