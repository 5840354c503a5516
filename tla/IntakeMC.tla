----------------------------- MODULE IntakeMC -----------------------------
(* Instances of Intake for TLC.                                            *)
EXTENDS Intake, TLC

CONSTANTS s1, s2, r1, w1, b1, t1, t2

(* A work item with one requirement.                                       *)
OneReq == [w \in Work |-> {r1}]

TwoSessions == Permutations({s1, s2}) \cup Permutations({t1, t2})
===========================================================================
