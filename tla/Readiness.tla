----------------------------- MODULE Readiness -----------------------------
(***************************************************************************)
(* work.compute_readiness: which tasks can be taken up, from the states of *)
(* tasks and questions and the edges between them.  It is computed for one *)
(* work item, but what a task waits for is looked up among all active      *)
(* nodes.                                                                  *)
(***************************************************************************)
EXTENDS Naturals, FiniteSets

CONSTANTS
  Task,       \* active task nodes, of all work items
  Question,   \* active question nodes
  Needs       \* <<t, x>>: t blocked_by, depends_on or asks x, or x blocks t

ASSUME ReadinessAssumption == Needs \subseteq Task \X (Task \cup Question)

(* The canonical states.  A question state that is not one of them reads   *)
(* as OPEN.                                                                *)
TaskState ==
  {"TODO", "READY", "IN_PROGRESS", "PARTIALLY_COMPLETE", "BLOCKED",
   "WAITING_FOR_DECISION", "WAITING_FOR_INPUT", "DEFERRED", "DONE",
   "CANCELLED", "NOT_IMPLEMENTED"}
QuestionState ==
  {"OPEN", "ANSWERED", "SUPERSEDED", "NO_LONGER_RELEVANT", "DEFERRED"}

(* The words a marker may use for a task state (upper case, with _ for     *)
(* space and hyphen), and what they are read as; any other word is TODO.   *)
Alias ==
  [HALF_FINISHED |-> "PARTIALLY_COMPLETE", PARTIAL |-> "PARTIALLY_COMPLETE",
   UNIMPLEMENTED |-> "NOT_IMPLEMENTED", INPROGRESS |-> "IN_PROGRESS"]

(* Fault: the word is kept.                                                *)
CanonicalFault(w) == w

Canonical(w) ==
  IF w \in DOMAIN Alias THEN Alias[w] ELSE IF w \in TaskState THEN w ELSE "TODO"

Terminal == {"DONE", "CANCELLED"}
StateBlocked == {"BLOCKED", "WAITING_FOR_DECISION", "WAITING_FOR_INPUT"}

(* Fault: only a task that is done frees those it blocks.                  *)
BlockersFault(ts, qs, t) ==
  {x \in Task : <<t, x>> \in Needs /\ ts[x] # "DONE"}
    \cup {x \in Question : <<t, x>> \in Needs /\ qs[x] = "OPEN"}

(* What t waits for, when tasks have the states ts and questions qs.       *)
Blockers(ts, qs, t) ==
  {x \in Task : <<t, x>> \in Needs /\ ts[x] \notin Terminal}
    \cup {x \in Question : <<t, x>> \in Needs /\ qs[x] = "OPEN"}

(* The lists of the result, of which an item's hold its own tasks; every   *)
(* task is in one of them.                                                 *)
Ready(ts, qs) ==
  {t \in Task : ts[t] \in {"TODO", "READY"} /\ Blockers(ts, qs, t) = {}}
Blocked(ts, qs) ==
  {t \in Task : \/ ts[t] \in StateBlocked
                \/ ts[t] \in {"TODO", "READY"} /\ Blockers(ts, qs, t) # {}}
Working(ts) == {t \in Task : ts[t] \in {"IN_PROGRESS", "PARTIALLY_COMPLETE"}}
Parked(ts) == {t \in Task : ts[t] \in {"DEFERRED", "NOT_IMPLEMENTED"}}
Finished(ts) == {t \in Task : ts[t] \in Terminal}
=============================================================================
