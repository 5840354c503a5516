----------------------------- MODULE WorkLedger -----------------------------
(***************************************************************************)
(* What .trace/work.toml and .trace/receipts/receipts.jsonl promise the    *)
(* commands that share them: a ledger of work items and receipts in which  *)
(* an entry is added once, a work item is closed once and for good, a      *)
(* receipt is kept for good, and the receipts of a closed work item move   *)
(* together to a later commit.  Each of these takes effect at once.  All   *)
(* this is promised until the files are damaged.                           *)
(***************************************************************************)
EXTENDS Naturals

CONSTANTS
  Id,        \* work items
  Commits,   \* in their order
  Receipt    \* records: n, of its own, a work item and a commit

VARIABLES
  status,    \* of each work item: absent, none (no status line), active, done
  receipts,
  damaged

vars == <<status, receipts, damaged>>

Init ==
  /\ status = [i \in Id |-> "absent"]
  /\ receipts = {}
  /\ damaged = FALSE

Add(i) ==
  /\ status[i] = "absent"
  /\ \E st \in {"active", "none"} : status' = [status EXCEPT ![i] = st]
  /\ UNCHANGED <<receipts, damaged>>

(* finish adds the block of a work item that has none.                     *)
Close(i) ==
  /\ status[i] \in {"absent", "active"}
  /\ status' = [status EXCEPT ![i] = "done"]
  /\ UNCHANGED <<receipts, damaged>>

Record(r) ==
  /\ \A q \in receipts : q.n # r.n
  /\ receipts' = receipts \cup {r}
  /\ UNCHANGED <<status, damaged>>

Moved(R, i, c) == {IF r.work = i THEN [r EXCEPT !.commit = c] ELSE r : r \in R}

Bind(i, c) ==
  /\ status[i] \in {"done", "none"}
  /\ \A r \in receipts : r.work = i => r.commit <= c
  /\ receipts' = Moved(receipts, i, c)
  /\ UNCHANGED <<status, damaged>>

(* A copy that is out of date is written back, or a process dies with a    *)
(* file open.                                                              *)
Damage == damaged'

Next ==
  \/ Damage
  \/ \E i \in Id : Add(i) \/ Close(i) \/ \E c \in Commits : Bind(i, c)
  \/ \E r \in Receipt : Record(r)

Spec == Init /\ [][Next]_vars
=============================================================================
