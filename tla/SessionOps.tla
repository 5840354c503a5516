----------------------------- MODULE SessionOps -----------------------------
(***************************************************************************)
(* The content of one session file and what each accessor of              *)
(* hooks/session_state.py does to it once it has read the content.         *)
(*                                                                         *)
(* The file is JSON of lists and scalars; the lists are kept without       *)
(* duplicates by every writer and only membership is ever tested, so they  *)
(* are sets here.  active_plan and active_requirement are scalars written  *)
(* and cleared together with active_work and are represented by it.  An    *)
(* obligation is keyed by (path, symbol), which is what a boundary is; its *)
(* coaching text is left out.                                              *)
(***************************************************************************)
EXTENDS FiniteSets

CONSTANTS
  Boundary,   \* behavioural boundaries: a path with a qualified symbol name
  Req,        \* requirement ids
  Work,       \* work item ids
  NoWork      \* the active_work of a session that has none

ASSUME NoWorkAssumption == NoWork \notin Work

(* A trace id is named by the boundary whose canonical marker declares it. *)
OblState == {"none", "pending", "satisfied"}

SessionData ==
  [ loaded  : SUBSET Boundary,            \* contexts_loaded
    blocked : SUBSET Boundary,            \* blocked
    dirty   : SUBSET Boundary,            \* dirty
    work    : Work \cup {NoWork},         \* active_work
    reqs    : SUBSET Req,                 \* active_requirements
    boot    : BOOLEAN,                    \* pending_bootstrap is set
    spec    : SUBSET Req,                 \* pending_spec_update
    obl     : [Boundary -> OblState] ]    \* obligations

(* A missing or unreadable file reads as {}, which every getter treats as  *)
(* the cleared content.                                                    *)
Blank ==
  [ loaded |-> {}, blocked |-> {}, dirty |-> {}, work |-> NoWork,
    reqs |-> {}, boot |-> FALSE, spec |-> {},
    obl |-> [b \in Boundary |-> "none"] ]

LoadContext(d, n) == [d EXCEPT !.loaded = @ \cup {n}]
BlockEdit(d, n)   == [d EXCEPT !.blocked = @ \cup {n}]
MarkDirty(d, N)   == [d EXCEPT !.dirty = @ \cup N]

SetWork(d, w)         == [d EXCEPT !.work = w]
AddRequirement(d, r)  == [d EXCEPT !.reqs = @ \cup {r}]
SetRequirements(d, R) == [d EXCEPT !.reqs = IF R = {} THEN @ ELSE R]

SetBootstrap(d)   == [d EXCEPT !.boot = TRUE]
ClearBootstrap(d) == [d EXCEPT !.boot = FALSE]

SetSpecUpdate(d, R)  == [d EXCEPT !.spec = @ \cup R]
DropSpecUpdate(d, R) == [d EXCEPT !.spec = @ \ R]
ClearSpecUpdate(d)   == [d EXCEPT !.spec = {}]

(* Faults (operators named ...Fault are the mistakes the runs are shown to *)
(* notice; nothing uses them): the list is replaced; an entry is removed   *)
(* when it is met; an unknown state is stored.                             *)
AddObligationsFault(d, B) ==
  [d EXCEPT !.obl = [b \in Boundary |-> IF b \in B THEN "pending" ELSE "none"]]
RemoveObligationsFault(d, B) ==
  [d EXCEPT !.obl = [b \in Boundary |-> IF b \in B THEN "none" ELSE d.obl[b]]]
StateObligationsFault(d, B) ==
  [d EXCEPT !.obl = [b \in Boundary |-> IF b \in B THEN "resolved" ELSE d.obl[b]]]

(* A new key is appended as pending; a key already there keeps its state,  *)
(* satisfied or pending.                                                   *)
AddObligations(d, B) ==
  [d EXCEPT !.obl = [b \in Boundary |->
      IF b \in B /\ d.obl[b] = "none" THEN "pending" ELSE d.obl[b]]]

(* Every listed key becomes satisfied; a key never listed stays absent.    *)
ResolveObligations(d, B) ==
  [d EXCEPT !.obl = [b \in Boundary |->
      IF b \in B /\ d.obl[b] # "none" THEN "satisfied" ELSE d.obl[b]]]

Pending(d) == {b \in Boundary : d.obl[b] = "pending"}
=============================================================================
