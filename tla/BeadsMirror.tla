---------------------------- MODULE BeadsMirror ----------------------------
(***************************************************************************)
(* beads.mirror_tasks: the tasks of a work item are mirrored into Beads, an *)
(* issue tracker behind the `bd` command, and .trace/beads-mirror.toml      *)
(* remembers which bead is whose.  Runs of the command may overlap, be     *)
(* killed and be repeated; a call of bd may fail, or time out after it     *)
(* took effect.  Meanwhile people move tasks, which are text that anybody  *)
(* may edit, and answer questions.                                         *)
(*                                                                         *)
(* A bead is a number; its external_ref names its task.  Titles and the    *)
(* links made in Beads are left out, but not what a missing bead does to   *)
(* the linking.                                                            *)
(***************************************************************************)
EXTENDS Readiness

CONSTANTS
  Run,         \* processes running `trace beads mirror --apply`
  Item,        \* work items, as the sets of their tasks
  Linked,      \* <<t, u>>: t blocked_by or discovered_from the task u
  TaskMove,    \* <<a, w>>: people change a task's state from a to the word w
  NoBead,
  MaxBeads,    \* bounds: beads ever created, calls of bd that go wrong,
  MaxFailures, \*         changes of task states
  MaxMoves

ASSUME BeadsAssumption ==
  /\ Item \subseteq SUBSET Task
  /\ Linked \subseteq Task \X Task
  /\ TaskMove \subseteq TaskState \X STRING
  /\ MaxBeads \in Nat /\ MaxFailures \in Nat /\ MaxMoves \in Nat
  /\ NoBead \notin 1..MaxBeads

VARIABLES
  task,      \* the indexed state of each task
  question,  \* and of each question
  beads,     \* <<task, bead>>: the beads in the tracker
  closed,    \* beads that are closed
  mirror,    \* beads-mirror.toml
  run,       \* what each process is in the middle of
  failures,  \* bound
  moves,     \* bound
  mishap,    \* history: a run that saw no beads, or was not alone
  reopened   \* history: tasks taken up again when their bead was closed, or a
             \* run had read that they were over

vars ==
  <<task, question, beads, closed, mirror, run, failures, moves, mishap, reopened>>

Bead == 1..MaxBeads
Mapping == [Task -> Bead \cup {NoBead}]
Unmapped == [t \in Task |-> NoBead]

Phase == {"idle", "listing", "creating", "closing", "linking", "open"}

Idle ==
  [phase |-> "idle", item |-> {}, todo |-> {}, map |-> Unmapped, seen |-> {},
   over |-> {}, last |-> NoBead]

TypeOK ==
  /\ task \in [Task -> TaskState]
  /\ question \in [Question -> QuestionState]
  /\ beads \in SUBSET (Task \X Bead)
  /\ closed \in SUBSET Bead
  /\ mirror \in Mapping
  /\ run \in [Run -> [phase : Phase, item : SUBSET Task, todo : SUBSET Task,
                      map : Mapping, seen : SUBSET (Task \X Bead),
                      over : SUBSET Task, last : Bead \cup {NoBead}]]
  /\ failures \in 0..MaxFailures
  /\ moves \in 0..MaxMoves
  /\ mishap \in SUBSET {"blind", "raced"}
  /\ reopened \in SUBSET Task

Init ==
  /\ task = [t \in Task |-> "TODO"]
  /\ question = [q \in Question |-> "OPEN"]
  /\ beads = {} /\ closed = {}
  /\ mirror = Unmapped
  /\ run = [r \in Run |-> Idle]
  /\ failures = 0 /\ moves = 0
  /\ mishap = {} /\ reopened = {}

Tracker == <<beads, closed>>
Nodes == <<task, question, moves, reopened>>

Fails == failures < MaxFailures /\ failures' = failures + 1

-----------------------------------------------------------------------------
(* Fault: all tasks that are not ready count as over.                      *)
StartFault(r, W) ==
  /\ run[r].phase = "idle"
  /\ run' = [run EXCEPT ![r] =
       [Idle EXCEPT !.phase = "listing", !.item = W, !.map = mirror,
                    !.over = W \ Ready(task, question)]]
  /\ mishap' = mishap \cup
       IF \E q \in Run : run[q].phase # "idle" THEN {"raced"} ELSE {}
  /\ UNCHANGED <<Nodes, Tracker, mirror, failures>>

(* Readiness and the states of the item's tasks are taken at the start,    *)
(* then the mapping, which is that of all items.                           *)
Start(r, W) ==
  /\ run[r].phase = "idle"
  /\ run' = [run EXCEPT ![r] =
       [Idle EXCEPT !.phase = "listing", !.item = W, !.map = mirror,
                    !.over = W \cap Finished(task)]]
  /\ mishap' = mishap \cup
       IF \E q \in Run : run[q].phase # "idle" THEN {"raced"} ELSE {}
  /\ UNCHANGED <<Nodes, Tracker, mirror, failures>>

(* bd list; when it fails there are no beads.                              *)
List(r) ==
  /\ run[r].phase = "listing"
  /\ run' = [run EXCEPT ![r].phase = "creating", ![r].todo = run[r].item,
                        ![r].seen = beads]
  /\ UNCHANGED <<Nodes, Tracker, mirror, failures, mishap>>

ListFails(r) ==
  /\ run[r].phase = "listing"
  /\ Fails
  /\ run' = [run EXCEPT ![r].phase = "creating", ![r].todo = run[r].item]
  /\ mishap' = mishap \cup {"blind"}
  /\ UNCHANGED <<Nodes, Tracker, mirror>>

(* Fault: only the file is asked.                                          *)
KnownFault(c, t) == {c.map[t]} \ {NoBead}

(* The bead of a task: the mapped one, else one with its reference.        *)
Known(c, t) ==
  IF c.map[t] # NoBead THEN {c.map[t]} ELSE {b \in Bead : <<t, b>> \in c.seen}

Adopt(r, t) ==
  /\ run[r].phase = "creating" /\ t \in run[r].todo
  /\ \E b \in Known(run[r], t) :
       run' = [run EXCEPT ![r].todo = @ \ {t}, ![r].map[t] = b]
  /\ UNCHANGED <<Nodes, Tracker, mirror, failures, mishap>>

MustCreate(r, t) ==
  run[r].phase = "creating" /\ t \in run[r].todo /\ Known(run[r], t) = {}

NewBead == Cardinality(beads) + 1

(* bd create; the bead of a task that is over is then closed.              *)
Create(r, t) ==
  /\ MustCreate(r, t)
  /\ NewBead \in Bead
  /\ beads' = beads \cup {<<t, NewBead>>}
  /\ run' = [run EXCEPT ![r].todo = @ \ {t}, ![r].map[t] = NewBead,
       ![r].last = NewBead,
       ![r].phase = IF t \in run[r].over THEN "closing" ELSE "creating"]
  /\ UNCHANGED <<Nodes, closed, mirror, failures, mishap>>

(* bd create fails, or times out when the bead is made.                    *)
CreateFails(r, t) ==
  /\ MustCreate(r, t)
  /\ Fails
  /\ \/ beads' = beads
     \/ NewBead \in Bead /\ beads' = beads \cup {<<t, NewBead>>}
  /\ run' = [run EXCEPT ![r].todo = @ \ {t}]
  /\ UNCHANGED <<Nodes, closed, mirror, mishap>>

(* bd close, whose result nobody looks at.                                 *)
CloseBead(r) ==
  /\ run[r].phase = "closing"
  /\ closed' = closed \cup {run[r].last}
  /\ run' = [run EXCEPT ![r].phase = "creating"]
  /\ UNCHANGED <<Nodes, beads, mirror, failures, mishap>>

CloseFails(r) ==
  /\ run[r].phase = "closing"
  /\ Fails
  /\ run' = [run EXCEPT ![r].phase = "creating"]
  /\ UNCHANGED <<Nodes, Tracker, mirror, mishap>>

(* Linking looks up the bead of every task of the item that is blocked by  *)
(* one, of whichever item, that has a bead: a KeyError ends the command    *)
(* when its creation failed.                                               *)
Unlinkable(W, m) == {p \in Linked : p[1] \in W /\ m[p[2]] # NoBead /\ m[p[1]] = NoBead}

Link(r) ==
  /\ run[r].phase = "creating" /\ run[r].todo = {}
  /\ run' = IF Unlinkable(run[r].item, run[r].map) = {}
            THEN [run EXCEPT ![r].phase = "linking"]
            ELSE [run EXCEPT ![r] = Idle]
  /\ UNCHANGED <<Nodes, Tracker, mirror, failures, mishap>>

(* write_mirror, in two halves: the file is emptied, then written.         *)
OpenMirror(r) ==
  /\ run[r].phase = "linking"
  /\ mirror' = Unmapped
  /\ run' = [run EXCEPT ![r].phase = "open"]
  /\ UNCHANGED <<Nodes, Tracker, failures, mishap>>

(* Fault: only the beads made in this run are written.                     *)
WriteMirrorFault(r) ==
  /\ run[r].phase = "open"
  /\ mirror' = [t \in Task |->
       IF \E b \in Bead : <<t, b>> \in run[r].seen THEN NoBead ELSE run[r].map[t]]
  /\ run' = [run EXCEPT ![r] = Idle]
  /\ UNCHANGED <<Nodes, Tracker, failures, mishap>>

WriteMirror(r) ==
  /\ run[r].phase = "open"
  /\ mirror' = run[r].map
  /\ run' = [run EXCEPT ![r] = Idle]
  /\ UNCHANGED <<Nodes, Tracker, failures, mishap>>

Kill(r) ==
  /\ run[r].phase # "idle"
  /\ Fails
  /\ run' = [run EXCEPT ![r] = Idle]
  /\ UNCHANGED <<Nodes, Tracker, mirror, mishap>>

-----------------------------------------------------------------------------
(* reconcile: mapped beads that are missing, or closed while the task is   *)
(* not over.                                                               *)
Mismatches ==
  {t \in Task : /\ mirror[t] # NoBead
                /\ \/ \A u \in Task : <<u, mirror[t]>> \notin beads
                   \/ mirror[t] \in closed /\ t \notin Finished(task)}

(* The bead of t is closed, or a run may close it yet.                     *)
Settled(t) ==
  \/ \E b \in closed : <<t, b>> \in beads
  \/ \E r \in Run : t \in run[r].over

(* A person edits the state of a task, whatever it is, and indexes.        *)
Move(t, m) ==
  /\ moves < MaxMoves
  /\ m[1] = task[t]
  /\ task' = [task EXCEPT ![t] = Canonical(m[2])]
  /\ moves' = moves + 1
  /\ reopened' = reopened \cup
       IF m[1] \in Terminal /\ Canonical(m[2]) \notin Terminal /\ Settled(t)
       THEN {t} ELSE {}
  /\ UNCHANGED <<question, Tracker, mirror, run, failures, mishap>>

Answer(q) ==
  /\ question[q] = "OPEN"
  /\ question' = [question EXCEPT ![q] = "ANSWERED"]
  /\ UNCHANGED <<task, moves, reopened, Tracker, mirror, run, failures, mishap>>

RunStep(r) ==
  \/ List(r)
  \/ \E t \in Task : Adopt(r, t) \/ Create(r, t)
  \/ CloseBead(r)
  \/ Link(r)
  \/ OpenMirror(r)
  \/ WriteMirror(r)

Next ==
  \/ \E r \in Run :
       \/ \E W \in Item : Start(r, W)
       \/ RunStep(r)
       \/ ListFails(r)
       \/ \E t \in Task : CreateFails(r, t)
       \/ CloseFails(r)
       \/ Kill(r)
  \/ \E t \in Task, m \in TaskMove : Move(t, m)
  \/ \E q \in Question : Answer(q)

Spec == Init /\ [][Next]_vars

(* A process that is not killed comes to its end, and somebody repeats the *)
(* command for every item.                                                 *)
FairSpec ==
  /\ Spec
  /\ \A r \in Run : WF_vars(RunStep(r)) /\ \A W \in Item : SF_vars(Start(r, W))

-----------------------------------------------------------------------------
(* Properties.                                                             *)

(* However often the command fails, dies and is repeated, no task gets a   *)
(* second bead, unless bd list failed or two runs overlapped.              *)
OneBeadPerTask ==
  mishap = {} =>
    \A a, b \in beads : a[1] = b[1] => a = b

(* A run closes beads by task states that are old by then, and writes a    *)
(* mapping read long before.  Still reconcile complains of one thing only: *)
(* a task that was taken up again when its bead was closed already, or     *)
(* while a run went by its old state (beads.py:130, 226).  Nobody closes   *)
(* beads by hand here.                                                     *)
NoFalseAlarm == Mismatches \subseteq reopened

(* Repeating the command completes the mapping once bd works, whatever     *)
(* failed, died or was lost before (calls fail finitely often here).       *)
MappingConverges == []<>(\A t \in Task : <<t, mirror[t]>> \in beads)

(* The tasks of W that are left, and those that hold up others: t waits    *)
(* for each of them.                                                       *)
Left(W) == W \ Finished(task)
HeldBy(t) == {u \in Left(Task) : <<t, u>> \in Needs}

(* Somebody can go on in W: a task is ready, under way or parked, waits    *)
(* for a state that people set, or for an open question.                   *)
Moving(W) ==
  \/ W \cap (Ready(task, question) \cup Working(task) \cup Parked(task)) # {}
  \/ \E t \in W : task[t] \in StateBlocked
  \/ \E q \in Question : question[q] = "OPEN" /\ \E t \in W : <<t, q>> \in Needs

(* A work item with tasks left in which nobody can go on waits for a task  *)
(* of another item, or some of its tasks wait for each other in a circle,  *)
(* which nothing in the code refuses; whatever words people write and      *)
(* whoever is asked, nothing else holds it up (work.py:105-175).  Of all   *)
(* tasks together only a circle can hold up the rest.                      *)
SomebodyCanMove ==
  \A W \in Item \cup {Task} :
    \/ Left(W) = {}
    \/ Moving(W)
    \/ \E t \in Left(W) : HeldBy(t) \ W # {}
    \/ \E C \in SUBSET Left(W) : C # {} /\ \A t \in C : HeldBy(t) \cap C # {}
=============================================================================
