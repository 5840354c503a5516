------------------------- MODULE BeadsMirrorProofs -------------------------
(* Proofs about the Beads mirror (BeadsMirror.tla), for any tasks,         *)
(* questions, edges between them, processes and bounds.                    *)
EXTENDS BeadsMirror, FiniteSetTheorems, TLAPS

RunType ==
  [phase : Phase, item : SUBSET Task, todo : SUBSET Task, map : Mapping,
   seen : SUBSET (Task \X Bead), over : SUBSET Task, last : Bead \cup {NoBead}]

LEMMA IdleIs == Idle \in RunType
BY DEF Idle, RunType, Phase, Unmapped, Mapping

LEMMA CanonicalIs == \A w \in STRING : Canonical(w) \in TaskState
BY DEF Canonical, Alias, TaskState

-----------------------------------------------------------------------------
(* Type correctness.                                                       *)

LEMMA TypeInit == Init => TypeOK
BY IdleIs, BeadsAssumption
   DEF Init, TypeOK, RunType, Unmapped, Mapping, TaskState, QuestionState

(* A process that is to close a bead has made one.                         *)
Made == \A r \in Run : run[r].phase = "closing" => run[r].last \in Bead

LEMMA TypeNext == TypeOK /\ Made /\ [Next]_vars => TypeOK'
<1> SUFFICES ASSUME TypeOK, Made, [Next]_vars PROVE TypeOK'
  OBVIOUS
<1> USE DEF Tracker, Nodes, Fails
<1>1. run \in [Run -> RunType]
  BY DEF TypeOK, RunType
<1>2. ASSUME NEW r \in Run, NEW c \in RunType, run' = [run EXCEPT ![r] = c],
             UNCHANGED <<Nodes>>, beads' \in SUBSET (Task \X Bead),
             closed' \in SUBSET Bead, mirror' \in Mapping,
             failures' \in 0 .. MaxFailures, mishap' \in SUBSET {"blind", "raced"}
      PROVE  TypeOK'
  <2>1. run' \in [Run -> RunType]
    BY <1>1, <1>2
  <2> QED
    BY <1>2, <2>1 DEF TypeOK, RunType
<1>3. failures < MaxFailures /\ failures' = failures + 1 => failures' \in 0 .. MaxFailures
  BY BeadsAssumption DEF TypeOK
<1>4. ASSUME NEW r \in Run, NEW W \in Item, Start(r, W) PROVE TypeOK'
  <2> DEFINE c == [Idle EXCEPT !.phase = "listing", !.item = W, !.map = mirror,
                               !.over = W \cap Finished(task)]
  <2>1. c \in RunType
    BY IdleIs, BeadsAssumption DEF RunType, Phase, Finished, TypeOK
  <2>2. mishap' \in SUBSET {"blind", "raced"}
    BY <1>4 DEF Start, TypeOK
  <2> QED
    BY <1>2, <1>4, <2>1, <2>2 DEF Start, TypeOK
<1>5. ASSUME NEW r \in Run, List(r) \/ ListFails(r) PROVE TypeOK'
  <2>1. PICK S \in SUBSET (Task \X Bead) :
          run' = [run EXCEPT ![r] = [run[r] EXCEPT !.phase = "creating",
                                   !.todo = run[r].item, !.seen = S]]
    <3>1. run[r].seen \in SUBSET (Task \X Bead) /\ beads \in SUBSET (Task \X Bead)
      BY <1>1 DEF RunType, TypeOK
    <3>2. CASE List(r)
      BY <1>1, <3>1, <3>2 DEF List
    <3>3. CASE ListFails(r)
      <4>1. run' = [run EXCEPT ![r] = [run[r] EXCEPT !.phase = "creating",
                                                     !.todo = run[r].item,
                                                     !.seen = run[r].seen]]
        BY <1>1, <3>3 DEF ListFails, RunType
      <4> QED
        BY <3>1, <4>1
    <3> QED
      BY <1>5, <3>2, <3>3
  <2>2. [run[r] EXCEPT !.phase = "creating", !.todo = run[r].item, !.seen = S] \in RunType
    BY <1>1 DEF RunType, Phase
  <2>3. failures' \in 0 .. MaxFailures /\ mishap' \in SUBSET {"blind", "raced"}
    BY <1>3, <1>5 DEF List, ListFails, TypeOK
  <2> QED
    BY <1>2, <1>5, <2>1, <2>2, <2>3 DEF List, ListFails, TypeOK
<1>6. ASSUME NEW r \in Run, NEW t \in Task, Adopt(r, t) PROVE TypeOK'
  <2>1. PICK b \in Known(run[r], t) :
          run' = [run EXCEPT ![r] = [run[r] EXCEPT !.todo = @ \ {t}, !.map[t] = b]]
    BY <1>1, <1>6 DEF Adopt
  <2>2. b \in Bead \cup {NoBead}
    BY <1>1 DEF Known, RunType, Mapping
  <2>3. [run[r] EXCEPT !.todo = @ \ {t}, !.map[t] = b] \in RunType
    BY <1>1, <2>2 DEF RunType, Mapping
  <2> QED
    BY <1>2, <1>6, <2>1, <2>3 DEF Adopt, TypeOK
<1>7. ASSUME NEW r \in Run, NEW t \in Task, Create(r, t) PROVE TypeOK'
  <2> DEFINE ph == IF t \in run[r].over THEN "closing" ELSE "creating"
  <2> DEFINE c == [run[r] EXCEPT !.todo = @ \ {t}, !.map[t] = NewBead,
                                 !.last = NewBead, !.phase = ph]
  <2>1. NewBead \in Bead /\ run' = [run EXCEPT ![r] = c]
    BY <1>1, <1>7 DEF Create
  <2>2. ph \in Phase
    BY DEF Phase
  <2> HIDE DEF ph
  <2>3. c \in RunType
    BY <1>1, <2>1, <2>2 DEF RunType, Mapping
  <2> HIDE DEF c
  <2>4. beads' \in SUBSET (Task \X Bead)
    BY <1>7, <2>1 DEF Create, TypeOK
  <2> QED
    BY <1>2, <1>7, <2>1, <2>3, <2>4 DEF Create, TypeOK
<1>8. ASSUME NEW r \in Run, NEW t \in Task, CreateFails(r, t) PROVE TypeOK'
  <2>1. run' = [run EXCEPT ![r] = [run[r] EXCEPT !.todo = @ \ {t}]]
    BY <1>1, <1>8 DEF CreateFails
  <2>2. [run[r] EXCEPT !.todo = @ \ {t}] \in RunType
    BY <1>1 DEF RunType
  <2>3. beads' \in SUBSET (Task \X Bead)
    BY <1>8 DEF CreateFails, TypeOK
  <2>4. failures' \in 0 .. MaxFailures
    BY <1>3, <1>8 DEF CreateFails
  <2> QED
    BY <1>2, <1>8, <2>1, <2>2, <2>3, <2>4 DEF CreateFails, TypeOK
<1>9. ASSUME NEW r \in Run, CloseBead(r) \/ CloseFails(r) PROVE TypeOK'
  <2>1. run' = [run EXCEPT ![r] = [run[r] EXCEPT !.phase = "creating"]]
    BY <1>1, <1>9 DEF CloseBead, CloseFails
  <2>2. [run[r] EXCEPT !.phase = "creating"] \in RunType
    BY <1>1 DEF RunType, Phase
  <2>3. closed' \in SUBSET Bead
    BY <1>9 DEF CloseBead, CloseFails, TypeOK, Made
  <2>4. failures' \in 0 .. MaxFailures
    BY <1>3, <1>9 DEF CloseBead, CloseFails, TypeOK
  <2> QED
    BY <1>2, <1>9, <2>1, <2>2, <2>3, <2>4 DEF CloseBead, CloseFails, TypeOK
<1>10. ASSUME NEW r \in Run, Link(r) \/ OpenMirror(r) \/ WriteMirror(r) \/ Kill(r)
       PROVE TypeOK'
  <2>1. PICK ph \in Phase :
          run' = [run EXCEPT ![r] = Idle]
            \/ run' = [run EXCEPT ![r] = [run[r] EXCEPT !.phase = ph]]
    BY <1>1, <1>10 DEF Link, OpenMirror, WriteMirror, Kill, Phase
  <2>2. [run[r] EXCEPT !.phase = ph] \in RunType
    BY <1>1 DEF RunType
  <2>3. mirror' \in Mapping
    BY <1>1, <1>10
       DEF Link, OpenMirror, WriteMirror, Kill, TypeOK, RunType, Unmapped, Mapping
  <2>4. failures' \in 0 .. MaxFailures
    BY <1>3, <1>10 DEF Link, OpenMirror, WriteMirror, Kill, TypeOK
  <2>5. UNCHANGED <<Nodes, Tracker, mishap>>
    BY <1>10 DEF Link, OpenMirror, WriteMirror, Kill
  <2> QED
    BY <1>2, <2>1, <2>2, <2>3, <2>4, <2>5, IdleIs DEF TypeOK
<1>11. ASSUME NEW t \in Task, NEW m \in TaskMove, Move(t, m) PROVE TypeOK'
  <2>1. task' \in [Task -> TaskState]
    BY <1>11, CanonicalIs, BeadsAssumption DEF Move, TypeOK
  <2>2. moves' \in 0 .. MaxMoves /\ reopened' \in SUBSET Task
    BY <1>11, BeadsAssumption DEF Move, TypeOK
  <2> QED
    BY <1>11, <2>1, <2>2 DEF Move, TypeOK
<1>12. ASSUME NEW q \in Question, Answer(q) PROVE TypeOK'
  BY <1>12 DEF Answer, TypeOK, QuestionState
<1>13. CASE UNCHANGED vars
  BY <1>13 DEF vars, TypeOK
<1> QED
  BY <1>4, <1>5, <1>6, <1>7, <1>8, <1>9, <1>10, <1>11, <1>12, <1>13
     DEF Next, RunStep
-----------------------------------------------------------------------------
(* Every bead has a number of its own, and the next one is free.           *)
Numbered ==
  /\ IsFiniteSet(beads)
  /\ \A a \in beads : a[2] <= Cardinality(beads)
  /\ \A a, b \in beads : a[2] = b[2] => a = b

(* Whatever is noted as the bead of a task is one, in the file, in what    *)
(* the processes hold, and among what they have seen.                      *)
Mapped ==
  /\ \A t \in Task : mirror[t] # NoBead => <<t, mirror[t]>> \in beads
  /\ \A r \in Run :
       /\ run[r].seen \subseteq beads
       /\ \A t \in Task : run[r].map[t] # NoBead => <<t, run[r].map[t]>> \in beads

(* Only beads of tasks that are over are closed or about to be, or of tasks *)
(* that were taken up again since.                                         *)
Ended == Finished(task) \cup reopened

OverClosed ==
  /\ \A b \in closed : \E t \in Ended : <<t, b>> \in beads
  /\ \A r \in Run :
       /\ run[r].over \subseteq Ended
       /\ run[r].phase = "closing" =>
            \E t \in run[r].over : <<t, run[r].last>> \in beads

(* As long as nothing went wrong, one process is at work at most, and it   *)
(* has seen the beads of all tasks it has still to look at.                *)
Informed ==
  mishap = {} =>
    /\ \A r, s \in Run : r # s => run[r].phase = "idle" \/ run[s].phase = "idle"
    /\ \A r \in Run : run[r].phase \in {"creating", "closing"} =>
         \A t \in run[r].todo, b \in Bead :
           <<t, b>> \in beads => <<t, b>> \in run[r].seen

IInv == TypeOK /\ Numbered /\ Mapped /\ OverClosed /\ Informed /\ OneBeadPerTask

LEMMA IInvMade == TypeOK /\ OverClosed => Made
BY DEF TypeOK, OverClosed, Made

LEMMA FreshNumber ==
  ASSUME TypeOK, Numbered, NewBead \in Bead, NEW t \in Task,
         beads' = beads \cup {<<t, NewBead>>}
  PROVE  /\ Numbered'
         /\ \A a \in beads : a[2] # NewBead
<1>1. Cardinality(beads) \in Nat
  BY FS_CardinalityType DEF Numbered
<1>2. \A a \in beads : a[2] \in Nat /\ a[2] < NewBead
  BY <1>1 DEF Numbered, NewBead, TypeOK, Bead
<1>3. <<t, NewBead>> \notin beads
  BY <1>2
<1>4. IsFiniteSet(beads') /\ Cardinality(beads') = NewBead
  BY <1>3, FS_AddElement DEF Numbered, NewBead
<1>5. \A a \in beads' : a[2] <= Cardinality(beads')
  BY <1>1, <1>2, <1>4 DEF NewBead
<1>6. \A a, b \in beads' : a[2] = b[2] => a = b
  BY <1>2 DEF Numbered
<1> QED
  BY <1>2, <1>4, <1>5, <1>6 DEF Numbered

LEMMA InvInit == Init => IInv
<1> SUFFICES ASSUME Init PROVE IInv
  OBVIOUS
<1>1. beads = {} /\ closed = {} /\ mirror = Unmapped /\ run = [r \in Run |-> Idle]
  BY DEF Init
<1>2. Numbered
  BY <1>1, FS_EmptySet DEF Numbered
<1>3. Mapped
  BY <1>1 DEF Mapped, Unmapped, Idle
<1>4. OverClosed
  BY <1>1 DEF OverClosed, Idle
<1>5. Informed /\ OneBeadPerTask
  BY <1>1 DEF Informed, OneBeadPerTask, Idle
<1> QED
  BY <1>2, <1>3, <1>4, <1>5, TypeInit DEF IInv

-----------------------------------------------------------------------------
(* Steps.  What a step of one process does to the others is nothing.       *)

LEMMA Framed ==
  ASSUME TypeOK, NEW r \in Run, NEW c, run' = [run EXCEPT ![r] = c]
  PROVE  /\ run'[r] = c
         /\ \A q \in Run \ {r} : run'[q] = run[q]
BY DEF TypeOK

LEMMA NumberedNext == TypeOK /\ Numbered /\ [Next]_vars => Numbered'
<1> SUFFICES ASSUME TypeOK, Numbered, [Next]_vars PROVE Numbered'
  OBVIOUS
<1>1. CASE UNCHANGED beads
  BY <1>1 DEF Numbered
<1>2. CASE \E t \in Task : NewBead \in Bead /\ beads' = beads \cup {<<t, NewBead>>}
  BY <1>2, FreshNumber
<1>3. ASSUME NEW r \in Run, NEW t \in Task, Create(r, t) \/ CreateFails(r, t)
      PROVE  Numbered'
  BY <1>1, <1>2, <1>3 DEF Create, CreateFails
<1>4. ASSUME NEW r \in Run,
             \/ (\E W \in Item : Start(r, W)) \/ List(r) \/ ListFails(r) \/ CloseBead(r) \/ CloseFails(r)
             \/ Link(r) \/ OpenMirror(r) \/ WriteMirror(r) \/ Kill(r)
             \/ \E t \in Task : Adopt(r, t)
      PROVE  Numbered'
  BY <1>1, <1>4
     DEF Start, List, ListFails, Adopt, CloseBead, CloseFails, Link, OpenMirror,
         WriteMirror, Kill, Tracker
<1>5. CASE \/ \E t \in Task, m \in TaskMove : Move(t, m)
           \/ \E q \in Question : Answer(q)
           \/ UNCHANGED vars
  BY <1>1, <1>5 DEF Move, Answer, Tracker, vars
<1> QED
  BY <1>3, <1>4, <1>5 DEF Next, RunStep

LEMMA MappedNext == TypeOK /\ Mapped /\ [Next]_vars => Mapped'
<1> SUFFICES ASSUME TypeOK, Mapped, [Next]_vars PROVE Mapped'
  OBVIOUS
<1> USE DEF Tracker, Nodes
<1>1. ASSUME beads \subseteq beads', NEW r \in Run, NEW c, run' = [run EXCEPT ![r] = c],
             \A t \in Task : mirror'[t] # NoBead => <<t, mirror'[t]>> \in beads',
             c.seen \subseteq beads',
             \A t \in Task : c.map[t] # NoBead => <<t, c.map[t]>> \in beads'
      PROVE  Mapped'
  <2>1. run'[r] = c /\ \A q \in Run \ {r} : run'[q] = run[q]
    BY <1>1, Framed
  <2> QED
    BY <1>1, <2>1 DEF Mapped
<1>2. ASSUME NEW r \in Run, NEW W \in Item, Start(r, W) PROVE Mapped'
  BY <1>1, <1>2 DEF Start, Mapped, Idle
<1>3. ASSUME NEW r \in Run, List(r) \/ ListFails(r) PROVE Mapped'
  <2>1. PICK S : /\ S \in {beads, run[r].seen}
                 /\ run' = [run EXCEPT ![r] = [run[r] EXCEPT !.phase = "creating",
                                                          !.todo = run[r].item, !.seen = S]]
    <3>1. CASE List(r)
      BY <3>1 DEF List
    <3>2. CASE ListFails(r)
      <4>1. run' = [run EXCEPT ![r] = [run[r] EXCEPT !.phase = "creating",
                                                     !.todo = run[r].item,
                                                     !.seen = run[r].seen]]
        BY <3>2 DEF ListFails, TypeOK
      <4> QED
        BY <4>1
    <3> QED
      BY <1>3, <3>1, <3>2
  <2> DEFINE c == [run[r] EXCEPT !.phase = "creating", !.todo = run[r].item, !.seen = S]
  <2>2. c.map = run[r].map /\ c.seen = S
    BY DEF TypeOK
  <2>3. S \subseteq beads
    BY <2>1 DEF Mapped
  <2>4. run' = [run EXCEPT ![r] = c] /\ beads' = beads /\ mirror' = mirror
    BY <1>3, <2>1 DEF List, ListFails
  <2> HIDE DEF c
  <2> QED
    BY <1>1, <2>2, <2>3, <2>4 DEF Mapped
<1>4. ASSUME NEW r \in Run, NEW t \in Task, Adopt(r, t) PROVE Mapped'
  <2>1. PICK b \in Known(run[r], t) :
          run' = [run EXCEPT ![r] = [run[r] EXCEPT !.todo = @ \ {t}, !.map[t] = b]]
    BY <1>4 DEF Adopt, TypeOK
  <2> DEFINE c == [run[r] EXCEPT !.todo = @ \ {t}, !.map[t] = b]
  <2>2. b # NoBead => <<t, b>> \in beads
    BY DEF Known, Mapped
  <2>3. c.seen = run[r].seen /\ c.map = [run[r].map EXCEPT ![t] = b]
    BY DEF TypeOK
  <2>4. \A u \in Task : c.map[u] # NoBead => <<u, c.map[u]>> \in beads
    BY <2>2, <2>3 DEF TypeOK, Mapping, Mapped
  <2>5. run' = [run EXCEPT ![r] = c] /\ beads' = beads /\ mirror' = mirror
    BY <1>4, <2>1 DEF Adopt
  <2> HIDE DEF c
  <2> QED
    BY <1>1, <2>3, <2>4, <2>5 DEF Mapped
<1>5. ASSUME NEW r \in Run, NEW t \in Task, Create(r, t) PROVE Mapped'
  <2> DEFINE ph == IF t \in run[r].over THEN "closing" ELSE "creating"
  <2> DEFINE c == [run[r] EXCEPT !.todo = @ \ {t}, !.map[t] = NewBead,
                                 !.last = NewBead, !.phase = ph]
  <2>1. run' = [run EXCEPT ![r] = c]
    BY <1>5 DEF Create, TypeOK
  <2>2. c.seen = run[r].seen /\ c.map = [run[r].map EXCEPT ![t] = NewBead]
    BY DEF TypeOK
  <2>3. beads' = beads \cup {<<t, NewBead>>} /\ mirror' = mirror
    BY <1>5 DEF Create
  <2>4. \A u \in Task : c.map[u] # NoBead => <<u, c.map[u]>> \in beads'
    BY <2>2, <2>3 DEF TypeOK, Mapping, Mapped
  <2> HIDE DEF c
  <2> QED
    BY <1>1, <2>1, <2>2, <2>3, <2>4 DEF Mapped
<1>6. ASSUME NEW r \in Run, NEW t \in Task, CreateFails(r, t) PROVE Mapped'
  <2> DEFINE c == [run[r] EXCEPT !.todo = @ \ {t}]
  <2>1. run' = [run EXCEPT ![r] = c] /\ beads \subseteq beads' /\ mirror' = mirror
    BY <1>6 DEF CreateFails, TypeOK
  <2>2. c.seen = run[r].seen /\ c.map = run[r].map
    BY DEF TypeOK
  <2> HIDE DEF c
  <2> QED
    BY <1>1, <2>1, <2>2 DEF Mapped
<1>7. ASSUME NEW r \in Run, CloseBead(r) \/ CloseFails(r) \/ Link(r) \/ OpenMirror(r)
             \/ WriteMirror(r) \/ Kill(r)
      PROVE  Mapped'
  <2>1. PICK ph : \/ run' = [run EXCEPT ![r] = Idle]
                  \/ run' = [run EXCEPT ![r] = [run[r] EXCEPT !.phase = ph]]
    BY <1>7 DEF CloseBead, CloseFails, Link, OpenMirror, WriteMirror, Kill
  <2> DEFINE c == [run[r] EXCEPT !.phase = ph]
  <2>2. c.seen = run[r].seen /\ c.map = run[r].map
    BY DEF TypeOK
  <2>3. Idle.seen = {} /\ \A t \in Task : Idle.map[t] = NoBead
    BY DEF Idle, Unmapped
  <2>4. beads' = beads /\ mirror' \in {mirror, Unmapped, run[r].map}
    BY <1>7 DEF CloseBead, CloseFails, Link, OpenMirror, WriteMirror, Kill
  <2>5. \A t \in Task : mirror'[t] # NoBead => <<t, mirror'[t]>> \in beads'
    BY <2>4 DEF Mapped, Unmapped
  <2> HIDE DEF c
  <2>6. CASE run' = [run EXCEPT ![r] = Idle]
    BY <1>1, <2>3, <2>4, <2>5, <2>6
  <2>7. CASE run' = [run EXCEPT ![r] = c]
    BY <1>1, <2>2, <2>4, <2>5, <2>7 DEF Mapped
  <2> QED
    BY <2>1, <2>6, <2>7 DEF c
<1>8. ASSUME UNCHANGED <<beads, mirror, run>> PROVE Mapped'
  BY <1>8 DEF Mapped
<1> QED
  BY <1>2, <1>3, <1>4, <1>5, <1>6, <1>7, <1>8
     DEF Next, RunStep, Move, Answer, vars

(* A task that counts as over counts on, whoever takes it up again, when   *)
(* its bead is closed or a run goes by its old state.                      *)
LEMMA EndedStays ==
  TypeOK /\ [Next]_vars => \A t \in Ended : t \in Ended' \/ ~ Settled(t)
<1> SUFFICES ASSUME TypeOK, [Next]_vars, NEW t \in Ended, Settled(t)
             PROVE  t \in Ended'
  OBVIOUS
<1>1. CASE UNCHANGED <<task, reopened>>
  BY <1>1 DEF Ended
<1>2. ASSUME NEW u \in Task, NEW m \in TaskMove, Move(u, m)
      PROVE  t \in Ended'
  <2>1. CASE t \in reopened
    BY <1>2, <2>1 DEF Move, Ended
  <2>2. CASE t \in Finished(task) /\ t # u
    <3>1. task'[t] = task[t]
      BY <1>2, <2>2 DEF Move, TypeOK, Finished
    <3> QED
      BY <2>2, <3>1 DEF Finished, Ended
  <2>3. CASE t \in Finished(task) /\ t = u
    <3>1. m[1] \in Terminal /\ task'[t] = Canonical(m[2])
      BY <1>2, <2>3 DEF Move, TypeOK, Finished
    <3>2. CASE Canonical(m[2]) \in Terminal
      BY <2>3, <3>1, <3>2 DEF Finished, Ended
    <3>3. CASE Canonical(m[2]) \notin Terminal
      BY <1>2, <2>3, <3>1, <3>3 DEF Move, Ended
    <3> QED
      BY <3>2, <3>3
  <2> QED
    BY <2>1, <2>2, <2>3 DEF Ended
<1>3. ASSUME NEW r \in Run,
             \/ (\E W \in Item : Start(r, W)) \/ RunStep(r) \/ ListFails(r)
             \/ CloseFails(r) \/ Kill(r) \/ \E u \in Task : CreateFails(r, u)
      PROVE  UNCHANGED <<task, reopened>>
  BY <1>3
     DEF Start, RunStep, List, ListFails, Adopt, Create, CreateFails, CloseBead,
         CloseFails, Link, OpenMirror, WriteMirror, Kill, Nodes
<1> QED
  BY <1>1, <1>2, <1>3 DEF Next, Answer, vars

LEMMA OverNext == TypeOK /\ OverClosed /\ [Next]_vars => OverClosed'
<1> SUFFICES ASSUME TypeOK, OverClosed, [Next]_vars PROVE OverClosed'
  OBVIOUS
<1>0. \A t \in Ended : Settled(t) => t \in Ended'
  BY EndedStays
<1>a. \A b \in closed : \E t \in Ended' : <<t, b>> \in beads
  BY <1>0 DEF OverClosed, Settled
<1>b. \A q \in Run : run[q].over \subseteq Ended'
  BY <1>0 DEF OverClosed, Settled
<1> USE DEF Tracker, Nodes
<1>1. ASSUME beads \subseteq beads',
             \A b \in closed' : b \in closed \/ \E t \in Ended' : <<t, b>> \in beads',
             NEW r \in Run, NEW c, run' = [run EXCEPT ![r] = c],
             c.over \subseteq Ended',
             c.phase = "closing" => \E t \in c.over : <<t, c.last>> \in beads'
      PROVE  OverClosed'
  <2>1. run'[r] = c /\ \A q \in Run \ {r} : run'[q] = run[q]
    BY <1>1, Framed
  <2>2. \A b \in closed' : \E t \in Ended' : <<t, b>> \in beads'
    BY <1>a, <1>1
  <2>3. \A q \in Run :
          /\ run'[q].over \subseteq Ended'
          /\ run'[q].phase = "closing" =>
               \E t \in run'[q].over : <<t, run'[q].last>> \in beads'
    BY <1>b, <1>1, <2>1 DEF OverClosed
  <2> QED
    BY <2>2, <2>3 DEF OverClosed
<1>2. ASSUME NEW r \in Run, NEW W \in Item, Start(r, W) PROVE OverClosed'
  <2> DEFINE c == [Idle EXCEPT !.phase = "listing", !.item = W, !.map = mirror,
                               !.over = W \cap Finished(task)]
  <2>1. c.over = W \cap Finished(task) /\ c.phase = "listing"
    BY DEF Idle
  <2>2. run' = [run EXCEPT ![r] = c] /\ beads' = beads /\ closed' = closed
    BY <1>2 DEF Start
  <2>3. c.over \subseteq Ended'
    BY <1>2, <2>1 DEF Start, Ended
  <2> HIDE DEF c
  <2> QED
    BY <1>1, <2>1, <2>2, <2>3
<1>3. ASSUME NEW r \in Run, NEW t \in Task, Create(r, t) PROVE OverClosed'
  <2> DEFINE ph == IF t \in run[r].over THEN "closing" ELSE "creating"
  <2> DEFINE c == [run[r] EXCEPT !.todo = @ \ {t}, !.map[t] = NewBead,
                                 !.last = NewBead, !.phase = ph]
  <2>1. run' = [run EXCEPT ![r] = c] /\ closed' = closed
    BY <1>3 DEF Create, TypeOK
  <2>2. c.over = run[r].over /\ c.last = NewBead /\ c.phase = ph
    BY DEF TypeOK
  <2>3. beads' = beads \cup {<<t, NewBead>>}
    BY <1>3 DEF Create
  <2>4. c.phase = "closing" => t \in c.over
    BY <2>2
  <2> HIDE DEF c
  <2> QED
    BY <1>b, <1>1, <2>1, <2>2, <2>3, <2>4
<1>4. ASSUME NEW r \in Run,
             CloseBead(r) \/ CloseFails(r) \/ List(r) \/ ListFails(r) \/ Link(r)
             \/ OpenMirror(r) \/ WriteMirror(r) \/ Kill(r)
             \/ \E t \in Task : Adopt(r, t) \/ CreateFails(r, t)
      PROVE  OverClosed'
  <2>1. PICK c : /\ run' = [run EXCEPT ![r] = c]
                 /\ c = Idle \/ (c.over = run[r].over /\ c.phase # "closing")
    <3>1. CASE List(r) \/ ListFails(r)
      BY <3>1 DEF List, ListFails, TypeOK
    <3>2. ASSUME NEW t \in Task, Adopt(r, t) \/ CreateFails(r, t)
          PROVE  run[r].phase = "creating" /\ run'[r].phase = "creating"
                 /\ run'[r].over = run[r].over /\ run' = [run EXCEPT ![r] = run'[r]]
      BY <3>2 DEF Adopt, CreateFails, MustCreate, TypeOK
    <3>3. CASE CloseBead(r) \/ CloseFails(r)
      BY <3>3 DEF CloseBead, CloseFails, TypeOK
    <3>4. CASE Link(r) \/ OpenMirror(r) \/ WriteMirror(r) \/ Kill(r)
      BY <3>4 DEF Link, OpenMirror, WriteMirror, Kill, TypeOK
    <3> QED
      BY <1>4, <3>1, <3>2, <3>3, <3>4
  <2>2. c.over \subseteq Ended' /\ c.phase # "closing"
    BY <1>b, <2>1 DEF Idle
  <2>3. beads \subseteq beads'
    BY <1>4
       DEF CloseBead, CloseFails, List, ListFails, Link, OpenMirror, WriteMirror,
           Kill, Adopt, CreateFails
  <2>4. \/ closed' = closed
        \/ /\ run[r].phase = "closing"
           /\ closed' = closed \cup {run[r].last}
    <3>1. CASE CloseBead(r)
      BY <3>1 DEF CloseBead
    <3>2. CASE CloseFails(r) \/ List(r) \/ ListFails(r)
      BY <3>2 DEF CloseFails, List, ListFails
    <3>3. CASE Link(r) \/ OpenMirror(r) \/ WriteMirror(r) \/ Kill(r)
      BY <3>3 DEF Link, OpenMirror, WriteMirror, Kill
    <3>4. CASE \E t \in Task : Adopt(r, t) \/ CreateFails(r, t)
      BY <3>4 DEF Adopt, CreateFails
    <3> QED
      BY <1>4, <3>1, <3>2, <3>3, <3>4
  <2>5. \A b \in closed' : b \in closed \/ \E t \in Ended' : <<t, b>> \in beads'
    BY <1>b, <2>3, <2>4 DEF OverClosed
  <2> QED
    BY <1>1, <2>1, <2>2, <2>3, <2>5
<1>5. CASE \/ \E t \in Task, m \in TaskMove : Move(t, m)
           \/ \E q \in Question : Answer(q)
           \/ UNCHANGED vars
  <2>1. UNCHANGED <<beads, closed, run>>
    BY <1>5 DEF Move, Answer, vars
  <2> QED
    BY <1>a, <1>b, <2>1 DEF OverClosed
<1> QED
  BY <1>2, <1>3, <1>4, <1>5 DEF Next, RunStep

LEMMA MishapsStay == [Next]_vars => mishap \subseteq mishap'
<1> SUFFICES ASSUME [Next]_vars PROVE mishap \subseteq mishap'
  OBVIOUS
<1>1. ASSUME NEW r \in Run, (\E W \in Item : Start(r, W)) \/ List(r) \/ ListFails(r)
      PROVE  mishap \subseteq mishap'
  BY <1>1 DEF Start, List, ListFails
<1>2. ASSUME NEW r \in Run, CloseBead(r) \/ CloseFails(r) \/ Link(r) \/ Kill(r)
      PROVE  mishap \subseteq mishap'
  BY <1>2 DEF CloseBead, CloseFails, Link, Kill
<1>3. ASSUME NEW r \in Run, OpenMirror(r) \/ WriteMirror(r)
      PROVE  mishap \subseteq mishap'
  BY <1>3 DEF OpenMirror, WriteMirror
<1>4. ASSUME NEW r \in Run, NEW t \in Task,
             Adopt(r, t) \/ Create(r, t) \/ CreateFails(r, t)
      PROVE  mishap \subseteq mishap'
  BY <1>4 DEF Adopt, Create, CreateFails
<1>5. CASE \/ \E t \in Task, m \in TaskMove : Move(t, m)
           \/ \E q \in Question : Answer(q)
           \/ UNCHANGED vars
  BY <1>5 DEF Move, Answer, vars
<1> QED
  BY <1>1, <1>2, <1>3, <1>4, <1>5 DEF Next, RunStep

LEMMA InformedNext == TypeOK /\ Informed /\ [Next]_vars => Informed'
<1> SUFFICES ASSUME TypeOK, Informed, [Next]_vars, mishap' = {} PROVE Informed'
  BY DEF Informed
<1> USE DEF Tracker, Nodes
<1>0. mishap = {}
  BY MishapsStay
<1>1. ASSUME NEW r \in Run, NEW c, run' = [run EXCEPT ![r] = c],
             \A q \in Run \ {r} : run[q].phase = "idle",
             c.phase \in {"creating", "closing"} =>
               \A t \in c.todo, b \in Bead : <<t, b>> \in beads' => <<t, b>> \in c.seen
      PROVE  Informed'
  <2>1. run'[r] = c /\ \A q \in Run \ {r} : run'[q] = run[q]
    BY <1>1, Framed
  <2> QED
    BY <1>1, <2>1 DEF Informed
<1>2. ASSUME NEW r \in Run, run[r].phase # "idle"
      PROVE  \A q \in Run \ {r} : run[q].phase = "idle"
  BY <1>0, <1>2 DEF Informed
<1>3. ASSUME NEW r \in Run, NEW W \in Item, Start(r, W) PROVE Informed'
  <2> DEFINE c == [Idle EXCEPT !.phase = "listing", !.item = W, !.map = mirror,
                               !.over = W \cap Finished(task)]
  <2>1. c.phase = "listing"
    BY DEF Idle
  <2>2. run' = [run EXCEPT ![r] = c] /\ \A q \in Run : run[q].phase = "idle"
    BY <1>3 DEF Start
  <2> HIDE DEF c
  <2> QED
    BY <1>1, <2>1, <2>2
<1>4. ASSUME NEW r \in Run, List(r) PROVE Informed'
  <2> DEFINE c == [run[r] EXCEPT !.phase = "creating", !.todo = run[r].item, !.seen = beads]
  <2>1. run' = [run EXCEPT ![r] = c] /\ beads' = beads /\ run[r].phase # "idle"
    BY <1>4 DEF List
  <2>2. c.seen = beads
    BY DEF TypeOK
  <2> HIDE DEF c
  <2> QED
    BY <1>1, <1>2, <2>1, <2>2
<1>5. ASSUME NEW r \in Run, NEW t \in Task,
             Adopt(r, t) \/ Create(r, t) \/ CreateFails(r, t)
      PROVE  Informed'
  <2>1. run[r].phase = "creating"
    BY <1>5 DEF Adopt, Create, CreateFails, MustCreate
  <2>2. /\ run' = [run EXCEPT ![r] = run'[r]]
        /\ run'[r].todo = run[r].todo \ {t}
        /\ run'[r].seen = run[r].seen
    BY <1>5 DEF Adopt, Create, CreateFails, TypeOK
  <2>3. \A u \in Task \ {t}, b \in Bead : <<u, b>> \in beads' => <<u, b>> \in beads
    BY <1>5 DEF Adopt, Create, CreateFails
  <2>4. \A u \in run'[r].todo, b \in Bead :
          <<u, b>> \in beads' => <<u, b>> \in run'[r].seen
    BY <1>0, <2>1, <2>2, <2>3 DEF Informed, TypeOK
  <2> QED
    BY <1>1, <1>2, <2>1, <2>2, <2>4
<1>6. ASSUME NEW r \in Run, CloseBead(r) \/ CloseFails(r) PROVE Informed'
  <2>1. run[r].phase = "closing" /\ beads' = beads
    BY <1>6 DEF CloseBead, CloseFails
  <2>2. /\ run' = [run EXCEPT ![r] = run'[r]]
        /\ run'[r].todo = run[r].todo /\ run'[r].seen = run[r].seen
    BY <1>6 DEF CloseBead, CloseFails, TypeOK
  <2>3. \A u \in run'[r].todo, b \in Bead :
          <<u, b>> \in beads' => <<u, b>> \in run'[r].seen
    BY <1>0, <2>1, <2>2 DEF Informed
  <2> QED
    BY <1>1, <1>2, <2>1, <2>2, <2>3
<1>7. ASSUME NEW r \in Run, Link(r) \/ OpenMirror(r) \/ WriteMirror(r) \/ Kill(r)
      PROVE  Informed'
  <2>1. /\ run[r].phase # "idle"
        /\ run' = [run EXCEPT ![r] = run'[r]]
        /\ run'[r].phase \notin {"creating", "closing"}
    BY <1>7 DEF Link, OpenMirror, WriteMirror, Kill, TypeOK, Idle
  <2> QED
    BY <1>1, <1>2, <2>1
<1>8. ASSUME NEW r \in Run, ListFails(r) PROVE FALSE
  BY <1>8 DEF ListFails
<1>9. CASE \/ \E t \in Task, m \in TaskMove : Move(t, m)
           \/ \E q \in Question : Answer(q)
           \/ UNCHANGED vars
  <2>1. UNCHANGED <<beads, run>>
    BY <1>9 DEF Move, Answer, vars
  <2> QED
    BY <1>0, <2>1 DEF Informed
<1> QED
  BY <1>3, <1>4, <1>5, <1>6, <1>7, <1>8, <1>9 DEF Next, RunStep

LEMMA OneBeadNext ==
  TypeOK /\ Informed /\ OneBeadPerTask /\ [Next]_vars => OneBeadPerTask'
<1> SUFFICES ASSUME TypeOK, Informed, OneBeadPerTask, [Next]_vars, mishap' = {}
             PROVE  \A a, b \in beads' : a[1] = b[1] => a = b
  BY DEF OneBeadPerTask
<1>0. mishap = {}
  BY MishapsStay
<1>1. CASE beads' = beads
  BY <1>0, <1>1 DEF OneBeadPerTask
<1>2. ASSUME NEW r \in Run, NEW t \in Task, Create(r, t) \/ CreateFails(r, t)
      PROVE  \A a, b \in beads' : a[1] = b[1] => a = b
  <2>1. MustCreate(r, t)
    BY <1>2 DEF Create, CreateFails
  <2>2. \A b \in Bead : <<t, b>> \notin run[r].seen
    BY <2>1 DEF MustCreate, Known
  <2>3. \A b \in Bead : <<t, b>> \notin beads
    BY <1>0, <2>1, <2>2 DEF MustCreate, Informed
  <2>4. \A a \in beads : a[1] # t
    BY <2>3 DEF TypeOK
  <2>5. beads' = beads \/ beads' = beads \cup {<<t, NewBead>>}
    BY <1>2 DEF Create, CreateFails
  <2> QED
    BY <1>0, <2>4, <2>5 DEF OneBeadPerTask
<1>3. ASSUME NEW r \in Run,
             \/ (\E W \in Item : Start(r, W)) \/ List(r) \/ ListFails(r) \/ CloseBead(r) \/ CloseFails(r)
             \/ Link(r) \/ OpenMirror(r) \/ WriteMirror(r) \/ Kill(r)
             \/ \E t \in Task : Adopt(r, t)
      PROVE  beads' = beads
  BY <1>3
     DEF Start, List, ListFails, Adopt, CloseBead, CloseFails, Link, OpenMirror,
         WriteMirror, Kill, Tracker
<1> QED
  BY <1>1, <1>2, <1>3 DEF Next, RunStep, Move, Answer, Tracker, vars

-----------------------------------------------------------------------------
LEMMA InvAlways == Spec => []IInv
<1>1. IInv /\ [Next]_vars => IInv'
  BY IInvMade, TypeNext, NumberedNext, MappedNext, OverNext, InformedNext,
     OneBeadNext DEF IInv
<1> QED
  BY <1>1, InvInit, PTL DEF Spec

(* Tasks, questions, beads, mapping and every process keep their types.    *)
THEOREM TypeCorrect == Spec => []TypeOK
<1>1. IInv => TypeOK
  BY DEF IInv
<1> QED
  BY <1>1, InvAlways, PTL

(* However often the command fails, times out after it took effect, dies   *)
(* and is repeated, no task gets a second bead, unless bd list failed or   *)
(* two runs overlapped.                                                    *)
THEOREM OneBead == Spec => []OneBeadPerTask
<1>1. IInv => OneBeadPerTask
  BY DEF IInv
<1> QED
  BY <1>1, InvAlways, PTL

(* Reconcile finds no bead missing, and none closed too early but that of *)
(* a task taken up again when its bead was closed already or while a run   *)
(* went by its old state; overlapping runs and failed listings included.   *)
THEOREM NoAlarm == Spec => []NoFalseAlarm
<1>1. IInv => NoFalseAlarm
  <2> SUFFICES ASSUME IInv, NEW t \in Mismatches PROVE t \in reopened
    BY DEF NoFalseAlarm
  <2>1. t \in Task /\ mirror[t] # NoBead
    BY DEF Mismatches
  <2>2. <<t, mirror[t]>> \in beads
    BY <2>1 DEF IInv, Mapped
  <2>3. mirror[t] \in closed /\ t \notin Finished(task)
    BY <2>1, <2>2 DEF Mismatches
  <2>4. PICK u \in Ended : <<u, mirror[t]>> \in beads
    BY <2>3 DEF IInv, OverClosed
  <2>5. <<u, mirror[t]>> = <<t, mirror[t]>>
    BY <2>2, <2>4 DEF IInv, Numbered
  <2> QED
    BY <2>3, <2>4, <2>5 DEF Ended
<1> QED
  BY <1>1, InvAlways, PTL

-----------------------------------------------------------------------------
(* A work item in which nobody can go on waits for a task of another item, *)
(* or some of its tasks wait for each other in a circle, whatever people,  *)
(* failing calls and overlapping runs do.                                  *)
THEOREM CanMove == Spec => []SomebodyCanMove
<1>1. TypeOK => SomebodyCanMove
  <2> SUFFICES ASSUME TypeOK, NEW W \in Item \cup {Task}, Left(W) # {}, ~ Moving(W),
                      \A t \in Left(W) : HeldBy(t) \subseteq W
               PROVE  \A t \in Left(W) : HeldBy(t) \cap Left(W) # {}
    BY DEF SomebodyCanMove, Left
  <2> TAKE t \in Left(W)
  <2>1. W \subseteq Task /\ t \in W /\ t \in Task
    BY BeadsAssumption DEF Left
  <2>2. task[t] \in {"TODO", "READY"}
    BY <2>1
       DEF TypeOK, TaskState, Left, Moving, Finished, Terminal, Working, Parked,
           StateBlocked
  <2>3. t \notin Ready(task, question)
    BY <2>1 DEF Moving
  <2>4. PICK x \in Blockers(task, question, t) : TRUE
    BY <2>1, <2>2, <2>3 DEF Ready
  <2>5. x \in Task /\ <<t, x>> \in Needs /\ task[x] \notin Terminal
    BY <2>1, <2>4 DEF Blockers, Moving
  <2>6. x \in HeldBy(t)
    BY <2>5 DEF HeldBy, Left, Finished
  <2> QED
    BY <2>6 DEF HeldBy, Left
<1> QED
  BY <1>1, TypeCorrect, PTL
=============================================================================
