--------------------------- MODULE WorkFilesProofs ---------------------------
(* Proofs about the files of a task (WorkFiles.tla), for any sessions,     *)
(* jobs, slugs and bounds.                                                 *)
EXTENDS WorkFiles, TLAPS

-----------------------------------------------------------------------------
(* Types.                                                                  *)

LEMMA EmptyType == Empty \in Toml
BY DEF Empty, Toml, Status

LEMMA IdleType == Idle \in Process
BY EmptyType DEF Idle, Process, Phase, Work, Path, DefaultPath

LEMMA TomlOps ==
  ASSUME NEW t \in Toml, NEW i \in Id
  PROVE  /\ \A st \in Status : Appended(t, i, st) \in Toml
         /\ Closed(t, i) \in Toml
BY DEF Appended, Closed, Toml, Status

LEMMA OutdatedType ==
  ASSUME NEW P \in [Session -> Process], NEW s
  PROVE  Outdated(P, s) \in [Session -> Process] /\ Behind(P, s) \in [Session -> Process]
BY DEF Outdated, Behind, Process

LEMMA RebindType ==
  ASSUME NEW R \in SUBSET Receipt, NEW i, head \in 0 .. MaxCommits
  PROVE  /\ Rebind(R, i) \in SUBSET Receipt
         /\ \A r \in R : \E q \in Rebind(R, i) : q.n = r.n
<1> DEFINE new(r) == IF r.work = i THEN [r EXCEPT !.commit = head] ELSE r
<1>1. \A r \in R : new(r) \in Receipt /\ new(r).n = r.n
  BY DEF Receipt
<1>2. Rebind(R, i) = {new(r) : r \in R}
  BY DEF Rebind
<1> HIDE DEF new
<1> QED
  BY <1>1, <1>2

LEMMA DeclaredType ==
  ASSUME NEW t \in Toml
  PROVE  Declared(t) \in SUBSET Id /\ Declared(t) \subseteq Listed(t)
BY DEF Declared, Listed

LEMMA FullIndexType ==
  ASSUME TypeOK, NEW g \in Graph
  PROVE  FullIndex(g) \in Graph
BY DeclaredType DEF TypeOK, Graph, FullIndex, Parses

LEMMA ChangedIndexType ==
  ASSUME TypeOK, NEW g \in Graph
  PROVE  ChangedIndex(g) \in Graph
<1>1. Declared(toml) \in SUBSET Id
  BY DeclaredType DEF TypeOK
<1>2. g.known \in SUBSET Id /\ g.live \in SUBSET Id /\ head \in 0 .. MaxCommits
  BY DEF TypeOK, Graph
<1>3. CASE Changed = {}
  BY <1>3 DEF ChangedIndex
<1>4. CASE Changed # {}
  <2> DEFINE b == ~Parses(toml) \/ (g.broken /\ "work.toml" \notin Changed)
             k == (IF "work.toml" \in Changed THEN g.live ELSE g.known)
                    \cup Declared(toml)
             l == (IF "work.toml" \in Changed THEN {} ELSE g.live)
                    \cup Declared(toml)
  <2>1. b \in BOOLEAN
    OBVIOUS
  <2>2. k \in SUBSET Id /\ l \in SUBSET Id
    BY <1>1, <1>2
  <2>3. ChangedIndex(g) = [known |-> k, live |-> l, broken |-> b, rev |-> head]
    BY <1>4, Zenon DEF ChangedIndex
  <2> HIDE DEF b, k, l
  <2> QED
    BY <2>1, <2>2, <2>3, <1>2 DEF Graph
<1> QED
  BY <1>3, <1>4

LEMMA RefreshedType ==
  ASSUME TypeOK
  PROVE  FullIndex(graph) \in Graph /\ Refreshed(graph) \in Graph
<1>1. graph \in Graph
  BY DEF TypeOK
<1>2. FullIndex(graph) \in Graph
  BY <1>1, FullIndexType
<1>3. ChangedIndex(graph) \in Graph /\ ChangedIndex(FullIndex(graph)) \in Graph
  BY <1>1, <1>2, ChangedIndexType
<1> QED
  BY <1>2, <1>3 DEF Refreshed

LEMMA MintedType ==
  ASSUME NEW g, NEW c \in Slug
  PROVE  \A i \in Minted(g, c) : i \in Id /\ i \notin g.known
<1> SUFFICES ASSUME NEW i \in Minted(g, c) PROVE i \in Id /\ i \notin g.known
  OBVIOUS
<1>1. PICK n \in 1 .. MaxCopies : i = <<c, n>> /\ <<c, n>> \notin Taken(g)
  BY DEF Minted
<1> QED
  BY <1>1 DEF Id, Taken

LEMMA SpecPathType == \A i \in Id : SpecPath(i) \in Path
BY DEF SpecPath, Path

LEMMA MishapType ==
  /\ \A i : Twin(i) \in SUBSET Mishap
  /\ \A s : Overtaken(s) \in SUBSET Mishap
  /\ Glimpsed \in SUBSET Mishap
BY DEF Twin, Overtaken, Glimpsed, Mishap

LEMMA TypeInit == Init => TypeOK
BY EmptyType, IdleType, WorkFilesAssumption
   DEF Init, TypeOK, Work, Graph, File, Path, DefaultPath

LEMMA Phases ==
  ASSUME NEW ph \in {"idle", "minted", "specified", "entry", "entryOpen",
           "written", "indexed", "named", "bare", "bareOpen", "finishing",
           "passed", "status", "statusOpen", "closed", "bind", "bindOpen", "bound"}
  PROVE  ph \in Phase
BY DEF Phase

LEMMA ProcessType ==
  ASSUME NEW c \in Process, NEW ph \in Phase
  PROVE  /\ [c EXCEPT !.phase = ph] \in Process
         /\ \A b \in BOOLEAN : [c EXCEPT !.phase = ph, !.stale = b] \in Process
         /\ \A t \in Toml, b \in BOOLEAN :
              [c EXCEPT !.phase = ph, !.toml = t, !.stale = b] \in Process
         /\ \A R \in SUBSET Receipt, b \in BOOLEAN :
              [c EXCEPT !.phase = ph, !.log = R, !.stale = b] \in Process
         /\ \A w \in Work : [Idle EXCEPT !.phase = ph, !.work = w] \in Process
         /\ \A w \in Work, p \in Path :
              [Idle EXCEPT !.phase = ph, !.work = w, !.path = p] \in Process
BY IdleType DEF Process

(* A process that is not idle works for a work item.                       *)
Working == \A s \in Session : proc[s].phase # "idle" => proc[s].work \in Id
TypeInv == TypeOK /\ Working

(* Two states of a process that differ at most in whether it is overtaken. *)
Same(c, d) ==
  /\ c.phase = d.phase /\ c.work = d.work /\ c.path = d.path
  /\ c.toml = d.toml /\ c.log = d.log
  /\ c.stale \in {d.stale, TRUE}

(* The state a step of the process s takes it to, and whom it overtakes.   *)
Alone(s, c) == proc' = [proc EXCEPT ![s] = c]
Rewrites(s, c) == proc' = Outdated([proc EXCEPT ![s] = c], s)
Rebinds(s, c) == proc' = Behind([proc EXCEPT ![s] = c], s)

Binding == {"bind", "bindOpen"}

LEMMA OneProcess ==
  ASSUME TypeInv, NEW s \in Session, NEW c \in Process,
         c.phase # "idle" => c.work \in Id,
         Alone(s, c) \/ Rewrites(s, c) \/ Rebinds(s, c)
  PROVE  /\ proc' \in [Session -> Process]
         /\ Working'
         /\ proc'[s] = c
         /\ \A q \in Session \ {s} :
              /\ Same(proc'[q], proc[q])
              /\ Alone(s, c) => proc'[q] = proc[q]
              /\ Rewrites(s, c) => IF proc[q].phase \in Held THEN proc'[q].stale = TRUE
                                   ELSE proc'[q] = proc[q]
              /\ Rebinds(s, c) => IF proc[q].phase \in Binding THEN proc'[q].stale = TRUE
                                  ELSE proc'[q] = proc[q]
<1> DEFINE P == [proc EXCEPT ![s] = c]
<1>1. P \in [Session -> Process]
  BY DEF TypeInv, TypeOK
<1>2. P[s] = c /\ \A q \in Session \ {s} : P[q] = proc[q]
  BY DEF TypeInv, TypeOK
<1>3. Alone(s, c) => proc' = P
  BY DEF Alone
<1>4. Rewrites(s, c) => proc' = Outdated(P, s)
  BY DEF Rewrites
<1>5. Rebinds(s, c) => proc' = Behind(P, s)
  BY DEF Rebinds
<1> HIDE DEF P
<1>6. proc' \in [Session -> Process]
  BY <1>1, <1>3, <1>4, <1>5, OutdatedType
<1>7. proc'[s] = c
  BY <1>2, <1>3, <1>4, <1>5 DEF Outdated, Behind
<1>8. ASSUME NEW q \in Session \ {s}
      PROVE  /\ Same(proc'[q], proc[q])
             /\ Alone(s, c) => proc'[q] = proc[q]
             /\ Rewrites(s, c) => IF proc[q].phase \in Held THEN proc'[q].stale = TRUE
                                  ELSE proc'[q] = proc[q]
             /\ Rebinds(s, c) => IF proc[q].phase \in Binding THEN proc'[q].stale = TRUE
                                 ELSE proc'[q] = proc[q]
  <2> DEFINE late == [proc[q] EXCEPT !.stale = TRUE]
  <2>1. Alone(s, c) => proc'[q] = proc[q]
    BY <1>2, <1>3
  <2>2. Rewrites(s, c) => proc'[q] = IF proc[q].phase \in Held THEN late ELSE proc[q]
    BY <1>2, <1>4 DEF Outdated
  <2>3. Rebinds(s, c) => proc'[q] = IF proc[q].phase \in Binding THEN late ELSE proc[q]
    BY <1>2, <1>5 DEF Behind, Binding
  <2>4. late.stale = TRUE /\ Same(late, proc[q]) /\ Same(proc[q], proc[q])
    <3>1. proc[q] \in Process
      BY DEF TypeInv, TypeOK
    <3> QED
      BY <3>1 DEF Process, Same
  <2> HIDE DEF late
  <2> QED
    BY <2>1, <2>2, <2>3, <2>4
<1>9. Working'
  BY <1>7, <1>8 DEF Working, TypeInv, Same
<1> QED
  BY <1>6, <1>7, <1>8, <1>9

(* What a process may be after a step of its own.                          *)
To(s, ph) == [proc[s] EXCEPT !.phase = ph]
Copy(s, ph) ==
  [proc[s] EXCEPT !.phase = ph, !.toml = toml,
                  !.stale = \E q \in Session : OpenBy(q)]
New(ph, i) == [Idle EXCEPT !.phase = ph, !.work = i]
Minting(i, p) == [Idle EXCEPT !.phase = "minted", !.work = i, !.path = p]

LEMMA FieldsOf ==
  \A c \in Process : DOMAIN c = {"phase", "work", "path", "toml", "log", "stale"}
BY DEF Process

LEMMA ToIs ==
  ASSUME TypeInv, NEW s \in Session, NEW ph \in Phase
  PROVE  /\ To(s, ph) \in Process
         /\ To(s, ph).phase = ph /\ To(s, ph).work = proc[s].work
         /\ To(s, ph).toml = proc[s].toml /\ To(s, ph).log = proc[s].log
         /\ To(s, ph).path = proc[s].path /\ To(s, ph).stale = proc[s].stale
<1>1. proc[s] \in Process
  BY DEF TypeInv, TypeOK
<1> QED
  BY <1>1, ProcessType, FieldsOf DEF To

LEMMA CopyIs ==
  ASSUME TypeInv, NEW s \in Session, NEW ph \in Phase
  PROVE  /\ Copy(s, ph) \in Process
         /\ Copy(s, ph).phase = ph /\ Copy(s, ph).work = proc[s].work
         /\ Copy(s, ph).toml = toml
         /\ Copy(s, ph).stale = \E q \in Session : OpenBy(q)
<1>1. proc[s] \in Process /\ toml \in Toml
  BY DEF TypeInv, TypeOK
<1> DEFINE b == \E q \in Session : OpenBy(q)
<1>2. b \in BOOLEAN
  OBVIOUS
<1> HIDE DEF b
<1>3. Copy(s, ph) = [proc[s] EXCEPT !.phase = ph, !.toml = toml, !.stale = b]
  BY DEF Copy, b
<1>4. Copy(s, ph) \in Process
  <2>1. \A t \in Toml, x \in BOOLEAN :
          [proc[s] EXCEPT !.phase = ph, !.toml = t, !.stale = x] \in Process
    BY <1>1, ProcessType
  <2> QED
    BY <1>1, <1>2, <1>3, <2>1
<1>5. /\ Copy(s, ph).phase = ph /\ Copy(s, ph).work = proc[s].work
      /\ Copy(s, ph).toml = toml /\ Copy(s, ph).stale = b
  BY <1>1, <1>3, FieldsOf
<1> QED
  BY <1>4, <1>5 DEF b

LEMMA NewIs ==
  ASSUME NEW ph \in Phase, NEW i \in Id
  PROVE  /\ New(ph, i) \in Process
         /\ New(ph, i).phase = ph /\ New(ph, i).work = i /\ New(ph, i).stale = FALSE
<1>1. i \in Work
  BY DEF Work
<1> QED
  BY <1>1, ProcessType, IdleType, FieldsOf DEF New, Idle

LEMMA NewOf ==
  \A ph \in {"written", "closed", "bound"}, i \in Id :
    New(ph, i) \in Process /\ New(ph, i).phase = ph /\ New(ph, i).work = i
<1> SUFFICES ASSUME NEW ph \in {"written", "closed", "bound"}, NEW i \in Id
             PROVE  New(ph, i) \in Process /\ New(ph, i).phase = ph /\ New(ph, i).work = i
  OBVIOUS
<1>1. ph \in Phase
  BY Phases
<1> QED
  BY <1>1, NewIs

LEMMA MintingIs ==
  ASSUME NEW i \in Id, NEW p \in Path
  PROVE  /\ Minting(i, p) \in Process
         /\ Minting(i, p).phase = "minted" /\ Minting(i, p).work = i
         /\ Minting(i, p).path = p /\ Minting(i, p).stale = FALSE
<1>1. i \in Work /\ "minted" \in Phase
  BY Phases DEF Work
<1> QED
  BY <1>1, ProcessType, IdleType, FieldsOf DEF Minting, Idle

LEMMA GotoIs ==
  ASSUME NEW s \in Session, NEW ph, TypeInv
  PROVE  [proc EXCEPT ![s].phase = ph] = [proc EXCEPT ![s] = To(s, ph)]
BY DEF To, TypeInv, TypeOK

LEMMA ReadIs ==
  ASSUME TypeInv, NEW s \in Session, NEW from, NEW to, ReadToml(s, from, to)
  PROVE  proc' = [proc EXCEPT ![s] = Copy(s, to)]
<1>1. proc \in [Session -> Process]
  BY DEF TypeInv, TypeOK
<1>2. proc' = [proc EXCEPT ![s].phase = to, ![s].toml = toml,
                           ![s].stale = \E q \in Session : OpenBy(q)]
  BY DEF ReadToml
<1> DEFINE b == \E q \in Session : OpenBy(q)
<1> HIDE DEF b
<1>3. proc' = [proc EXCEPT ![s].phase = to, ![s].toml = toml, ![s].stale = b]
  BY <1>2 DEF b
<1>4. proc' = [proc EXCEPT ![s] = [proc[s] EXCEPT !.phase = to, !.toml = toml,
                                                  !.stale = b]]
  BY <1>1, <1>3
<1> QED
  BY <1>4 DEF b, Copy

(* What each step makes of its process.                                    *)
LEMMA BeginTable ==
  ASSUME TypeInv, NEW s \in Session
  PROVE  /\ \A d \in Slug : Bootstrap(s, d) =>
              \E i \in Minted(graph, d) : /\ Alone(s, Minting(i, SpecPath(i)))
                                          /\ mishap' = mishap \cup Twin(i)
         /\ \A d \in Slug : NewWork(s, d) =>
              \E i \in Minted(graph, d) : /\ Alone(s, New("named", i))
                                          /\ mishap' = mishap \cup Twin(i)
         /\ Finish(s) => sess[s] \in Id /\ Alone(s, New("finishing", sess[s]))
BY DEF Bootstrap, NewWork, Finish, Minting, New, Alone, TypeInv, TypeOK, Work

LEMMA ReadTable ==
  ASSUME TypeInv, NEW s \in Session
  PROVE  /\ BootstrapRead(s) => Alone(s, Copy(s, "entry"))
         /\ NewRead(s) => Alone(s, Copy(s, "bare"))
         /\ StatusRead(s) => Alone(s, Copy(s, "status"))
BY ReadIs DEF BootstrapRead, NewRead, StatusRead, Alone

LEMMA WriteTable ==
  ASSUME TypeInv, NEW s \in Session
  PROVE  /\ BootstrapOpen(s) => Rewrites(s, To(s, "entryOpen"))
         /\ NewOpen(s) => Rewrites(s, To(s, "bareOpen"))
         /\ StatusOpen(s) => Rewrites(s, To(s, "statusOpen"))
         /\ BootstrapWrite(s) => Rewrites(s, New("written", proc[s].work))
         /\ NewWrite(s) => Rewrites(s, Idle)
         /\ StatusWrite(s) => Rewrites(s, New("closed", proc[s].work))
<1>1. \A ph : [proc EXCEPT ![s].phase = ph] = [proc EXCEPT ![s] = To(s, ph)]
  BY GotoIs
<1> QED
  BY <1>1 DEF BootstrapOpen, NewOpen, StatusOpen, OpenToml, BootstrapWrite, NewWrite,
     StatusWrite, WriteToml, Rewrites, New

LEMMA OtherTable ==
  ASSUME TypeInv, NEW s \in Session
  PROVE  /\ BootstrapIndex(s) => Alone(s, To(s, "indexed"))
         /\ BootstrapActivate(s) \/ NewSkip(s) \/ FinishClear(s) \/ Kill(s) => Alone(s, Idle)
         /\ FinishVerify(s, TRUE) => Alone(s, To(s, "passed"))
         /\ FinishVerify(s, FALSE) => Alone(s, Idle)
         /\ BindOpen(s) => Rebinds(s, To(s, "bindOpen"))
         /\ BindWrite(s) => Rebinds(s, New("bound", proc[s].work))
<1>1. \A ph : [proc EXCEPT ![s].phase = ph] = [proc EXCEPT ![s] = To(s, ph)]
  BY GotoIs
<1> QED
  BY <1>1 DEF BootstrapIndex, Goto, BootstrapActivate, NewSkip, FinishClear, Kill,
     FinishVerify, BindOpen, BindWrite, Rebinds, Alone, New

(* The copy of the receipts that finish writes back.                       *)
Receipts(s, ph, R) ==
  [proc[s] EXCEPT !.phase = ph, !.log = R,
                  !.stale = \E q \in Session : proc[q].phase = "bindOpen"]

LEMMA ReceiptsType ==
  ASSUME TypeInv, NEW s \in Session, NEW ph \in Phase, NEW R \in SUBSET Receipt
  PROVE  /\ Receipts(s, ph, R) \in Process /\ Receipts(s, ph, R).work = proc[s].work
         /\ Receipts(s, ph, R).phase = ph
<1>1. proc[s] \in Process
  BY DEF TypeInv, TypeOK
<1> DEFINE b == \E q \in Session : proc[q].phase = "bindOpen"
<1>2. b \in BOOLEAN
  OBVIOUS
<1> HIDE DEF b
<1>3. Receipts(s, ph, R) = [proc[s] EXCEPT !.phase = ph, !.log = R, !.stale = b]
  BY DEF Receipts, b
<1>4. \A Q \in SUBSET Receipt, x \in BOOLEAN :
        [proc[s] EXCEPT !.phase = ph, !.log = Q, !.stale = x] \in Process
  BY <1>1, ProcessType
<1> QED
  BY <1>1, <1>2, <1>3, <1>4, FieldsOf

LEMMA ReceiptsIs ==
  ASSUME TypeInv, NEW s \in Session, NEW ph, NEW R
  PROVE  /\ Receipts(s, ph, R).phase = ph /\ Receipts(s, ph, R).log = R
         /\ Receipts(s, ph, R).work = proc[s].work
         /\ Receipts(s, ph, R).stale = \E q \in Session : proc[q].phase = "bindOpen"
<1>1. proc[s] \in Process
  BY DEF TypeInv, TypeOK
<1> DEFINE b == \E q \in Session : proc[q].phase = "bindOpen"
<1> HIDE DEF b
<1>2. Receipts(s, ph, R) = [proc[s] EXCEPT !.phase = ph, !.log = R, !.stale = b]
  BY DEF Receipts, b
<1>3. /\ Receipts(s, ph, R).phase = ph /\ Receipts(s, ph, R).log = R
      /\ Receipts(s, ph, R).work = proc[s].work /\ Receipts(s, ph, R).stale = b
  BY <1>1, <1>2, FieldsOf
<1> QED
  BY <1>3 DEF b

LEMMA ReceiptTable ==
  ASSUME TypeInv, NEW s \in Session
  PROVE  /\ BindRead(s) =>
              LET R == Rebind(log, proc[s].work) IN
                \/ R = log /\ Alone(s, Receipts(s, "bound", {}))
                \/ R # log /\ Alone(s, Receipts(s, "bind", R))
         /\ RecordReceipt(s) => Rebinds(s, proc[s])
<1>1. proc \in [Session -> Process]
  BY DEF TypeInv, TypeOK
<1>2. ASSUME BindRead(s)
      PROVE  LET R == Rebind(log, proc[s].work) IN
                \/ R = log /\ Alone(s, Receipts(s, "bound", {}))
                \/ R # log /\ Alone(s, Receipts(s, "bind", R))
  <2> DEFINE R == Rebind(log, proc[s].work)
             b == \E q \in Session : proc[q].phase = "bindOpen"
             ph == IF R = log THEN "bound" ELSE "bind"
             l == IF R = log THEN {} ELSE R
  <2>1. proc' = [proc EXCEPT ![s].phase = ph, ![s].log = l, ![s].stale = b]
    BY <1>2 DEF BindRead
  <2> HIDE DEF b, ph, l, R
  <2>2. proc' = [proc EXCEPT ![s] = [proc[s] EXCEPT !.phase = ph, !.log = l, !.stale = b]]
    BY <1>1, <2>1
  <2>3. Alone(s, Receipts(s, ph, l))
    BY <2>2 DEF Alone, Receipts, b
  <2>4. \/ R = log /\ ph = "bound" /\ l = {}
        \/ R # log /\ ph = "bind" /\ l = R
    BY DEF ph, l
  <2>5. \/ R = log /\ Alone(s, Receipts(s, "bound", {}))
        \/ R # log /\ Alone(s, Receipts(s, "bind", R))
    BY <2>3, <2>4
  <2> QED
    BY <2>5 DEF R
<1>3. [proc EXCEPT ![s] = proc[s]] = proc
  BY <1>1
<1> QED
  BY <1>2, <1>3 DEF RecordReceipt, Rebinds

(* A specification is written: whoever chose the same file is overtaken.   *)
LEMMA WriteSpecIs ==
  ASSUME TypeInv, NEW s \in Session, WriteSpec(s)
  PROVE  /\ proc' \in [Session -> Process]
         /\ Working'
         /\ proc'[s].phase = "specified"
         /\ \A q \in Session \ {s} :
              /\ Same(proc'[q], proc[q])
              /\ proc[q].phase = "minted" /\ proc[q].path = proc[s].path => proc'[q].stale
              /\ proc[q].phase # "minted" => proc'[q] = proc[q]
<1> DEFINE late(q) == [proc[q] EXCEPT !.stale = TRUE]
           own == [proc[s] EXCEPT !.phase = "specified", !.stale = FALSE]
<1>1. \A q \in Session : proc[q] \in Process
  BY DEF TypeInv, TypeOK
<1>2. own \in Process /\ own.phase = "specified" /\ own.work = proc[s].work
  <2>1. \A b \in BOOLEAN : [proc[s] EXCEPT !.phase = "specified", !.stale = b] \in Process
    BY <1>1, ProcessType, Phases
  <2> QED
    BY <1>1, <2>1, FieldsOf
<1>3. \A q \in Session : late(q) \in Process /\ late(q).stale = TRUE /\ Same(late(q), proc[q])
  BY <1>1 DEF Process, Same
<1>4. \A q \in Session : Same(proc[q], proc[q])
  BY DEF Same
<1>5. proc' = [q \in Session |->
                 IF q = s THEN own
                 ELSE IF proc[q].phase = "minted" /\ proc[q].path = proc[s].path
                      THEN late(q) ELSE proc[q]]
  BY DEF WriteSpec
<1>6. proc[s].work \in Id
  BY DEF WriteSpec, TypeInv, Working
<1> HIDE DEF own, late
<1>7. proc' \in [Session -> Process] /\ proc'[s] = own
  BY <1>1, <1>2, <1>3, <1>5
<1>8. \A q \in Session \ {s} :
        /\ Same(proc'[q], proc[q])
        /\ proc[q].phase = "minted" /\ proc[q].path = proc[s].path => proc'[q].stale
        /\ proc[q].phase # "minted" => proc'[q] = proc[q]
  BY <1>3, <1>4, <1>5
<1>9. Working'
  BY <1>2, <1>6, <1>7, <1>8 DEF TypeInv, Working, Same
<1> QED
  BY <1>2, <1>7, <1>8, <1>9

(* Which processes begin, and on what.                                     *)
LEMMA BootstrapIs ==
  ASSUME TypeInv, NEW s \in Session, NEW d \in Slug, Bootstrap(s, d)
  PROVE  \E c \in Process :
           /\ Alone(s, c) /\ c.phase = "minted" /\ c.stale = FALSE
           /\ c.work \in Id /\ c.work \notin graph.known /\ c.path = SpecPath(c.work)
           /\ mishap' = mishap \cup Twin(c.work)
<1>1. PICK i \in Minted(graph, d) : /\ Alone(s, Minting(i, SpecPath(i)))
                                   /\ mishap' = mishap \cup Twin(i)
  BY BeginTable
<1>2. i \in Id /\ i \notin graph.known /\ SpecPath(i) \in Path
  BY MintedType, SpecPathType
<1>3. \A j \in Id, p \in Path :
        /\ Minting(j, p) \in Process /\ Minting(j, p).work = j /\ Minting(j, p).path = p
        /\ Minting(j, p).phase = "minted" /\ Minting(j, p).stale = FALSE
  BY MintingIs
<1> QED
  BY <1>1, <1>2, <1>3

LEMMA NewWorkIs ==
  ASSUME TypeInv, NEW s \in Session, NEW d \in Slug, NewWork(s, d)
  PROVE  \E c \in Process :
           /\ Alone(s, c) /\ c.phase = "named"
           /\ c.work \in Id /\ c.work \notin graph.known
           /\ mishap' = mishap \cup Twin(c.work)
<1>1. PICK i \in Minted(graph, d) : /\ Alone(s, New("named", i))
                                   /\ mishap' = mishap \cup Twin(i)
  BY BeginTable
<1>2. i \in Id /\ i \notin graph.known /\ "named" \in Phase
  BY MintedType, Phases
<1> QED
  BY <1>1, <1>2, NewIs

LEMMA FinishIs ==
  ASSUME TypeInv, NEW s \in Session, Finish(s)
  PROVE  \E c \in Process : /\ Alone(s, c) /\ c.phase = "finishing"
                            /\ c.work \in Id /\ c.work = sess[s]
<1>1. sess[s] \in Id /\ Alone(s, New("finishing", sess[s]))
  BY BeginTable
<1>2. "finishing" \in Phase
  BY Phases
<1>3. \A i \in Id : /\ New("finishing", i) \in Process /\ New("finishing", i).work = i
                    /\ New("finishing", i).phase = "finishing"
  BY <1>2, NewIs
<1> QED
  BY <1>1, <1>3

(* How a process goes on, but for specifications and receipts.             *)
Edge(a, b) ==
  \/ a = "specified" /\ b = "entry"
  \/ a = "entry" /\ b = "entryOpen"
  \/ a = "entryOpen" /\ b = "written"
  \/ a = "written" /\ b = "indexed"
  \/ a = "named" /\ b = "bare"
  \/ a = "bare" /\ b = "bareOpen"
  \/ a = "finishing" /\ b = "passed"
  \/ a = "passed" /\ b = "status"
  \/ a = "status" /\ b = "statusOpen"
  \/ a = "statusOpen" /\ b = "closed"

Onward(s) ==
  \/ BootstrapRead(s) \/ NewRead(s) \/ StatusRead(s)
  \/ BootstrapOpen(s) \/ NewOpen(s) \/ StatusOpen(s)
  \/ BootstrapWrite(s) \/ NewWrite(s) \/ StatusWrite(s)
  \/ BootstrapIndex(s) \/ BootstrapActivate(s) \/ NewSkip(s)
  \/ FinishClear(s) \/ Kill(s)
  \/ \E pass \in BOOLEAN : FinishVerify(s, pass)

LEMMA OnwardIs ==
  ASSUME TypeInv, NEW s \in Session, Onward(s)
  PROVE  \E c \in Process :
           /\ Alone(s, c) \/ Rewrites(s, c)
           /\ proc[s].work \in Id
           /\ \/ c.phase = "idle"
              \/ Edge(proc[s].phase, c.phase) /\ c.work = proc[s].work
<1> DEFINE Goal == \E c \in Process :
                     /\ Alone(s, c) \/ Rewrites(s, c)
                     /\ proc[s].work \in Id
                     /\ \/ c.phase = "idle"
                        \/ Edge(proc[s].phase, c.phase) /\ c.work = proc[s].work
<1>1. proc[s].phase # "idle" /\ proc[s].work \in Id
  BY DEF Onward, BootstrapRead, NewRead, StatusRead, ReadToml, BootstrapOpen, NewOpen,
     StatusOpen, OpenToml, BootstrapWrite, NewWrite, StatusWrite, BootstrapIndex,
     BootstrapActivate, NewSkip, FinishClear, Kill, FinishVerify, TypeInv, Working
<1>2. ASSUME Alone(s, Idle) \/ Rewrites(s, Idle) PROVE Goal
  <2>1. Idle.phase = "idle"
    BY DEF Idle
  <2> QED
    BY <1>1, <1>2, <2>1, IdleType
<1>3. ASSUME NEW ph \in Phase, Edge(proc[s].phase, ph),
             \/ Alone(s, To(s, ph)) \/ Rewrites(s, To(s, ph)) \/ Alone(s, Copy(s, ph))
             \/ Rewrites(s, New(ph, proc[s].work))
      PROVE  Goal
  <2>1. /\ To(s, ph) \in Process /\ To(s, ph).work = proc[s].work /\ To(s, ph).phase = ph
    BY ToIs
  <2>2. /\ Copy(s, ph) \in Process /\ Copy(s, ph).work = proc[s].work
        /\ Copy(s, ph).phase = ph
    BY CopyIs
  <2>3. \A i \in Id : New(ph, i) \in Process /\ New(ph, i).work = i /\ New(ph, i).phase = ph
    BY NewIs
  <2> QED
    BY <1>1, <1>3, <2>1, <2>2, <2>3
<1> HIDE DEF Goal
<1>4. \A ph \in {"entry", "entryOpen", "written", "indexed", "bare", "bareOpen", "passed",
               "status", "statusOpen", "closed"} : ph \in Phase
  BY Phases
<1>5. ASSUME BootstrapRead(s) PROVE Goal
  <2>1. Edge(proc[s].phase, "entry")
    BY <1>5 DEF BootstrapRead, ReadToml, Edge
  <2>2. Alone(s, Copy(s, "entry"))
    BY <1>5, ReadTable
  <2> QED
    BY <1>3, <1>4, <2>1, <2>2
<1>6. ASSUME NewRead(s) PROVE Goal
  <2>1. Edge(proc[s].phase, "bare")
    BY <1>6 DEF NewRead, ReadToml, Edge
  <2>2. Alone(s, Copy(s, "bare"))
    BY <1>6, ReadTable
  <2> QED
    BY <1>3, <1>4, <2>1, <2>2
<1>7. ASSUME StatusRead(s) PROVE Goal
  <2>1. Edge(proc[s].phase, "status")
    BY <1>7 DEF StatusRead, ReadToml, Edge
  <2>2. Alone(s, Copy(s, "status"))
    BY <1>7, ReadTable
  <2> QED
    BY <1>3, <1>4, <2>1, <2>2
<1>8. ASSUME BootstrapOpen(s) PROVE Goal
  <2>1. Edge(proc[s].phase, "entryOpen")
    BY <1>8 DEF BootstrapOpen, OpenToml, Edge
  <2>2. Rewrites(s, To(s, "entryOpen"))
    BY <1>8, WriteTable
  <2> QED
    BY <1>3, <1>4, <2>1, <2>2
<1>9. ASSUME NewOpen(s) PROVE Goal
  <2>1. Edge(proc[s].phase, "bareOpen")
    BY <1>9 DEF NewOpen, OpenToml, Edge
  <2>2. Rewrites(s, To(s, "bareOpen"))
    BY <1>9, WriteTable
  <2> QED
    BY <1>3, <1>4, <2>1, <2>2
<1>10. ASSUME StatusOpen(s) PROVE Goal
  <2>1. Edge(proc[s].phase, "statusOpen")
    BY <1>10 DEF StatusOpen, OpenToml, Edge
  <2>2. Rewrites(s, To(s, "statusOpen"))
    BY <1>10, WriteTable
  <2> QED
    BY <1>3, <1>4, <2>1, <2>2
<1>11. ASSUME BootstrapWrite(s) PROVE Goal
  <2>1. Edge(proc[s].phase, "written")
    BY <1>11 DEF BootstrapWrite, Edge
  <2>2. Rewrites(s, New("written", proc[s].work))
    BY <1>11, WriteTable
  <2> QED
    BY <1>3, <1>4, <2>1, <2>2
<1>12. ASSUME StatusWrite(s) PROVE Goal
  <2>1. Edge(proc[s].phase, "closed")
    BY <1>12 DEF StatusWrite, Edge
  <2>2. Rewrites(s, New("closed", proc[s].work))
    BY <1>12, WriteTable
  <2> QED
    BY <1>3, <1>4, <2>1, <2>2
<1>13. ASSUME BootstrapIndex(s) PROVE Goal
  <2>1. Edge(proc[s].phase, "indexed")
    BY <1>13 DEF BootstrapIndex, Edge
  <2>2. Alone(s, To(s, "indexed"))
    BY <1>13, OtherTable
  <2> QED
    BY <1>3, <1>4, <2>1, <2>2
<1>14. ASSUME FinishVerify(s, TRUE) PROVE Goal
  <2>1. Edge(proc[s].phase, "passed")
    BY <1>14 DEF FinishVerify, Edge
  <2>2. Alone(s, To(s, "passed"))
    BY <1>14, OtherTable
  <2> QED
    BY <1>3, <1>4, <2>1, <2>2
<1>15. ASSUME NewWrite(s) PROVE Goal
  BY <1>2, <1>15, WriteTable
<1>16. ASSUME BootstrapActivate(s) \/ NewSkip(s) \/ FinishClear(s) \/ Kill(s) PROVE Goal
  BY <1>2, <1>16, OtherTable
<1>17. ASSUME FinishVerify(s, FALSE) PROVE Goal
  BY <1>2, <1>17, OtherTable
<1>18. Goal
  BY <1>5, <1>6, <1>7, <1>8, <1>9, <1>10, <1>11, <1>12, <1>13,
      <1>14, <1>15, <1>16, <1>17 DEF Onward
<1> QED
  BY <1>18 DEF Goal

-----------------------------------------------------------------------------
(* Type correctness.                                                       *)

LEMMA ProcessNext ==
  ASSUME TypeInv, [Next]_vars
  PROVE  proc' \in [Session -> Process] /\ Working'
<1> DEFINE Fine == proc' \in [Session -> Process] /\ Working'
<1>1. ASSUME NEW s \in Session, NEW c \in Process, c.phase # "idle" => c.work \in Id,
             Alone(s, c) \/ Rewrites(s, c) \/ Rebinds(s, c)
      PROVE  Fine
  BY <1>1, OneProcess
<1>2. ASSUME UNCHANGED proc PROVE Fine
  BY <1>2 DEF TypeInv, TypeOK, Working
<1> HIDE DEF Fine
<1>3. ASSUME NEW s \in Session, NEW ph \in Phase, proc[s].phase # "idle",
             \/ Alone(s, To(s, ph)) \/ Rewrites(s, To(s, ph)) \/ Rebinds(s, To(s, ph))
             \/ Alone(s, Copy(s, ph))
             \/ Rewrites(s, New(ph, proc[s].work)) \/ Rebinds(s, New(ph, proc[s].work))
      PROVE  Fine
  <2>1. proc[s].work \in Id
    BY <1>3 DEF TypeInv, Working
  <2>2. /\ To(s, ph) \in Process /\ To(s, ph).work \in Id
        /\ Copy(s, ph) \in Process /\ Copy(s, ph).work \in Id
        /\ New(ph, proc[s].work) \in Process /\ New(ph, proc[s].work).work \in Id
    <3>1. To(s, ph) \in Process /\ To(s, ph).work = proc[s].work
      BY ToIs
    <3>2. Copy(s, ph) \in Process /\ Copy(s, ph).work = proc[s].work
      BY CopyIs
    <3>3. \A i \in Id : New(ph, i) \in Process /\ New(ph, i).work = i
      BY NewIs
    <3> QED
      BY <2>1, <3>1, <3>2, <3>3
  <2> QED
    BY <1>1, <1>3, <2>2
<1>4. ASSUME NEW s \in Session, Alone(s, Idle) \/ Rewrites(s, Idle) PROVE Fine
  <2>1. Idle.phase = "idle"
    BY DEF Idle
  <2> QED
    BY <1>1, <1>4, <2>1, IdleType
<1>5. ASSUME NEW s \in Session, NEW d \in Slug, Bootstrap(s, d) PROVE Fine
  <2>1. PICK i \in Minted(graph, d) : Alone(s, Minting(i, SpecPath(i)))
    BY <1>5, BeginTable
  <2>2. i \in Id /\ SpecPath(i) \in Path
    BY MintedType, SpecPathType
  <2> QED
    BY <1>1, <2>1, <2>2, MintingIs
<1>6. ASSUME NEW s \in Session, NEW d \in Slug, NewWork(s, d) PROVE Fine
  <2>1. PICK i \in Minted(graph, d) : Alone(s, New("named", i))
    BY <1>6, BeginTable
  <2>2. i \in Id /\ "named" \in Phase
    BY MintedType, Phases
  <2>3. New("named", i) \in Process /\ New("named", i).work \in Id
    BY <2>2, NewIs
  <2> QED
    BY <1>1, <2>1, <2>3
<1>7. ASSUME NEW s \in Session, Finish(s) PROVE Fine
  <2>1. sess[s] \in Id /\ Alone(s, New("finishing", sess[s]))
    BY <1>7, BeginTable
  <2>2. New("finishing", sess[s]) \in Process /\ New("finishing", sess[s]).work \in Id
    <3>1. "finishing" \in Phase
      BY Phases
    <3>2. \A i \in Id : New("finishing", i) \in Process /\ New("finishing", i).work = i
      BY <3>1, NewIs
    <3> QED
      BY <2>1, <3>2
  <2> QED
    BY <1>1, <2>1, <2>2
<1>8. ASSUME NEW s \in Session, BootstrapRead(s) \/ NewRead(s) \/ StatusRead(s) PROVE Fine
  <2>1. proc[s].phase # "idle"
    BY <1>8 DEF BootstrapRead, NewRead, StatusRead, ReadToml
  <2> QED
    BY <1>3, <1>8, <2>1, ReadTable, Phases
<1>9. ASSUME NEW s \in Session,
             \/ BootstrapOpen(s) \/ NewOpen(s) \/ StatusOpen(s)
             \/ BootstrapWrite(s) \/ NewWrite(s) \/ StatusWrite(s)
      PROVE  Fine
  <2>1. proc[s].phase # "idle"
    BY <1>9 DEF BootstrapOpen, NewOpen, StatusOpen, OpenToml, BootstrapWrite, NewWrite, StatusWrite
  <2>2. CASE NewWrite(s)
    BY <1>4, <2>2, WriteTable
  <2> QED
    BY <1>3, <1>9, <2>1, <2>2, WriteTable, Phases
<1>10. ASSUME NEW s \in Session,
              \/ BootstrapIndex(s) \/ BootstrapActivate(s) \/ NewSkip(s)
              \/ FinishClear(s) \/ Kill(s) \/ BindOpen(s) \/ BindWrite(s)
              \/ \E pass \in BOOLEAN : FinishVerify(s, pass)
       PROVE  Fine
  <2>1. proc[s].phase # "idle"
    BY <1>10 DEF BootstrapIndex, BootstrapActivate, NewSkip, FinishClear, Kill,
       BindOpen, BindWrite, FinishVerify
  <2>2. CASE \/ BootstrapActivate(s) \/ NewSkip(s) \/ FinishClear(s) \/ Kill(s)
            \/ FinishVerify(s, FALSE)
    BY <1>4, <2>2, OtherTable
  <2>3. CASE BootstrapIndex(s) \/ BindOpen(s) \/ BindWrite(s) \/ FinishVerify(s, TRUE)
    BY <1>3, <2>1, <2>3, OtherTable, Phases
  <2> QED
    BY <1>10, <2>2, <2>3
<1>11. ASSUME NEW s \in Session, BindRead(s) PROVE Fine
  <2> DEFINE R == Rebind(log, proc[s].work)
  <2>1. R \in SUBSET Receipt /\ {} \in SUBSET Receipt
    BY RebindType DEF TypeInv, TypeOK
  <2>2. proc[s].work \in Id
    BY <1>11 DEF BindRead, TypeInv, Working
  <2>3. Alone(s, Receipts(s, "bound", {})) \/ Alone(s, Receipts(s, "bind", R))
    BY <1>11, ReceiptTable
  <2> HIDE DEF R
  <2>4. \A ph \in {"bound", "bind"}, Q \in SUBSET Receipt :
          Receipts(s, ph, Q) \in Process /\ Receipts(s, ph, Q).work = proc[s].work
    <3>1. "bound" \in Phase /\ "bind" \in Phase
      BY Phases
    <3>2. \A ph \in Phase, Q \in SUBSET Receipt :
            Receipts(s, ph, Q) \in Process /\ Receipts(s, ph, Q).work = proc[s].work
      BY ReceiptsType
    <3> QED
      BY <3>1, <3>2
  <2> QED
    BY <1>1, <2>1, <2>2, <2>3, <2>4
<1>12. ASSUME NEW s \in Session, RecordReceipt(s) PROVE Fine
  <2>1. proc[s] \in Process /\ proc[s].phase = "idle"
    BY <1>12 DEF RecordReceipt, TypeInv, TypeOK
  <2> QED
    BY <1>1, <1>12, <2>1, ReceiptTable
<1>13. ASSUME NEW s \in Session, WriteSpec(s) PROVE Fine
  BY <1>13, WriteSpecIs DEF Fine
<1>14. ASSUME NEW s \in Session, Index(s) \/ \E i \in Id : Activate(s, i) \/ Resume(s, i)
       PROVE  Fine
  BY <1>2, <1>14 DEF Index, Activate, Resume
<1>15. Fine
  BY <1>2, <1>5, <1>6, <1>7, <1>8, <1>9, <1>10, <1>11, <1>12, <1>13, <1>14
     DEF Next, Commit, vars
<1> QED
  BY <1>15 DEF Fine

LEMMA TypeNext == TypeInv /\ [Next]_vars => TypeInv'
<1> SUFFICES ASSUME TypeInv, [Next]_vars PROVE TypeInv'
  OBVIOUS
<1> USE DEF git, counts, history
<1>0. proc' \in [Session -> Process] /\ Working'
  BY ProcessNext
<1>1. TypeOK /\ Working
  BY DEF TypeInv
<1>2. \A s \in Session : /\ proc[s].toml \in Toml /\ proc[s].log \in SUBSET Receipt
                         /\ proc[s].path \in Path /\ proc[s].phase \in Phase
                         /\ proc[s].phase # "idle" => proc[s].work \in Id
  BY <1>1 DEF TypeOK, Process, Working
<1>3. Id \subseteq Work
  BY DEF Work
<1>4. FullIndex(graph) \in Graph /\ Refreshed(graph) \in Graph
  BY <1>1, RefreshedType
<1>5. \A s \in Session : (mishap \cup Overtaken(s)) \in SUBSET Mishap
  BY <1>1, MishapType DEF TypeOK
<1>6. \A i : (mishap \cup Twin(i)) \in SUBSET Mishap
  BY <1>1, MishapType DEF TypeOK
<1>7. (mishap \cup Glimpsed) \in SUBSET Mishap
  BY <1>1, MishapType DEF TypeOK
<1>8. begun < MaxBegun => begun + 1 \in 0 .. MaxBegun
  BY <1>1, WorkFilesAssumption DEF TypeOK
<1>9. {"work.toml", "code", "specs"} = File
  BY DEF File
<1>10. ASSUME NEW s \in Session, NEW d \in Slug, Bootstrap(s, d) \/ NewWork(s, d)
       PROVE  TypeOK'
  <2>1. mishap' \in SUBSET Mishap
    BY <1>6, <1>10, BeginTable DEF TypeInv
  <2> QED
    BY <1>0, <1>1, <1>8, <1>10, <2>1 DEF Bootstrap, NewWork, TypeOK
<1>11. ASSUME NEW s \in Session, WriteSpec(s) PROVE TypeOK'
  <2>1. proc[s].work \in Id /\ proc[s].path \in Path
    BY <1>2, <1>11 DEF WriteSpec
  <2>2. spec' \in [Path -> Work]
    BY <1>1, <1>3, <1>11, <2>1 DEF WriteSpec, TypeOK
  <2>3. dirty' \in SUBSET File /\ covered' \in SUBSET Id
    BY <1>1, <1>9, <1>11, <2>1 DEF WriteSpec, TypeOK
  <2> QED
    BY <1>0, <1>1, <1>5, <1>11, <2>2, <2>3 DEF WriteSpec, TypeOK
<1>12. ASSUME NEW s \in Session, BootstrapRead(s) \/ NewRead(s) \/ StatusRead(s)
       PROVE  TypeOK'
  BY <1>0, <1>1, <1>12 DEF BootstrapRead, NewRead, StatusRead, ReadToml, TypeOK
<1>13. ASSUME NEW s \in Session, BootstrapOpen(s) \/ NewOpen(s) \/ StatusOpen(s)
       PROVE  TypeOK'
  <2>1. dirty' \in SUBSET File /\ toml' = Empty /\ mishap' \in SUBSET Mishap
    BY <1>1, <1>5, <1>9, <1>13 DEF BootstrapOpen, NewOpen, StatusOpen, OpenToml, TypeOK
  <2> QED
    BY <1>0, <1>1, <1>13, <2>1, EmptyType
       DEF BootstrapOpen, NewOpen, StatusOpen, OpenToml, TypeOK
<1>14. ASSUME NEW s \in Session, BootstrapWrite(s) \/ NewWrite(s) \/ StatusWrite(s)
       PROVE  TypeOK'
  <2>1. proc[s].work \in Id
    BY <1>2, <1>14 DEF BootstrapWrite, NewWrite, StatusWrite
  <2>2. \A st \in {"active", "none"} : Appended(proc[s].toml, proc[s].work, st) \in Toml
    BY <1>2, <2>1, TomlOps DEF Status
  <2>3. Closed(proc[s].toml, proc[s].work) \in Toml
    BY <1>2, <2>1, TomlOps
  <2>4. toml' \in Toml
    BY <1>14, <2>2, <2>3 DEF BootstrapWrite, NewWrite, StatusWrite, WriteToml
  <2>5. mishap' \in SUBSET Mishap
    <3>1. "loose" \in Mishap
      BY DEF Mishap
    <3> QED
      BY <1>5, <1>14, <3>1 DEF BootstrapWrite, NewWrite, StatusWrite, WriteToml
  <2>6. added' \in SUBSET Id
    BY <1>1, <1>14, <2>1 DEF BootstrapWrite, NewWrite, StatusWrite, WriteToml, TypeOK
  <2> QED
    BY <1>0, <1>1, <1>14, <2>4, <2>5, <2>6
       DEF BootstrapWrite, NewWrite, StatusWrite, WriteToml, TypeOK
<1>15. ASSUME NEW s \in Session,
              BootstrapIndex(s) \/ Index(s) \/ \E pass \in BOOLEAN : FinishVerify(s, pass)
       PROVE  TypeOK'
  <2>1. graph' \in Graph /\ mishap' \in SUBSET Mishap
    BY <1>4, <1>7, <1>15 DEF BootstrapIndex, Index, FinishVerify
  <2> QED
    BY <1>0, <1>1, <1>15, <2>1 DEF BootstrapIndex, Index, FinishVerify, TypeOK
<1>16. ASSUME NEW s \in Session,
              \/ BootstrapActivate(s) \/ FinishClear(s)
              \/ \E i \in Id : Activate(s, i) \/ Resume(s, i)
       PROVE  TypeOK'
  <2>1. sess' \in [Session -> Work]
    <3>1. \A i \in Work : [sess EXCEPT ![s] = i] \in [Session -> Work]
      BY <1>1 DEF TypeOK
    <3>2. proc[s].phase # "idle" => proc[s].work \in Work
      BY <1>2, <1>3
    <3>3. NoWork \in Work
      BY DEF Work
    <3> QED
      BY <1>3, <1>16, <3>1, <3>2, <3>3
         DEF BootstrapActivate, FinishClear, Activate, Resume
  <2>2. finished' \in SUBSET Id
    BY <1>1, <1>2, <1>16 DEF BootstrapActivate, FinishClear, Activate, Resume, TypeOK
  <2> QED
    BY <1>0, <1>1, <1>16, <2>1, <2>2
       DEF BootstrapActivate, FinishClear, Activate, Resume, TypeOK
<1>17. ASSUME NEW s \in Session, RecordReceipt(s) PROVE TypeOK'
  <2>1. sess[s] \in Id
    BY <1>1, <1>17 DEF RecordReceipt, TypeOK, Work
  <2>2. written + 1 \in 1 .. MaxReceipts /\ written' \in 0 .. MaxReceipts
    BY <1>1, <1>17, WorkFilesAssumption DEF RecordReceipt, TypeOK
  <2>3. [n |-> written + 1, work |-> sess[s], commit |-> head] \in Receipt
    BY <1>1, <2>1, <2>2 DEF Receipt, TypeOK
  <2>4. log' \in SUBSET Receipt /\ dirty' \in SUBSET File
    BY <1>1, <1>9, <1>17, <2>3 DEF RecordReceipt, TypeOK
  <2> QED
    BY <1>0, <1>1, <1>17, <2>2, <2>4 DEF RecordReceipt, TypeOK
<1>18. ASSUME NEW s \in Session, BindRead(s) \/ BindOpen(s) \/ BindWrite(s) PROVE TypeOK'
  <2>1. log' \in SUBSET Receipt
    BY <1>1, <1>2, <1>18 DEF BindRead, BindOpen, BindWrite, TypeOK
  <2> QED
    BY <1>0, <1>1, <1>5, <1>18, <2>1 DEF BindRead, BindOpen, BindWrite, TypeOK
<1>19. ASSUME NEW s \in Session, NewSkip(s) \/ Finish(s) PROVE TypeOK'
  BY <1>0, <1>1, <1>19 DEF NewSkip, Finish, TypeOK
<1>20. ASSUME NEW s \in Session, Kill(s) PROVE TypeOK'
  <2>1. mishap' \in SUBSET Mishap
    BY <1>1, <1>20 DEF Kill, TypeOK, Mishap
  <2> QED
    BY <1>0, <1>1, <1>20, <2>1 DEF Kill, TypeOK
<1>21. ASSUME Commit PROVE TypeOK'
  <2>1. head' \in 0 .. MaxCommits
    BY <1>1, <1>21, WorkFilesAssumption DEF Commit, TypeOK
  <2> QED
    BY <1>0, <1>1, <1>21, <2>1 DEF Commit, TypeOK
<1>22. ASSUME UNCHANGED vars PROVE TypeOK'
  BY <1>1, <1>22 DEF vars, TypeOK
<1>23. TypeOK'
  <2>1. ASSUME Next PROVE TypeOK'
    BY <2>1, <1>10, <1>11, <1>12, <1>13, <1>14, <1>15, <1>16, <1>17, <1>18, <1>19,
       <1>20, <1>21, Zenon DEF Next
  <2> QED
    BY <1>22, <2>1
<1> QED
  BY <1>0, <1>23 DEF TypeInv

LEMMA TypeAlways == Spec => []TypeInv
<1>1. Init => TypeInv
  BY TypeInit DEF TypeInv, Working, Init, Idle
<1> QED
  BY <1>1, TypeNext, PTL DEF Spec

(* Files, store, sessions and processes keep their types, whoever overlaps *)
(* or dies: a process works on a work item and on well-formed copies.      *)
THEOREM TypeCorrect == Spec => []TypeOK
<1>1. TypeInv => TypeOK
  BY DEF TypeInv
<1> QED
  BY <1>1, TypeAlways, PTL

-----------------------------------------------------------------------------
(* What a step does to work.toml and its copies.                           *)

(* Work items that have been set to done.                                  *)
After == {"closed", "bind", "bindOpen", "bound"}
Over == finished \cup {proc[s].work : s \in {q \in Session : proc[q].phase \in After}}

Quiet ==
  /\ toml' = toml /\ added' = added /\ mishap \subseteq mishap'
  /\ Over' \subseteq Over
  /\ \A q \in Session :
       /\ proc'[q].phase \in Held => proc'[q] = proc[q]
       /\ OpenBy(q) /\ "torn" \notin mishap' => proc'[q] = proc[q]

TookCopy(s) ==
  /\ toml' = toml /\ added' = added /\ mishap' = mishap
  /\ Over' \subseteq Over
  /\ proc[s].phase \in {"specified", "named", "passed"}
  /\ proc'[s].phase \in Held \ OpenPhase
  /\ proc'[s].toml = toml /\ proc'[s].work = proc[s].work
  /\ proc'[s].stale = \E q \in Session : OpenBy(q)
  /\ \A q \in Session \ {s} : proc'[q] = proc[q]

Outdates(s) ==
  \A q \in Session \ {s} :
    /\ Same(proc'[q], proc[q])
    /\ proc[q].phase \in Held => proc'[q].stale = TRUE

Opened(s) ==
  /\ toml' = Empty /\ added' = added /\ mishap' = mishap \cup Overtaken(s)
  /\ Over' \subseteq Over
  /\ proc[s].phase \in Held \ OpenPhase /\ proc'[s].phase \in OpenPhase
  /\ proc'[s].toml = proc[s].toml /\ proc'[s].stale = proc[s].stale
  /\ Outdates(s)

Wrote(s) ==
  /\ OpenBy(s)
  /\ mishap \cup Overtaken(s) \subseteq mishap'
  /\ added' = added \cup {proc[s].work}
  /\ proc'[s].phase \notin Held
  /\ \/ /\ \E st \in {"active", "none"} : toml' = Appended(proc[s].toml, proc[s].work, st)
        /\ Over' \subseteq Over
     \/ /\ toml' = Closed(proc[s].toml, proc[s].work)
        /\ Over' \subseteq Over \cup {proc[s].work}
  /\ Outdates(s)

LEMMA PhaseSets ==
  /\ Held = {"entry", "entryOpen", "bare", "bareOpen", "status", "statusOpen"}
  /\ OpenPhase = {"entryOpen", "bareOpen", "statusOpen"}
  /\ After \cap Held = {} /\ Binding \subseteq After
BY DEF Held, OpenPhase, After, Binding

LEMMA OverKeeps ==
  ASSUME NEW s \in Session, finished' \in {finished, finished \cup ({proc[s].work} \cap Over)},
         \A q \in Session \ {s} : Same(proc'[q], proc[q]),
         proc'[s].phase \in After => proc[s].phase \in After /\ proc'[s].work = proc[s].work
  PROVE  Over' \subseteq Over
<1> SUFFICES ASSUME NEW i \in Over' PROVE i \in Over
  OBVIOUS
<1>1. CASE i \in finished'
  BY <1>1 DEF Over
<1>2. ASSUME NEW q \in Session, proc'[q].phase \in After, i = proc'[q].work
      PROVE  proc[q].phase \in After /\ i = proc[q].work
  BY <1>2 DEF Same
<1> QED
  BY <1>1, <1>2 DEF Over

LEMMA StepKinds ==
  ASSUME TypeInv, [Next]_vars
  PROVE  Quiet \/ \E s \in Session : TookCopy(s) \/ Opened(s) \/ Wrote(s)
<1> DEFINE Fine == Quiet \/ \E s \in Session : TookCopy(s) \/ Opened(s) \/ Wrote(s)
<1> USE DEF git, counts, history
<1>1. ASSUME NEW s \in Session, NEW c \in Process, c.phase # "idle" => c.work \in Id,
             Alone(s, c) \/ Rebinds(s, c),
             c.phase \notin Held, c.phase \in After => proc[s].phase \in After /\ c.work = proc[s].work,
             toml' = toml, added' = added, mishap \subseteq mishap',
             finished' \in {finished, finished \cup ({proc[s].work} \cap Over)},
             OpenBy(s) => "torn" \in mishap'
      PROVE  Quiet
  <2>1. /\ proc'[s] = c
        /\ \A q \in Session \ {s} :
             /\ Same(proc'[q], proc[q])
             /\ proc[q].phase \in Held => proc'[q] = proc[q]
    BY <1>1, OneProcess, PhaseSets
  <2>2. Over' \subseteq Over
    BY <1>1, <2>1, OverKeeps
  <2>3. \A q \in Session \ {s} : proc'[q].phase \in Held => proc'[q] = proc[q]
    BY <2>1 DEF Same
  <2>4. \A q \in Session : OpenBy(q) => proc[q].phase \in Held
    BY PhaseSets DEF OpenBy
  <2> QED
    BY <1>1, <2>1, <2>2, <2>3, <2>4 DEF Quiet
<1>2. ASSUME UNCHANGED <<proc, toml, added, finished>>, mishap \subseteq mishap' PROVE Quiet
  BY <1>2 DEF Quiet, Over
<1> HIDE DEF Fine
<1>3. \A s \in Session : OpenBy(s) => proc[s].phase \in Held
  BY PhaseSets DEF OpenBy
<1>4. ASSUME NEW s \in Session,
             \/ \E c \in Slug : Bootstrap(s, c) \/ NewWork(s, c)
             \/ Finish(s)
      PROVE  Quiet
  <2>1. /\ toml' = toml /\ added' = added /\ mishap \subseteq mishap' /\ finished' = finished
        /\ proc[s].phase = "idle"
    BY <1>4 DEF Bootstrap, NewWork, Finish
  <2>2. PICK c \in Process : /\ Alone(s, c) /\ c.work \in Id
                             /\ c.phase \in {"minted", "named", "finishing"}
    BY <1>4, BootstrapIs, NewWorkIs, FinishIs
  <2>3. c.phase \notin Held /\ c.phase \notin After /\ ~OpenBy(s)
    BY <2>1, <2>2 DEF Held, After, OpenBy, OpenPhase
  <2> QED
    BY <1>1, <2>1, <2>2, <2>3
<1>5. ASSUME NEW s \in Session, WriteSpec(s) PROVE Quiet
  <2>1. /\ proc'[s].phase = "specified" /\ proc[s].phase = "minted"
        /\ toml' = toml /\ added' = added /\ mishap \subseteq mishap' /\ finished' = finished
    BY <1>5, WriteSpecIs DEF WriteSpec
  <2>2. \A q \in Session \ {s} : /\ Same(proc'[q], proc[q])
                                 /\ proc[q].phase # "minted" => proc'[q] = proc[q]
    BY <1>5, WriteSpecIs
  <2>3. Over' \subseteq Over
    BY <2>1, <2>2, OverKeeps DEF After
  <2>4. "minted" \notin Held /\ "specified" \notin Held
    BY DEF Held
  <2>5. \A q \in Session : /\ proc'[q].phase \in Held => proc'[q] = proc[q]
                           /\ OpenBy(q) => proc'[q] = proc[q]
    BY <1>3, <2>1, <2>2, <2>4 DEF Same
  <2> QED
    BY <2>1, <2>3, <2>5 DEF Quiet
<1>6. ASSUME NEW s \in Session, BootstrapRead(s) \/ NewRead(s) \/ StatusRead(s)
      PROVE  TookCopy(s)
  <2>1. PICK ph \in {"entry", "bare", "status"} : Alone(s, Copy(s, ph))
    BY <1>6, ReadTable
  <2>2. /\ toml' = toml /\ added' = added /\ mishap' = mishap /\ finished' = finished
        /\ proc[s].phase \in {"specified", "named", "passed"}
    BY <1>6 DEF BootstrapRead, NewRead, StatusRead, ReadToml
  <2>3. ph \in Phase /\ ph \in Held \ OpenPhase /\ ph \notin After
    BY Phases DEF Held, OpenPhase, After
  <2>4. /\ Copy(s, ph) \in Process
        /\ Copy(s, ph).phase = ph /\ Copy(s, ph).work = proc[s].work
        /\ Copy(s, ph).toml = toml /\ Copy(s, ph).stale = \E q \in Session : OpenBy(q)
    BY <2>3, CopyIs
  <2>5. proc[s].work \in Id
    BY <2>2 DEF TypeInv, Working
  <2>6. /\ proc'[s] = Copy(s, ph)
        /\ \A q \in Session \ {s} : proc'[q] = proc[q] /\ Same(proc'[q], proc[q])
    BY <2>1, <2>4, <2>5, OneProcess
  <2>7. Over' \subseteq Over
    BY <2>2, <2>3, <2>4, <2>6, OverKeeps
  <2> QED
    BY <2>2, <2>3, <2>4, <2>6, <2>7 DEF TookCopy
<1>7. ASSUME NEW s \in Session, NEW c \in Process, c.phase # "idle" => c.work \in Id,
             Rewrites(s, c)
      PROVE  proc'[s] = c /\ Outdates(s)
  BY <1>7, OneProcess DEF Outdates
<1>8. ASSUME NEW s \in Session, BootstrapOpen(s) \/ NewOpen(s) \/ StatusOpen(s)
      PROVE  Opened(s)
  <2>1. PICK ph \in OpenPhase : Rewrites(s, To(s, ph))
    BY <1>8, WriteTable DEF OpenPhase
  <2>2. /\ toml' = Empty /\ added' = added /\ mishap' = mishap \cup Overtaken(s)
        /\ finished' = finished /\ proc[s].phase \in {"entry", "bare", "status"}
    BY <1>8 DEF BootstrapOpen, NewOpen, StatusOpen, OpenToml
  <2>3. ph \in Phase /\ ph \notin After /\ proc[s].work \in Id
    BY <2>2, Phases DEF OpenPhase, After, TypeInv, Working
  <2>4. /\ To(s, ph) \in Process /\ To(s, ph).phase = ph /\ To(s, ph).work = proc[s].work
        /\ To(s, ph).toml = proc[s].toml /\ To(s, ph).stale = proc[s].stale
    BY <2>3, ToIs
  <2>5. proc'[s] = To(s, ph) /\ Outdates(s)
    BY <1>7, <2>1, <2>3, <2>4
  <2>6. Over' \subseteq Over
    BY <2>2, <2>3, <2>4, <2>5, OverKeeps DEF Outdates
  <2>7. proc[s].phase \in Held \ OpenPhase
    BY <2>2 DEF Held, OpenPhase
  <2> QED
    BY <2>2, <2>4, <2>5, <2>6, <2>7 DEF Opened
<1>9. ASSUME NEW s \in Session, BootstrapWrite(s) \/ NewWrite(s) PROVE Wrote(s)
  <2>1. /\ proc[s].phase \in {"entryOpen", "bareOpen"}
        /\ mishap \cup Overtaken(s) \subseteq mishap'
        /\ added' = added \cup {proc[s].work} /\ finished' = finished
        /\ \E st \in {"active", "none"} : toml' = Appended(proc[s].toml, proc[s].work, st)
    BY <1>9 DEF BootstrapWrite, NewWrite, WriteToml
  <2>2. proc[s].work \in Id /\ OpenBy(s)
    BY <2>1 DEF TypeInv, Working, OpenBy, OpenPhase
  <2>3. PICK c \in Process : /\ Rewrites(s, c)
                             /\ c.phase # "idle" => c.work \in Id
                             /\ c.phase \in {"written", "idle"}
    <3>1. CASE BootstrapWrite(s)
      <4>1. "written" \in Phase
        BY Phases
      <4>2. New("written", proc[s].work) \in Process /\ New("written", proc[s].work).work \in Id
            /\ New("written", proc[s].work).phase = "written"
        BY <2>2, <4>1, NewIs
      <4> QED
        BY <3>1, <4>2, WriteTable
    <3>2. CASE NewWrite(s)
      <4>1. Idle.phase = "idle"
        BY DEF Idle
      <4> QED
        BY <3>2, <4>1, IdleType, WriteTable
    <3> QED
      BY <1>9, <3>1, <3>2
  <2>4. proc'[s] = c /\ Outdates(s)
    BY <1>7, <2>3
  <2>5. c.phase \notin Held /\ c.phase \notin After
    BY <2>3 DEF Held, After
  <2>6. Over' \subseteq Over
    BY <2>1, <2>4, <2>5, OverKeeps DEF Outdates
  <2> QED
    BY <2>1, <2>2, <2>4, <2>5, <2>6 DEF Wrote
<1>10. ASSUME NEW s \in Session, StatusWrite(s) PROVE Wrote(s)
  <2>1. /\ proc[s].phase = "statusOpen"
        /\ mishap \cup Overtaken(s) \subseteq mishap'
        /\ added' = added \cup {proc[s].work} /\ finished' = finished
        /\ toml' = Closed(proc[s].toml, proc[s].work)
    BY <1>10 DEF StatusWrite, WriteToml
  <2>2. proc[s].work \in Id /\ OpenBy(s) /\ "closed" \in Phase /\ "closed" \notin Held
    BY <2>1, Phases DEF TypeInv, Working, OpenBy, OpenPhase, Held
  <2>3. /\ New("closed", proc[s].work) \in Process
        /\ New("closed", proc[s].work).work = proc[s].work
        /\ New("closed", proc[s].work).phase = "closed"
    BY <2>2, NewIs
  <2>4. proc'[s] = New("closed", proc[s].work) /\ Outdates(s)
    BY <1>7, <1>10, <2>2, <2>3, WriteTable
  <2>5. Over' \subseteq Over \cup {proc[s].work}
    <3> SUFFICES ASSUME NEW i \in Over' PROVE i \in Over \/ i = proc[s].work
      OBVIOUS
    <3>1. CASE i \in finished'
      BY <2>1, <3>1 DEF Over
    <3>2. ASSUME NEW q \in Session, proc'[q].phase \in After, i = proc'[q].work
          PROVE  i \in Over \/ i = proc[s].work
      <4>1. CASE q = s
        BY <2>3, <2>4, <3>2, <4>1
      <4>2. CASE q # s
        BY <2>4, <3>2, <4>2 DEF Outdates, Same, Over
      <4> QED
        BY <4>1, <4>2
    <3> QED
      BY <3>1, <3>2 DEF Over
  <2>6. proc'[s].phase \notin Held
    BY <2>2, <2>3, <2>4
  <2> QED
    BY <2>1, <2>2, <2>4, <2>5, <2>6 DEF Wrote
<1>11. ASSUME NEW s \in Session, Alone(s, Idle),
              toml' = toml, added' = added, mishap \subseteq mishap',
              finished' \in {finished, finished \cup ({proc[s].work} \cap Over)},
              OpenBy(s) => "torn" \in mishap'
       PROVE  Quiet
  <2>1. Idle.phase = "idle" /\ "idle" \notin Held /\ "idle" \notin After
    BY DEF Idle, Held, After
  <2> QED
    BY <1>1, <1>11, <2>1, IdleType
<1>12. ASSUME NEW s \in Session,
              BootstrapActivate(s) \/ NewSkip(s) \/ FinishClear(s) \/ FinishVerify(s, FALSE)
       PROVE  Quiet
  <2>1. /\ toml' = toml /\ added' = added /\ mishap \subseteq mishap'
        /\ proc[s].phase \in {"indexed", "bare", "bound", "finishing"}
        /\ \/ finished' = finished
           \/ proc[s].phase = "bound" /\ finished' = finished \cup {proc[s].work}
    <3>1. BootstrapActivate(s) =>
            /\ toml' = toml /\ added' = added /\ mishap' = mishap /\ finished' = finished
            /\ proc[s].phase = "indexed"
      BY DEF BootstrapActivate
    <3>2. NewSkip(s) =>
            /\ toml' = toml /\ added' = added /\ mishap' = mishap /\ finished' = finished
            /\ proc[s].phase = "bare"
      BY DEF NewSkip
    <3>3. FinishVerify(s, FALSE) =>
            /\ toml' = toml /\ added' = added /\ mishap \subseteq mishap'
            /\ finished' = finished /\ proc[s].phase = "finishing"
      BY DEF FinishVerify
    <3>4. FinishClear(s) =>
            /\ toml' = toml /\ added' = added /\ mishap' = mishap
            /\ finished' = finished \cup {proc[s].work} /\ proc[s].phase = "bound"
      BY DEF FinishClear
    <3> QED
      BY <1>12, <3>1, <3>2, <3>3, <3>4
  <2>2. proc[s].phase = "bound" => proc[s].work \in Over
    BY DEF Over, After
  <2>3. finished' \in {finished, finished \cup ({proc[s].work} \cap Over)}
    <3>1. proc[s].phase = "bound" => {proc[s].work} \cap Over = {proc[s].work}
      BY <2>2
    <3> QED
      BY <2>1, <3>1
  <2>4. ~OpenBy(s)
    BY <2>1 DEF OpenBy, OpenPhase
  <2> QED
    BY <1>11, <1>12, <2>1, <2>3, <2>4, OtherTable
<1>13. ASSUME NEW s \in Session, Kill(s) PROVE Quiet
  <2>1. /\ toml' = toml /\ added' = added /\ mishap \subseteq mishap' /\ finished' = finished
        /\ OpenBy(s) => "torn" \in mishap'
    BY <1>13 DEF Kill, OpenBy
  <2> QED
    BY <1>11, <1>13, <2>1, OtherTable
<1>14. ASSUME NEW s \in Session, BootstrapIndex(s) \/ FinishVerify(s, TRUE) PROVE Quiet
  <2>1. PICK ph \in {"indexed", "passed"} : Alone(s, To(s, ph))
    BY <1>14, OtherTable
  <2>2. /\ toml' = toml /\ added' = added /\ mishap \subseteq mishap' /\ finished' = finished
        /\ proc[s].phase \in {"written", "finishing"}
    BY <1>14 DEF BootstrapIndex, FinishVerify
  <2>3. /\ ph \in Phase /\ ph \notin Held /\ ph \notin After
        /\ proc[s].work \in Id /\ ~OpenBy(s)
    BY <2>2, Phases DEF Held, After, OpenBy, OpenPhase, TypeInv, Working
  <2>4. To(s, ph) \in Process /\ To(s, ph).phase = ph /\ To(s, ph).work = proc[s].work
    BY <2>3, ToIs
  <2> QED
    BY <1>1, <2>1, <2>2, <2>3, <2>4
<1>15. ASSUME NEW s \in Session, BindRead(s) \/ BindOpen(s) \/ BindWrite(s) PROVE Quiet
  <2>1. /\ toml' = toml /\ added' = added /\ mishap \subseteq mishap' /\ finished' = finished
        /\ proc[s].phase \in {"closed", "bind", "bindOpen"}
    BY <1>15 DEF BindRead, BindOpen, BindWrite
  <2>2. proc[s].phase \in After /\ proc[s].work \in Id /\ ~OpenBy(s)
    BY <2>1 DEF After, OpenBy, OpenPhase, TypeInv, Working
  <2>3. PICK c \in Process : /\ Alone(s, c) \/ Rebinds(s, c)
                             /\ c.phase \in After /\ c.work = proc[s].work
    <3>1. \A ph \in {"bind", "bindOpen", "bound"} : ph \in Phase /\ ph \in After
      BY Phases DEF After
    <3>2. CASE BindRead(s)
      <4> DEFINE R == Rebind(log, proc[s].work)
      <4>1. R \in SUBSET Receipt /\ {} \in SUBSET Receipt
        BY RebindType DEF TypeInv, TypeOK
      <4>2. Alone(s, Receipts(s, "bound", {})) \/ Alone(s, Receipts(s, "bind", R))
        BY <3>2, ReceiptTable
      <4> HIDE DEF R
      <4>3. /\ Receipts(s, "bound", {}) \in Process /\ Receipts(s, "bind", R) \in Process
            /\ Receipts(s, "bound", {}).work = proc[s].work
            /\ Receipts(s, "bind", R).work = proc[s].work
            /\ Receipts(s, "bound", {}).phase = "bound" /\ Receipts(s, "bind", R).phase = "bind"
        BY <3>1, <4>1, ReceiptsType
      <4> QED
        BY <3>1, <4>2, <4>3
    <3>3. CASE BindOpen(s)
      <4>1. /\ To(s, "bindOpen") \in Process
            /\ To(s, "bindOpen").phase = "bindOpen" /\ To(s, "bindOpen").work = proc[s].work
        BY <3>1, ToIs
      <4>2. Rebinds(s, To(s, "bindOpen"))
        BY <3>3, OtherTable
      <4> QED
        BY <3>1, <4>1, <4>2
    <3>4. CASE BindWrite(s)
      <4>1. \A i \in Id : /\ New("bound", i) \in Process
                          /\ New("bound", i).phase = "bound" /\ New("bound", i).work = i
        BY <3>1, NewIs
      <4> QED
        BY <2>2, <3>1, <3>4, <4>1, OtherTable
    <3> QED
      BY <1>15, <3>2, <3>3, <3>4
  <2>4. c.phase \notin Held
    BY <2>3 DEF Held, After
  <2> QED
    BY <1>1, <2>1, <2>2, <2>3, <2>4
<1>16. ASSUME NEW s \in Session, RecordReceipt(s) PROVE Quiet
  <2>1. /\ toml' = toml /\ added' = added /\ mishap \subseteq mishap' /\ finished' = finished
        /\ proc[s].phase = "idle" /\ proc[s] \in Process
    BY <1>16 DEF RecordReceipt, TypeInv, TypeOK
  <2>2. "idle" \notin Held /\ "idle" \notin After /\ ~OpenBy(s)
    BY <2>1 DEF Held, After, OpenBy, OpenPhase
  <2> QED
    BY <1>1, <1>16, <2>1, <2>2, ReceiptTable
<1>17. ASSUME NEW s \in Session, Index(s) \/ \E i \in Id : Activate(s, i) \/ Resume(s, i)
       PROVE  Quiet
  BY <1>2, <1>17 DEF Index, Activate, Resume
<1>18. ASSUME Commit \/ UNCHANGED vars PROVE Quiet
  BY <1>2, <1>18 DEF Commit, vars
<1>19. ASSUME NEW s \in Session, NEW pass \in BOOLEAN, FinishVerify(s, pass) PROVE Quiet
  BY <1>12, <1>14, <1>19
<1>20. ASSUME Next PROVE Fine
  <2>1. Quiet => Fine
    BY DEF Fine
  <2>2. \A s \in Session : TookCopy(s) \/ Opened(s) \/ Wrote(s) => Fine
    BY DEF Fine
  <2> QED
    BY <1>20, <2>1, <2>2, <1>4, <1>5, <1>6, <1>8, <1>9, <1>10, <1>12, <1>13, <1>14,
       <1>15, <1>16, <1>17, <1>18, <1>19, Zenon DEF Next
<1> QED
  BY <1>18, <1>20 DEF Fine

-----------------------------------------------------------------------------
(* Until a copy that is out of date is written back, or a process dies     *)
(* with the file open, work.toml and each copy that is up to date say all  *)
(* that was ever written.                                                  *)

(* All entries A are there, and the work items D are done.                 *)
Says(A, D, t) == A \subseteq Listed(t) /\ \A i \in D : t.status[i] \in {"done", "none"}

Exclusive ==
  \A s \in Session : OpenBy(s) =>
    /\ proc[s].stale = FALSE
    /\ \A q \in Session \ {s} : proc[q].phase \in Held => proc[q].stale = TRUE

Copies ==
  Clean =>
    /\ Exclusive
    /\ (\A s \in Session : ~OpenBy(s)) => Says(added, Over, toml)
    /\ \A s \in Session : proc[s].phase \in Held /\ proc[s].stale = FALSE =>
         Says(added, Over, proc[s].toml)

LEMMA SaysLess ==
  ASSUME NEW A, NEW D, NEW E, E \subseteq D, NEW t, Says(A, D, t)
  PROVE  Says(A, E, t)
BY DEF Says

LEMMA SaysMore ==
  ASSUME NEW A, NEW D \in SUBSET Id, NEW t \in Toml, NEW i \in Id, Says(A, D, t)
  PROVE  /\ \A st \in {"active", "none"} : Says(A \cup {i}, D, Appended(t, i, st))
         /\ Says(A \cup {i}, D \cup {i}, Closed(t, i))
BY DEF Says, Appended, Closed, Listed, Toml, Status

LEMMA OverType == TypeInv => Over \in SUBSET Id
BY DEF TypeInv, TypeOK, Working, Over, After

LEMMA CopiesQuiet == ASSUME TypeInv, Copies, Quiet PROVE Copies'
<1> SUFFICES ASSUME Clean' PROVE /\ Exclusive'
                                 /\ (\A s \in Session : ~OpenBy(s))' => Says(added', Over', toml')
                                 /\ \A s \in Session : proc'[s].phase \in Held /\ proc'[s].stale = FALSE =>
                                      Says(added', Over', proc'[s].toml)
  BY DEF Copies
<1>1. Clean /\ "torn" \notin mishap'
  BY DEF Clean, Quiet
<1>2. /\ toml' = toml /\ added' = added /\ Over' \subseteq Over
      /\ \A q \in Session : /\ proc'[q].phase \in Held => proc'[q] = proc[q]
                            /\ OpenBy(q) => proc'[q] = proc[q]
  BY <1>1 DEF Quiet
<1>3. \A q \in Session : OpenBy(q)' <=> OpenBy(q)
  BY <1>2, PhaseSets DEF OpenBy
<1>4. Exclusive'
  BY <1>1, <1>2, <1>3 DEF Copies, Exclusive
<1>5. (\A s \in Session : ~OpenBy(s))' => Says(added', Over', toml')
  BY <1>1, <1>2, <1>3, SaysLess DEF Copies
<1>6. \A s \in Session : proc'[s].phase \in Held /\ proc'[s].stale = FALSE =>
         Says(added', Over', proc'[s].toml)
  BY <1>1, <1>2, SaysLess DEF Copies
<1> QED
  BY <1>4, <1>5, <1>6

LEMMA CopiesTook ==
  ASSUME TypeInv, Copies, NEW s \in Session, TookCopy(s) PROVE Copies'
<1> SUFFICES ASSUME Clean' PROVE /\ Exclusive'
                                 /\ (\A q \in Session : ~OpenBy(q))' => Says(added', Over', toml')
                                 /\ \A q \in Session : proc'[q].phase \in Held /\ proc'[q].stale = FALSE =>
                                      Says(added', Over', proc'[q].toml)
  BY DEF Copies
<1>1. Clean
  BY DEF Clean, TookCopy
<1>2. /\ toml' = toml /\ added' = added /\ Over' \subseteq Over
      /\ proc'[s].toml = toml /\ ~OpenBy(s) /\ ~OpenBy(s)'
      /\ \A q \in Session \ {s} : proc'[q] = proc[q]
  BY DEF TookCopy, OpenBy, OpenPhase
<1>3. \A q \in Session : OpenBy(q)' <=> OpenBy(q)
  BY <1>2 DEF OpenBy
<1>4. (\E q \in Session : OpenBy(q)) => proc'[s].stale = TRUE
  BY DEF TookCopy
<1>5. (\A q \in Session : ~OpenBy(q)) => Says(added', Over', toml')
  BY <1>1, <1>2, SaysLess DEF Copies
<1>6. Exclusive'
  BY <1>1, <1>2, <1>3, <1>4 DEF Copies, Exclusive
<1>7. ASSUME NEW q \in Session, proc'[q].phase \in Held, proc'[q].stale = FALSE
      PROVE  Says(added', Over', proc'[q].toml)
  <2>1. CASE q = s
    BY <1>2, <1>4, <1>5, <1>7, <2>1
  <2>2. CASE q # s
    BY <1>1, <1>2, <1>7, <2>2, SaysLess DEF Copies
  <2> QED
    BY <2>1, <2>2
<1> QED
  BY <1>3, <1>5, <1>6, <1>7

(* A clean step of a process that opens or writes the file.                *)
LEMMA RewriterIsFresh ==
  ASSUME TypeInv, Copies, NEW s \in Session, Opened(s) \/ Wrote(s), Clean'
  PROVE  /\ Clean /\ proc[s].stale = FALSE
         /\ Says(added, Over, proc[s].toml)
         /\ \A q \in Session \ {s} :
              /\ ~OpenBy(q) /\ ~OpenBy(q)'
              /\ proc'[q].phase \in Held => proc'[q].stale = TRUE
<1>1. Clean /\ ~proc[s].stale
  BY DEF Clean, Opened, Wrote, Overtaken
<1>2. proc[s].stale = FALSE /\ proc[s].phase \in Held
  <2>1. proc[s].stale \in BOOLEAN
    BY DEF TypeInv, TypeOK, Process
  <2>2. proc[s].phase \in Held
    BY PhaseSets DEF Opened, Wrote, OpenBy
  <2> QED
    BY <1>1, <2>1, <2>2
<1>3. \A q \in Session \ {s} : ~OpenBy(q)
  BY <1>1, <1>2 DEF Copies, Exclusive
<1>4. \A q \in Session \ {s} : /\ proc'[q].phase = proc[q].phase
                               /\ proc[q].phase \in Held => proc'[q].stale = TRUE
  BY DEF Opened, Wrote, Outdates, Same
<1>5. Says(added, Over, proc[s].toml)
  BY <1>1, <1>2 DEF Copies
<1> QED
  BY <1>1, <1>2, <1>3, <1>4, <1>5 DEF OpenBy

LEMMA CopiesOpened ==
  ASSUME TypeInv, Copies, NEW s \in Session, Opened(s) PROVE Copies'
<1> SUFFICES ASSUME Clean' PROVE /\ Exclusive'
                                 /\ (\A q \in Session : ~OpenBy(q))' => Says(added', Over', toml')
                                 /\ \A q \in Session : proc'[q].phase \in Held /\ proc'[q].stale = FALSE =>
                                      Says(added', Over', proc'[q].toml)
  BY DEF Copies
<1>1. /\ proc[s].stale = FALSE /\ Says(added, Over, proc[s].toml)
      /\ \A q \in Session \ {s} : /\ ~OpenBy(q)'
                                  /\ proc'[q].phase \in Held => proc'[q].stale = TRUE
  BY RewriterIsFresh
<1>2. /\ proc'[s].toml = proc[s].toml /\ proc'[s].stale = FALSE /\ OpenBy(s)'
      /\ added' = added /\ Over' \subseteq Over
  BY <1>1 DEF Opened, OpenBy
<1>3. Says(added', Over', proc'[s].toml)
  BY <1>1, <1>2, SaysLess
<1>4. Exclusive'
  BY <1>1, <1>2 DEF Exclusive
<1> QED
  BY <1>1, <1>2, <1>3, <1>4

LEMMA CopiesWrote ==
  ASSUME TypeInv, Copies, NEW s \in Session, Wrote(s) PROVE Copies'
<1> SUFFICES ASSUME Clean' PROVE /\ Exclusive'
                                 /\ (\A q \in Session : ~OpenBy(q))' => Says(added', Over', toml')
                                 /\ \A q \in Session : proc'[q].phase \in Held /\ proc'[q].stale = FALSE =>
                                      Says(added', Over', proc'[q].toml)
  BY DEF Copies
<1>1. /\ Says(added, Over, proc[s].toml)
      /\ \A q \in Session \ {s} : /\ ~OpenBy(q)'
                                  /\ proc'[q].phase \in Held => proc'[q].stale = TRUE
  BY RewriterIsFresh
<1>2. proc'[s].phase \notin Held /\ ~OpenBy(s)'
  BY PhaseSets DEF Wrote, OpenBy
<1>3. proc[s].toml \in Toml /\ proc[s].work \in Id /\ Over \in SUBSET Id
  BY OverType DEF TypeInv, TypeOK, Process, Working, Wrote, OpenBy, OpenPhase
<1>4. Says(added', Over', toml')
  <2>1. added' = added \cup {proc[s].work}
    BY DEF Wrote
  <2>2. ASSUME NEW st \in {"active", "none"},
               toml' = Appended(proc[s].toml, proc[s].work, st), Over' \subseteq Over
        PROVE  Says(added', Over', toml')
    <3>1. Says(added', Over, toml')
      BY <1>1, <1>3, <2>1, <2>2, SaysMore
    <3> QED
      BY <2>2, <3>1, SaysLess
  <2>3. ASSUME toml' = Closed(proc[s].toml, proc[s].work), Over' \subseteq Over \cup {proc[s].work}
        PROVE  Says(added', Over', toml')
    <3>1. Says(added', Over \cup {proc[s].work}, toml')
      BY <1>1, <1>3, <2>1, <2>3, SaysMore
    <3> QED
      BY <2>3, <3>1, SaysLess
  <2> QED
    BY <2>2, <2>3 DEF Wrote
<1>5. Exclusive'
  BY <1>1, <1>2 DEF Exclusive
<1> QED
  BY <1>1, <1>2, <1>4, <1>5

LEMMA CopiesAlways == Spec => [](TypeInv /\ Copies)
<1>1. Init => TypeInv /\ Copies
  <2> SUFFICES ASSUME Init PROVE TypeInv /\ Copies
    OBVIOUS
  <2>1. TypeInv
    BY TypeInit DEF TypeInv, Working, Init, Idle
  <2>2. \A s \in Session : proc[s].phase = "idle"
    BY DEF Init, Idle
  <2>3. added = {} /\ Over = {}
    BY <2>2 DEF Init, Over, After
  <2> QED
    BY <2>1, <2>2, <2>3 DEF Copies, Exclusive, OpenBy, OpenPhase, Held, Says
<1>2. TypeInv /\ Copies /\ [Next]_vars => (TypeInv /\ Copies)'
  BY TypeNext, StepKinds, CopiesQuiet, CopiesTook, CopiesOpened, CopiesWrote
<1> QED
  BY <1>1, <1>2, PTL DEF Spec

(* Rewriting work.toml loses no entry, unless a process wrote back a copy  *)
(* another one had outdated or died with the file open.                    *)
THEOREM EntriesStay == Spec => []EntriesSurvive
<1>1. TypeInv /\ Copies => EntriesSurvive
  <2> SUFFICES ASSUME TypeInv, Copies, Clean
               PROVE  \/ added \subseteq Listed(toml)
                      \/ \E s \in Session : OpenBy(s) /\ added \subseteq Listed(proc[s].toml)
    BY DEF EntriesSurvive, Clean
  <2>1. ASSUME NEW s \in Session, OpenBy(s)
        PROVE  added \subseteq Listed(proc[s].toml)
    BY <2>1, PhaseSets DEF Copies, Exclusive, OpenBy, Says
  <2> QED
    BY <2>1 DEF Copies, Says
<1> QED
  BY <1>1, CopiesAlways, PTL
-----------------------------------------------------------------------------
(* Receipts: the same for receipts.jsonl, to which anybody appends and     *)
(* which a finish reads and writes back.                                   *)

Kept(R, W) == \A n \in 1 .. W : \E r \in R : r.n = n

Shares ==
  Clean =>
    /\ \A s \in Session : proc[s].phase = "bindOpen" =>
         /\ Kept(log \cup proc[s].log, written)
         /\ \A q \in Session \ {s} : proc[q].phase \in Binding => proc[q].stale = TRUE
    /\ (\A s \in Session : proc[s].phase # "bindOpen") => Kept(log, written)
    /\ \A s \in Session : proc[s].phase \in Binding /\ proc[s].stale = FALSE =>
         Kept(proc[s].log, written)

(* What all steps have in common that leave the receipts alone.            *)
Leaves ==
  /\ log' = log /\ written' = written /\ mishap \subseteq mishap'
  /\ \A q \in Session :
       /\ proc'[q].phase \in Binding => Same(proc'[q], proc[q])
       /\ proc[q].phase = "bindOpen" /\ proc'[q].phase # "bindOpen" => "torn" \in mishap'

LEMMA SharesLeft == ASSUME Shares, Leaves PROVE Shares'
<1> SUFFICES ASSUME Clean'
             PROVE  /\ \A s \in Session : proc'[s].phase = "bindOpen" =>
                         /\ Kept(log' \cup proc'[s].log, written')
                         /\ \A q \in Session \ {s} :
                              proc'[q].phase \in Binding => proc'[q].stale = TRUE
                    /\ (\A s \in Session : proc'[s].phase # "bindOpen") => Kept(log', written')
                    /\ \A s \in Session :
                         proc'[s].phase \in Binding /\ proc'[s].stale = FALSE =>
                           Kept(proc'[s].log, written')
  BY DEF Shares
<1>1. Clean /\ "torn" \notin mishap' /\ log' = log /\ written' = written
  BY DEF Clean, Leaves
<1>2. \A q \in Session :
        /\ proc'[q].phase \in Binding =>
             /\ proc[q].phase = proc'[q].phase /\ proc'[q].log = proc[q].log
             /\ proc'[q].stale \in {proc[q].stale, TRUE}
        /\ proc[q].phase = "bindOpen" => proc'[q].phase = "bindOpen"
  BY <1>1 DEF Leaves, Same
<1>3. "bindOpen" \in Binding
  BY DEF Binding
<1> QED
  BY <1>1, <1>2, <1>3 DEF Shares

LEMMA OneLeaves ==
  ASSUME TypeInv, NEW s \in Session, NEW c \in Process, c.phase # "idle" => c.work \in Id,
         Alone(s, c) \/ Rewrites(s, c), c.phase \notin Binding,
         log' = log, written' = written, mishap \subseteq mishap',
         proc[s].phase = "bindOpen" => "torn" \in mishap'
  PROVE  Leaves
<1>1. proc'[s] = c /\ \A q \in Session \ {s} : Same(proc'[q], proc[q])
  BY OneProcess
<1> QED
  BY <1>1 DEF Leaves, Same

LEMMA LeavesKinds ==
  ASSUME TypeInv, [Next]_vars
  PROVE  Leaves \/ \E s \in Session :
                     RecordReceipt(s) \/ BindRead(s) \/ BindOpen(s) \/ BindWrite(s)
<1> USE DEF git, counts, history
<1>1. ASSUME UNCHANGED <<proc, log, written>>, mishap \subseteq mishap' PROVE Leaves
  BY <1>1 DEF Leaves, Same
<1>2. ASSUME NEW s \in Session,
             \/ \E d \in Slug : Bootstrap(s, d) \/ NewWork(s, d)
             \/ Finish(s)
      PROVE  Leaves
  <2>1. /\ log' = log /\ written' = written /\ mishap \subseteq mishap'
        /\ proc[s].phase = "idle"
    BY <1>2 DEF Bootstrap, NewWork, Finish
  <2>2. PICK c \in Process : /\ Alone(s, c) /\ c.work \in Id
                             /\ c.phase \in {"minted", "named", "finishing"}
    BY <1>2, BootstrapIs, NewWorkIs, FinishIs
  <2>3. c.phase \notin Binding
    BY <2>2 DEF Binding
  <2> QED
    BY <2>1, <2>2, <2>3, OneLeaves
<1>3. ASSUME NEW s \in Session, WriteSpec(s) PROVE Leaves
  <2>1. /\ proc'[s].phase = "specified" /\ proc[s].phase = "minted"
        /\ \A q \in Session \ {s} : Same(proc'[q], proc[q])
    BY <1>3, WriteSpecIs DEF WriteSpec
  <2>2. log' = log /\ written' = written /\ mishap \subseteq mishap'
    BY <1>3 DEF WriteSpec
  <2> QED
    BY <2>1, <2>2 DEF Leaves, Same, Binding
<1>4. ASSUME NEW s \in Session, Onward(s) PROVE Leaves
  <2>1. PICK c \in Process :
          /\ Alone(s, c) \/ Rewrites(s, c)
          /\ proc[s].work \in Id
          /\ \/ c.phase = "idle"
             \/ Edge(proc[s].phase, c.phase) /\ c.work = proc[s].work
    BY <1>4, OnwardIs
  <2>2. c.phase \notin Binding /\ (c.phase # "idle" => c.work \in Id)
    BY <2>1 DEF Edge, Binding
  <2>3. log' = log /\ written' = written /\ mishap \subseteq mishap'
    BY <1>4 DEF Onward, BootstrapRead, NewRead, StatusRead, ReadToml, BootstrapOpen,
       NewOpen, StatusOpen, OpenToml, BootstrapWrite, NewWrite, StatusWrite, WriteToml,
       BootstrapIndex, BootstrapActivate, NewSkip, FinishClear, Kill, FinishVerify
  <2>4. proc[s].phase = "bindOpen" => "torn" \in mishap'
    BY <1>4 DEF Onward, BootstrapRead, NewRead, StatusRead, ReadToml, BootstrapOpen,
       NewOpen, StatusOpen, OpenToml, BootstrapWrite, NewWrite, StatusWrite,
       BootstrapIndex, BootstrapActivate, NewSkip, FinishClear, Kill, FinishVerify
  <2> QED
    BY <2>1, <2>2, <2>3, <2>4, OneLeaves
<1>5. ASSUME NEW s \in Session, Index(s) \/ \E i \in Id : Activate(s, i) \/ Resume(s, i)
      PROVE  Leaves
  BY <1>1, <1>5 DEF Index, Activate, Resume
<1>6. ASSUME Commit \/ UNCHANGED vars PROVE Leaves
  BY <1>1, <1>6 DEF Commit, vars
<1>7. ASSUME NEW s \in Session
      PROVE  /\ BootstrapRead(s) \/ NewRead(s) \/ StatusRead(s)
                \/ BootstrapOpen(s) \/ NewOpen(s) \/ StatusOpen(s)
                \/ BootstrapWrite(s) \/ NewWrite(s) \/ StatusWrite(s)
                \/ BootstrapIndex(s) \/ BootstrapActivate(s) \/ NewSkip(s)
                \/ FinishClear(s) \/ Kill(s) => Leaves
             /\ (\E pass \in BOOLEAN : FinishVerify(s, pass)) => Leaves
  BY <1>4 DEF Onward
<1>8. CASE Next
  BY <1>8, <1>2, <1>3, <1>5, <1>6, <1>7, Zenon DEF Next
<1> QED
  BY <1>6, <1>8

(* How the four others change the processes.                               *)
LEMMA BindIs ==
  ASSUME TypeInv, NEW s \in Session
  PROVE  /\ BindRead(s) => LET R == Rebind(log, proc[s].work) IN
              /\ \/ proc'[s].phase = "bound"
                 \/ /\ proc'[s].phase = "bind" /\ proc'[s].log = R
                    /\ proc'[s].stale = \E q \in Session : proc[q].phase = "bindOpen"
              /\ \A q \in Session \ {s} : proc'[q] = proc[q]
         /\ BindOpen(s) =>
              /\ proc'[s].phase = "bindOpen" /\ proc'[s].log = proc[s].log
              /\ proc'[s].stale = proc[s].stale
         /\ BindWrite(s) => proc'[s].phase = "bound"
         /\ RecordReceipt(s) => proc'[s] = proc[s]
         /\ BindOpen(s) \/ BindWrite(s) \/ RecordReceipt(s) =>
              \A q \in Session \ {s} :
                /\ Same(proc'[q], proc[q])
                /\ proc[q].phase \in Binding => proc'[q].stale = TRUE
<1>1. \A ph \in {"bound", "bind", "bindOpen"} : ph \in Phase
  BY Phases
<1>2. proc[s] \in Process
  BY DEF TypeInv, TypeOK
<1>3. ASSUME BindRead(s)
      PROVE  LET R == Rebind(log, proc[s].work) IN
              /\ \/ proc'[s].phase = "bound"
                 \/ /\ proc'[s].phase = "bind" /\ proc'[s].log = R
                    /\ proc'[s].stale = \E q \in Session : proc[q].phase = "bindOpen"
              /\ \A q \in Session \ {s} : proc'[q] = proc[q]
  <2> DEFINE R == Rebind(log, proc[s].work)
             b == \E q \in Session : proc[q].phase = "bindOpen"
  <2>1. R \in SUBSET Receipt /\ {} \in SUBSET Receipt
    BY RebindType DEF TypeInv, TypeOK
  <2>2. Alone(s, Receipts(s, "bound", {})) \/ Alone(s, Receipts(s, "bind", R))
    BY <1>3, ReceiptTable
  <2>3. proc[s].work \in Id
    BY <1>3 DEF BindRead, TypeInv, Working
  <2>4. /\ Receipts(s, "bound", {}).phase = "bound" /\ Receipts(s, "bind", R).phase = "bind"
        /\ Receipts(s, "bind", R).log = R /\ Receipts(s, "bind", R).stale = b
        /\ Receipts(s, "bound", {}).work \in Id /\ Receipts(s, "bind", R).work \in Id
    <3>1. \A ph, L : /\ Receipts(s, ph, L).phase = ph /\ Receipts(s, ph, L).log = L
                     /\ Receipts(s, ph, L).work = proc[s].work
                     /\ Receipts(s, ph, L).stale = b
      BY ReceiptsIs
    <3> HIDE DEF R, b
    <3> QED
      BY <2>3, <3>1
  <2>5. Receipts(s, "bound", {}) \in Process /\ Receipts(s, "bind", R) \in Process
    BY <1>1, <2>1, ReceiptsType
  <2> HIDE DEF R, b
  <2>6. PICK c \in {Receipts(s, "bound", {}), Receipts(s, "bind", R)} : Alone(s, c)
    BY <2>2
  <2>7. proc'[s] = c /\ \A q \in Session \ {s} : proc'[q] = proc[q]
    BY <2>4, <2>5, <2>6, OneProcess
  <2> QED
    BY <2>4, <2>7 DEF R, b
<1>4. ASSUME BindOpen(s)
      PROVE  /\ proc'[s].phase = "bindOpen" /\ proc'[s].log = proc[s].log
             /\ proc'[s].stale = proc[s].stale
             /\ \A q \in Session \ {s} :
                  /\ Same(proc'[q], proc[q])
                  /\ proc[q].phase \in Binding => proc'[q].stale = TRUE
  <2>1. /\ To(s, "bindOpen") \in Process /\ To(s, "bindOpen").phase = "bindOpen"
        /\ To(s, "bindOpen").log = proc[s].log /\ To(s, "bindOpen").stale = proc[s].stale
        /\ To(s, "bindOpen").work = proc[s].work
    BY <1>1, ToIs
  <2>2. proc[s].work \in Id
    BY <1>4 DEF BindOpen, TypeInv, Working
  <2>3. Rebinds(s, To(s, "bindOpen"))
    BY <1>4, OtherTable
  <2> QED
    BY <2>1, <2>2, <2>3, OneProcess
<1>5. ASSUME BindWrite(s)
      PROVE  /\ proc'[s].phase = "bound"
             /\ \A q \in Session \ {s} :
                  /\ Same(proc'[q], proc[q])
                  /\ proc[q].phase \in Binding => proc'[q].stale = TRUE
  <2>1. proc[s].work \in Id
    BY <1>5 DEF BindWrite, TypeInv, Working
  <2>2. /\ New("bound", proc[s].work) \in Process
        /\ New("bound", proc[s].work).phase = "bound"
        /\ New("bound", proc[s].work).work \in Id
    BY <1>1, <2>1, NewIs
  <2>3. Rebinds(s, New("bound", proc[s].work))
    BY <1>5, OtherTable
  <2> QED
    BY <2>2, <2>3, OneProcess
<1>6. ASSUME RecordReceipt(s)
      PROVE  /\ proc'[s] = proc[s]
             /\ \A q \in Session \ {s} :
                  /\ Same(proc'[q], proc[q])
                  /\ proc[q].phase \in Binding => proc'[q].stale = TRUE
  <2>1. proc[s].phase = "idle"
    BY <1>6 DEF RecordReceipt
  <2> QED
    BY <1>2, <1>6, <2>1, ReceiptTable, OneProcess
<1> QED
  BY <1>3, <1>4, <1>5, <1>6

LEMMA SharesBound ==
  ASSUME TypeInv, Shares, NEW s \in Session,
         RecordReceipt(s) \/ BindRead(s) \/ BindOpen(s) \/ BindWrite(s)
  PROVE  Shares'
<1> USE DEF Binding
<1> DEFINE Good ==
      /\ \A q \in Session : proc'[q].phase = "bindOpen" =>
           /\ Kept(log' \cup proc'[q].log, written')
           /\ \A p \in Session \ {q} :
                proc'[p].phase \in Binding => proc'[p].stale = TRUE
      /\ (\A q \in Session : proc'[q].phase # "bindOpen") => Kept(log', written')
      /\ \A q \in Session :
           proc'[q].phase \in Binding /\ proc'[q].stale = FALSE =>
             Kept(proc'[q].log, written')
<1> SUFFICES ASSUME Clean' PROVE Good
  BY DEF Shares
<1>1. Clean
  BY DEF Clean, RecordReceipt, BindRead, BindOpen, BindWrite, history
<1>2. written \in 0 .. MaxReceipts /\ log \in SUBSET Receipt
  BY DEF TypeInv, TypeOK
<1>3. CASE RecordReceipt(s)
  <2> DEFINE r0 == [n |-> written + 1, work |-> sess[s], commit |-> head]
  <2>1. log' = log \cup {r0} /\ written' = written + 1 /\ r0.n = written + 1
        /\ proc[s].phase = "idle" /\ proc'[s] = proc[s]
    BY <1>3, BindIs DEF RecordReceipt
  <2>2. \A q \in Session \ {s} : /\ Same(proc'[q], proc[q])
                                 /\ proc[q].phase \in Binding => proc'[q].stale = TRUE
    BY <1>3, BindIs
  <2>3. \A q \in Session : /\ proc'[q].phase = proc[q].phase /\ proc'[q].log = proc[q].log
                           /\ proc'[q].phase \in Binding => proc'[q].stale = TRUE
    BY <2>1, <2>2 DEF Same
  <2> HIDE DEF r0
  <2>4. \A R : Kept(R, written) => Kept(R \cup {r0}, written')
    <3> SUFFICES ASSUME NEW R, Kept(R, written), NEW n \in 1 .. written'
                 PROVE  \E r \in R \cup {r0} : r.n = n
      BY DEF Kept
    <3>1. n \in 1 .. written \/ n = written + 1
      BY <1>2, <2>1
    <3> QED
      BY <2>1, <3>1 DEF Kept
  <2>5. \A R : (R \cup log) \cup {r0} = log' \cup R
    BY <2>1
  <2>6. ASSUME NEW q \in Session, proc'[q].phase = "bindOpen"
        PROVE  Kept(log' \cup proc'[q].log, written')
    <3>1. Kept(log \cup proc[q].log, written)
      BY <1>1, <2>3, <2>6 DEF Shares
    <3>2. (log \cup proc[q].log) \cup {r0} = log' \cup proc'[q].log
      BY <2>1, <2>3
    <3> QED
      BY <2>4, <3>1, <3>2
  <2>7. (\A q \in Session : proc'[q].phase # "bindOpen") => Kept(log', written')
    BY <1>1, <2>1, <2>3, <2>4 DEF Shares
  <2> QED
    BY <2>3, <2>6, <2>7
<1>4. CASE BindRead(s)
  <2> DEFINE R == Rebind(log, proc[s].work)
             b == \E q \in Session : proc[q].phase = "bindOpen"
  <2>1. \/ proc'[s].phase = "bound"
        \/ proc'[s].phase = "bind" /\ proc'[s].log = R /\ proc'[s].stale = b
    BY <1>4, BindIs
  <2>2. /\ \A q \in Session \ {s} : proc'[q] = proc[q]
        /\ proc[s].phase = "closed" /\ log' = log /\ written' = written
    BY <1>4, BindIs DEF BindRead, history, counts
  <2>3. \A r \in log : \E q \in R : q.n = r.n
    BY <1>2, RebindType DEF TypeInv, TypeOK
  <2> HIDE DEF R
  <2>4. Kept(log, written) => Kept(R, written)
    BY <2>3 DEF Kept
  <2>5. ~b => Kept(log, written)
    BY <1>1 DEF Shares
  <2>6. ASSUME NEW q \in Session, proc'[q].phase = "bindOpen"
        PROVE  /\ Kept(log' \cup proc'[q].log, written')
               /\ \A p \in Session \ {q} :
                    proc'[p].phase \in Binding => proc'[p].stale = TRUE
    <3>1. q # s /\ proc[q].phase = "bindOpen" /\ b /\ proc'[q] = proc[q]
      BY <2>1, <2>2, <2>6
    <3>2. \A p \in Session \ {q} : proc'[p].phase \in Binding => proc'[p].stale = TRUE
      BY <1>1, <2>1, <2>2, <3>1 DEF Shares
    <3> QED
      BY <1>1, <2>2, <3>1, <3>2 DEF Shares
  <2>7. (\A q \in Session : proc'[q].phase # "bindOpen") => ~b
    BY <2>2
  <2>8. \A q \in Session : proc'[q].phase \in Binding /\ proc'[q].stale = FALSE =>
             Kept(proc'[q].log, written')
    BY <1>1, <2>1, <2>2, <2>4, <2>5 DEF Shares
  <2> QED
    BY <2>2, <2>5, <2>6, <2>7, <2>8
<1>5. CASE BindOpen(s) \/ BindWrite(s)
  <2>1. proc[s].phase \in Binding /\ proc[s].stale = FALSE /\ written' = written
    <3>1. proc[s].phase \in Binding /\ written' = written /\ Overtaken(s) \subseteq mishap'
      BY <1>5 DEF BindOpen, BindWrite, counts
    <3>2. proc[s].stale \in BOOLEAN
      BY DEF TypeInv, TypeOK, Process
    <3> QED
      BY <3>1, <3>2 DEF Overtaken, Clean
  <2>2. Kept(proc[s].log, written)
    BY <1>1, <2>1 DEF Shares
  <2>3. \A q \in Session \ {s} : proc[q].phase # "bindOpen"
    BY <1>1, <2>1 DEF Shares
  <2>4. \A q \in Session \ {s} : /\ Same(proc'[q], proc[q])
                                 /\ proc[q].phase \in Binding => proc'[q].stale = TRUE
    BY <1>5, BindIs
  <2>5. \A q \in Session \ {s} : /\ proc'[q].phase # "bindOpen"
                                 /\ proc'[q].phase \in Binding => proc'[q].stale = TRUE
    BY <2>3, <2>4 DEF Same
  <2>6. CASE BindOpen(s)
    <3>1. proc'[s].phase = "bindOpen" /\ proc'[s].log = proc[s].log /\ log' = {}
      BY <2>6, BindIs DEF BindOpen
    <3>2. log' \cup proc'[s].log = proc[s].log
      BY <3>1
    <3> QED
      BY <2>1, <2>2, <2>5, <3>1, <3>2
  <2>7. CASE BindWrite(s)
    <3>1. proc'[s].phase = "bound" /\ log' = proc[s].log
      BY <2>7, BindIs DEF BindWrite
    <3> QED
      BY <2>1, <2>2, <2>5, <3>1
  <2> QED
    BY <1>5, <2>6, <2>7
<1> QED
  BY <1>3, <1>4, <1>5

(* A receipt stays in receipts.jsonl, unless a finish wrote back an old    *)
(* copy or died with the file open.                                        *)
THEOREM ReceiptsStay == Spec => []ReceiptsSurvive
<1>1. Init => Shares
  <2> SUFFICES ASSUME Init PROVE Shares
    OBVIOUS
  <2>1. written = 0 /\ \A s \in Session : proc[s].phase \notin Binding
    BY DEF Init, Idle, Binding
  <2>2. \A R : Kept(R, written)
    BY <2>1 DEF Kept
  <2> QED
    BY <2>1, <2>2 DEF Shares, Binding
<1>2. TypeInv /\ Shares /\ [Next]_vars => Shares'
  BY LeavesKinds, SharesLeft, SharesBound
<1>3. Shares => ReceiptsSurvive
  <2> SUFFICES ASSUME Shares, Clean, NEW n \in 1 .. written
               PROVE  \/ \E r \in log : r.n = n
                      \/ \E s \in Session : /\ proc[s].phase = "bindOpen"
                                            /\ \E r \in proc[s].log : r.n = n
    BY DEF ReceiptsSurvive, Clean
  <2>1. CASE \E s \in Session : proc[s].phase = "bindOpen"
    <3>1. PICK s \in Session : proc[s].phase = "bindOpen"
      BY <2>1
    <3>2. \E r \in log \cup proc[s].log : r.n = n
      BY <3>1 DEF Shares, Kept
    <3> QED
      BY <3>1, <3>2
  <2>2. CASE \A s \in Session : proc[s].phase # "bindOpen"
    BY <2>2 DEF Shares, Kept
  <2> QED
    BY <2>1, <2>2
<1> QED
  BY <1>1, <1>2, <1>3, TypeAlways, PTL DEF Spec
-----------------------------------------------------------------------------
(* Specifications.                                                         *)

(* A file is for the work item it is named after; whoever has chosen one   *)
(* knows that nothing is lost by writing it, unless it is overtaken.       *)
Contracts ==
  "overtaken" \notin mishap =>
    /\ \A i \in Id : spec[i] \in {NoWork, i}
    /\ \A s \in Session : proc[s].phase = "minted" =>
         /\ proc[s].path \in {DefaultPath, proc[s].work}
         /\ proc[s].stale = FALSE =>
              \/ spec[proc[s].path] = NoWork
              \/ Mentions(spec[proc[s].path], proc[s].work)
    /\ ContractsSurvive

(* What all steps have in common that neither choose nor write a file.     *)
Spares ==
  /\ spec' = spec /\ covered' = covered /\ mishap \subseteq mishap'
  /\ \A q \in Session : proc'[q].phase = "minted" => Same(proc'[q], proc[q])

LEMMA ContractsSpared == ASSUME Contracts, Spares PROVE Contracts'
<1> SUFFICES ASSUME "overtaken" \notin mishap'
             PROVE  /\ \A i \in Id : spec'[i] \in {NoWork, i}
                    /\ \A s \in Session : proc'[s].phase = "minted" =>
                         /\ proc'[s].path \in {DefaultPath, proc'[s].work}
                         /\ proc'[s].stale = FALSE =>
                              \/ spec'[proc'[s].path] = NoWork
                              \/ Mentions(spec'[proc'[s].path], proc'[s].work)
                    /\ ContractsSurvive'
  BY DEF Contracts, Mentions
<1>1. "overtaken" \notin mishap /\ spec' = spec /\ covered' = covered
  BY DEF Spares
<1>2. \A q \in Session : proc'[q].phase = "minted" =>
        /\ proc[q].phase = "minted" /\ proc'[q].path = proc[q].path
        /\ proc'[q].work = proc[q].work /\ proc'[q].stale \in {proc[q].stale, TRUE}
  BY DEF Spares, Same
<1>3. ContractsSurvive'
  BY <1>1 DEF Contracts, ContractsSurvive
<1> QED
  BY <1>1, <1>2, <1>3 DEF Contracts

LEMMA ContractsChosen ==
  ASSUME TypeInv, Contracts, NEW s \in Session, NEW d \in Slug, Bootstrap(s, d)
  PROVE  Contracts'
<1> SUFFICES ASSUME "overtaken" \notin mishap'
             PROVE  /\ \A i \in Id : spec'[i] \in {NoWork, i}
                    /\ \A q \in Session : proc'[q].phase = "minted" =>
                         /\ proc'[q].path \in {DefaultPath, proc'[q].work}
                         /\ proc'[q].stale = FALSE =>
                              \/ spec'[proc'[q].path] = NoWork
                              \/ Mentions(spec'[proc'[q].path], proc'[q].work)
                    /\ ContractsSurvive'
  BY DEF Contracts, Mentions
<1>1. "overtaken" \notin mishap /\ spec' = spec /\ covered' = covered
  BY DEF Bootstrap
<1>2. PICK c \in Process :
        /\ Alone(s, c) /\ c.phase = "minted" /\ c.stale = FALSE
        /\ c.work \in Id /\ c.path = SpecPath(c.work)
  BY BootstrapIs
<1>3. proc'[s] = c /\ \A q \in Session \ {s} : proc'[q] = proc[q]
  BY <1>2, OneProcess
<1>4. /\ c.path \in {DefaultPath, c.work}
      /\ spec[c.path] = NoWork \/ Mentions(spec[c.path], c.work)
  <2>1. CASE c.path = DefaultPath
    <3>1. spec[DefaultPath] = NoWork \/ Mentions(spec[DefaultPath], c.work)
          \/ c.work = DefaultPath
      BY <1>2, <2>1 DEF SpecPath
    <3>2. c.work # DefaultPath
      BY <1>2, WorkFilesAssumption DEF DefaultPath, Id
    <3> QED
      BY <2>1, <3>1, <3>2
  <2>2. CASE c.path # DefaultPath
    <3>1. c.path = c.work
      BY <1>2, <2>2 DEF SpecPath
    <3>2. spec[c.work] \in {NoWork, c.work}
      BY <1>1, <1>2 DEF Contracts
    <3> QED
      BY <3>1, <3>2 DEF Mentions
  <2> QED
    BY <2>1, <2>2
<1>5. ContractsSurvive'
  BY <1>1 DEF Contracts, ContractsSurvive
<1>6. ASSUME NEW q \in Session, proc'[q].phase = "minted"
      PROVE  /\ proc'[q].path \in {DefaultPath, proc'[q].work}
             /\ proc'[q].stale = FALSE =>
                  \/ spec[proc'[q].path] = NoWork
                  \/ Mentions(spec[proc'[q].path], proc'[q].work)
  BY <1>1, <1>3, <1>4, <1>6 DEF Contracts
<1> QED
  BY <1>1, <1>5, <1>6 DEF Contracts

LEMMA ContractsWritten ==
  ASSUME TypeInv, Contracts, NEW s \in Session, WriteSpec(s)
  PROVE  Contracts'
<1> DEFINE i0 == proc[s].work
           p0 == proc[s].path
<1> SUFFICES ASSUME "overtaken" \notin mishap'
             PROVE  /\ \A i \in Id : spec'[i] \in {NoWork, i}
                    /\ \A q \in Session : proc'[q].phase = "minted" =>
                         /\ proc'[q].path \in {DefaultPath, proc'[q].work}
                         /\ proc'[q].stale = FALSE =>
                              \/ spec'[proc'[q].path] = NoWork
                              \/ Mentions(spec'[proc'[q].path], proc'[q].work)
                    /\ ContractsSurvive'
  BY DEF Contracts, Mentions
<1>1. /\ proc[s].phase = "minted" /\ mishap' = mishap \cup Overtaken(s)
      /\ spec' = [spec EXCEPT ![p0] = i0] /\ covered' = covered \cup {i0}
  BY DEF WriteSpec
<1>2. "overtaken" \notin mishap /\ proc[s].stale = FALSE
  <2>1. proc[s].stale \in BOOLEAN
    BY DEF TypeInv, TypeOK, Process
  <2> QED
    BY <1>1, <2>1 DEF Overtaken
<1>3. /\ i0 \in Id /\ p0 \in Path /\ spec \in [Path -> Work] /\ covered \in SUBSET Id
      /\ \A q \in Session : proc[q].path \in Path
  BY <1>1 DEF TypeInv, TypeOK, Working, Process
<1>4. /\ p0 \in {DefaultPath, i0}
      /\ spec[p0] = NoWork \/ Mentions(spec[p0], i0)
      /\ \A i \in Id : spec[i] \in {NoWork, i}
  BY <1>1, <1>2 DEF Contracts
<1>5. spec'[p0] = i0 /\ \A p \in Path \ {p0} : spec'[p] = spec[p]
  BY <1>1, <1>3
<1> HIDE DEF i0, p0
<1>6. Id \subseteq Path /\ NoWork \notin Id /\ DefaultPath = NoWork
  BY WorkFilesAssumption DEF Path, Id, DefaultPath
<1>7. \A i \in Id : spec'[i] \in {NoWork, i}
  BY <1>3, <1>4, <1>5, <1>6
<1>8. ASSUME NEW q \in Session, proc'[q].phase = "minted"
      PROVE  /\ proc'[q].path \in {DefaultPath, proc'[q].work}
             /\ proc'[q].stale = FALSE =>
                  \/ spec'[proc'[q].path] = NoWork
                  \/ Mentions(spec'[proc'[q].path], proc'[q].work)
  <2>1. /\ q # s /\ Same(proc'[q], proc[q])
        /\ proc[q].phase = "minted" /\ proc[q].path = p0 => proc'[q].stale
    BY <1>8, WriteSpecIs DEF p0, Same
  <2>2. /\ proc[q].phase = "minted" /\ proc'[q].path = proc[q].path
        /\ proc'[q].work = proc[q].work /\ proc'[q].stale \in {proc[q].stale, TRUE}
    BY <1>8, <2>1 DEF Same
  <2>3. proc'[q].stale = FALSE => proc[q].path # p0 /\ proc[q].stale = FALSE
    BY <2>1, <2>2
  <2> QED
    BY <1>2, <1>3, <1>5, <2>2, <2>3 DEF Contracts
<1>9. ASSUME NEW i \in covered'
      PROVE  \/ \E p \in Path : spec'[p] = i
             \/ \E j \in covered' : j # i /\ Mentions(i, j)
  <2>1. CASE i = i0
    BY <1>3, <1>5, <2>1
  <2>2. CASE i # i0 /\ \E p \in Path : spec[p] = i
    <3>1. PICK p \in Path : spec[p] = i
      BY <2>2
    <3>2. CASE p # p0
      BY <1>5, <3>1, <3>2
    <3>3. CASE p = p0
      <4>1. i \in Id /\ i # NoWork
        BY <1>1, <1>3, <1>6, <1>9
      <4>2. Mentions(i, i0)
        BY <1>4, <3>1, <3>3, <4>1
      <4> QED
        BY <1>1, <2>2, <4>2
    <3> QED
      BY <3>2, <3>3
  <2>3. CASE i \in covered /\ \E j \in covered : j # i /\ Mentions(i, j)
    BY <1>1, <2>3
  <2> QED
    BY <1>1, <1>2, <1>9, <2>1, <2>2, <2>3 DEF Contracts, ContractsSurvive
<1>10. ContractsSurvive'
  <2>1. \A i, j : Mentions(i, j)' <=> Mentions(i, j)
    BY DEF Mentions
  <2> QED
    BY <1>9, <2>1 DEF ContractsSurvive
<1> QED
  BY <1>7, <1>8, <1>10

LEMMA OneSpares ==
  ASSUME TypeInv, NEW s \in Session, NEW c \in Process, c.phase # "idle" => c.work \in Id,
         Alone(s, c) \/ Rewrites(s, c), c.phase # "minted",
         spec' = spec, covered' = covered, mishap \subseteq mishap'
  PROVE  Spares
<1>1. proc'[s] = c /\ \A q \in Session \ {s} : Same(proc'[q], proc[q])
  BY OneProcess
<1> QED
  BY <1>1 DEF Spares

LEMMA SparesKinds ==
  ASSUME TypeInv, [Next]_vars
  PROVE  Spares \/ \E s \in Session : WriteSpec(s) \/ \E d \in Slug : Bootstrap(s, d)
<1> USE DEF git, counts, history
<1>1. ASSUME UNCHANGED <<proc, spec, covered>>, mishap \subseteq mishap' PROVE Spares
  BY <1>1 DEF Spares, Same
<1>2. ASSUME NEW s \in Session, (\E d \in Slug : NewWork(s, d)) \/ Finish(s)
      PROVE  Spares
  <2>1. spec' = spec /\ covered' = covered /\ mishap \subseteq mishap'
    BY <1>2 DEF NewWork, Finish
  <2>2. PICK c \in Process : /\ Alone(s, c) /\ c.work \in Id
                             /\ c.phase \in {"named", "finishing"}
    BY <1>2, NewWorkIs, FinishIs
  <2> QED
    BY <2>1, <2>2, OneSpares
<1>3. ASSUME NEW s \in Session, Onward(s) PROVE Spares
  <2>1. PICK c \in Process :
          /\ Alone(s, c) \/ Rewrites(s, c)
          /\ proc[s].work \in Id
          /\ \/ c.phase = "idle"
             \/ Edge(proc[s].phase, c.phase) /\ c.work = proc[s].work
    BY <1>3, OnwardIs
  <2>2. c.phase # "minted" /\ (c.phase # "idle" => c.work \in Id)
    BY <2>1 DEF Edge
  <2>3. spec' = spec /\ covered' = covered /\ mishap \subseteq mishap'
    BY <1>3 DEF Onward, BootstrapRead, NewRead, StatusRead, ReadToml, BootstrapOpen,
       NewOpen, StatusOpen, OpenToml, BootstrapWrite, NewWrite, StatusWrite, WriteToml,
       BootstrapIndex, BootstrapActivate, NewSkip, FinishClear, Kill, FinishVerify
  <2> QED
    BY <2>1, <2>2, <2>3, OneSpares
<1>4. ASSUME NEW s \in Session,
             BindRead(s) \/ BindOpen(s) \/ BindWrite(s) \/ RecordReceipt(s)
      PROVE  Spares
  <2>1. spec' = spec /\ covered' = covered /\ mishap \subseteq mishap'
    BY <1>4 DEF BindRead, BindOpen, BindWrite, RecordReceipt
  <2>2. /\ proc'[s].phase = "minted" => Same(proc'[s], proc[s])
        /\ \A q \in Session \ {s} : Same(proc'[q], proc[q])
    BY <1>4, BindIs DEF Same
  <2> QED
    BY <2>1, <2>2 DEF Spares
<1>5. ASSUME NEW s \in Session, Index(s) \/ \E i \in Id : Activate(s, i) \/ Resume(s, i)
      PROVE  Spares
  BY <1>1, <1>5 DEF Index, Activate, Resume
<1>6. ASSUME Commit \/ UNCHANGED vars PROVE Spares
  BY <1>1, <1>6 DEF Commit, vars
<1>7. CASE Next
  <2>1. ASSUME NEW s \in Session
        PROVE  /\ BootstrapRead(s) \/ NewRead(s) \/ StatusRead(s)
                  \/ BootstrapOpen(s) \/ NewOpen(s) \/ StatusOpen(s)
                  \/ BootstrapWrite(s) \/ NewWrite(s) \/ StatusWrite(s)
                  \/ BootstrapIndex(s) \/ BootstrapActivate(s) \/ NewSkip(s)
                  \/ FinishClear(s) \/ Kill(s) => Spares
               /\ (\E pass \in BOOLEAN : FinishVerify(s, pass)) => Spares
    BY <1>3 DEF Onward
  <2> QED
    BY <1>7, <1>2, <1>4, <1>5, <1>6, <2>1, Zenon DEF Next
<1> QED
  BY <1>6, <1>7

(* No bootstrap takes the specification of another work item away, unless  *)
(* the new id is a prefix of the old one or both wrote at once.            *)
THEOREM ContractsStay == Spec => []ContractsSurvive
<1>1. Init => Contracts
  <2> SUFFICES ASSUME Init PROVE Contracts
    OBVIOUS
  <2>1. covered = {} /\ \A s \in Session : proc[s].phase = "idle"
    BY DEF Init, Idle
  <2>2. \A i \in Id : spec[i] = NoWork
    BY DEF Init, Path
  <2> QED
    BY <2>1, <2>2 DEF Contracts, ContractsSurvive
<1>2. TypeInv /\ Contracts /\ [Next]_vars => Contracts'
  BY SparesKinds, ContractsSpared, ContractsChosen, ContractsWritten
<1>3. Contracts => ContractsSurvive
  BY DEF Contracts, ContractsSurvive
<1> QED
  BY <1>1, <1>2, <1>3, TypeAlways, PTL DEF Spec
-----------------------------------------------------------------------------
(* Ids.                                                                    *)

(* Phases of a process that will add an entry.                             *)
Fresh == {"minted", "specified", "entry", "entryOpen", "named", "bare", "bareOpen"}

Sound(t) == t.twice = {} /\ Listed(t) \subseteq added

(* Until anything goes wrong, the index knows every entry but those just   *)
(* written, and nobody is about to write one that is there.                *)
Accounts ==
  mishap = {} =>
    /\ Sound(toml)
    /\ \A s \in Session : proc[s].phase \in Held => Sound(proc[s].toml)
    /\ graph.known \cup graph.live \subseteq added
    /\ \A i \in added : \/ i \in graph.known
                        \/ \E q \in Session : proc[q].phase = "written" /\ proc[q].work = i
    /\ \A s \in Session : sess[s] # NoWork => sess[s] \in added
    /\ \A s \in Session : proc[s].phase \in Fresh =>
         /\ proc[s].work \notin added
         /\ \A q \in Session \ {s} : proc[q].phase \in Fresh => proc[q].work # proc[s].work
    /\ \A s \in Session : proc[s].phase \notin Fresh \cup {"idle"} => proc[s].work \in added

(* How the process q goes on, unless it begins or adds an entry.           *)
Goes(q) ==
  \/ proc'[q].phase = "idle"
  \/ /\ proc'[q].phase # "idle" /\ proc[q].phase # "idle" /\ proc'[q].work = proc[q].work
     /\ proc'[q].phase \in Fresh <=> proc[q].phase \in Fresh
     /\ sess'[q] = sess[q]
  \/ /\ proc'[q].phase = "finishing" /\ proc'[q].work = sess[q] /\ sess[q] # NoWork
     /\ sess'[q] = sess[q]

(* Where the active work of q comes from.                                  *)
Takes(q) ==
  \/ sess'[q] \in {sess[q], NoWork} \cup graph.live
  \/ proc[q].phase = "indexed" /\ sess'[q] = proc[q].work

Stays(q) ==
  proc[q].phase = "written" =>
    \/ proc'[q].phase = "written" /\ proc'[q].work = proc[q].work
    \/ "half" \in mishap'

Calm ==
  /\ toml' \in {toml, Empty} /\ UNCHANGED <<added, graph>>
  /\ \A q \in Session : Stays(q)

Indexed ==
  /\ UNCHANGED <<toml, added>>
  /\ mishap' = {} => \A q \in Session : ~OpenBy(q)
  /\ \/ graph' = FullIndex(graph)
     \/ graph' = Refreshed(graph) /\ \A q \in Session : Stays(q)

Begins(s) ==
  /\ proc[s].phase = "idle"
  /\ UNCHANGED <<toml, added, graph, sess>>
  /\ proc'[s].phase \in {"minted", "named"}
  /\ proc'[s].work \in Id /\ proc'[s].work \notin graph.known
  /\ mishap' = mishap \cup Twin(proc'[s].work)
  /\ \A q \in Session \ {s} : proc'[q] = proc[q]

LEMMA SameGoes ==
  ASSUME NEW q, Same(proc'[q], proc[q]), sess'[q] = sess[q]
  PROVE  Goes(q) /\ Takes(q) /\ Stays(q)
BY DEF Same, Goes, Takes, Stays

LEMMA FreshPhases ==
  /\ "idle" \notin Fresh /\ "written" \notin Fresh /\ "indexed" \notin Fresh
  /\ "entryOpen" \in Fresh /\ "minted" \in Fresh /\ "named" \in Fresh
  /\ "finishing" \notin Fresh
  /\ "written" \notin Held /\ "minted" \notin Held /\ "named" \notin Held
BY DEF Fresh, Held

LEMMA EdgeGoes ==
  ASSUME NEW s \in Session, Edge(proc[s].phase, proc'[s].phase),
         proc'[s].work = proc[s].work, sess'[s] = sess[s], proc'[s].phase # "written"
  PROVE  Goes(s)
BY DEF Edge, Goes, Fresh

(* Onward steps.                                                           *)
LEMMA OnwardGoes ==
  ASSUME TypeInv, NEW s \in Session, Onward(s), ~BootstrapWrite(s)
  PROVE  \A q \in Session : Goes(q) /\ Takes(q)
<1>1. PICK c \in Process :
        /\ Alone(s, c) \/ Rewrites(s, c)
        /\ proc[s].work \in Id
        /\ \/ c.phase = "idle"
           \/ Edge(proc[s].phase, c.phase) /\ c.work = proc[s].work
  BY OnwardIs
<1>2. c.phase # "idle" => c.work \in Id
  BY <1>1
<1>3. proc'[s] = c /\ \A q \in Session \ {s} : Same(proc'[q], proc[q])
  BY <1>1, <1>2, OneProcess
<1>4. \A q \in Session \ {s} : sess'[q] = sess[q]
  BY DEF Onward, BootstrapRead, NewRead, StatusRead, ReadToml, BootstrapOpen,
     NewOpen, StatusOpen, OpenToml, BootstrapWrite, NewWrite, StatusWrite, WriteToml,
     BootstrapIndex, BootstrapActivate, NewSkip, FinishClear, Kill, FinishVerify,
     TypeInv, TypeOK
<1>5. CASE BootstrapActivate(s) \/ FinishClear(s) \/ Kill(s)
  <2>1. Alone(s, Idle) /\ Idle.phase = "idle"
    BY <1>5, OtherTable DEF Idle
  <2>2. proc'[s].phase = "idle"
    BY <2>1, IdleType, OneProcess
  <2>3. \/ sess'[s] \in {sess[s], NoWork}
        \/ proc[s].phase = "indexed" /\ sess'[s] = proc[s].work
    BY <1>5 DEF BootstrapActivate, FinishClear, Kill, TypeInv, TypeOK
  <2> QED
    BY <1>3, <1>4, <2>2, <2>3, SameGoes DEF Goes, Takes
<1>6. CASE ~(BootstrapActivate(s) \/ FinishClear(s) \/ Kill(s))
  <2>1. sess'[s] = sess[s] /\ proc[s].phase # "entryOpen"
    BY <1>6 DEF Onward, BootstrapRead, NewRead, StatusRead, ReadToml, BootstrapOpen,
       NewOpen, StatusOpen, OpenToml, NewWrite, StatusWrite, WriteToml,
       BootstrapIndex, NewSkip, FinishVerify
  <2>2. c.phase # "idle" => Goes(s)
    <3> SUFFICES ASSUME c.phase # "idle" PROVE Goes(s)
      OBVIOUS
    <3>1. Edge(proc[s].phase, c.phase) /\ c.work = proc[s].work
      BY <1>1
    <3>2. c.phase # "written"
      BY <2>1, <3>1 DEF Edge
    <3> QED
      BY <1>3, <2>1, <3>1, <3>2, EdgeGoes
  <2> QED
    BY <1>3, <1>4, <2>1, <2>2, SameGoes DEF Goes, Takes
<1> QED
  BY <1>5, <1>6

LEMMA BindWork ==
  ASSUME TypeInv, NEW s \in Session, BindRead(s) \/ BindOpen(s) \/ BindWrite(s)
  PROVE  proc'[s].work = proc[s].work
<1>1. proc \in [Session -> Process]
  BY DEF TypeInv, TypeOK
<1>2. proc[s] \in Process /\ proc[s].work \in Id
  BY <1>1 DEF BindRead, BindOpen, BindWrite, TypeInv, Working
<1>3. CASE BindRead(s)
  BY <1>1, <1>2, <1>3, FieldsOf DEF BindRead
<1>4. CASE BindOpen(s)
  BY <1>1, <1>2, <1>4, FieldsOf DEF BindOpen, Behind
<1>5. CASE BindWrite(s)
  BY <1>1, <1>2, <1>5, FieldsOf, IdleType DEF BindWrite, Behind
<1> QED
  BY <1>3, <1>4, <1>5

LEMMA GoesKinds ==
  ASSUME TypeInv, [Next]_vars
  PROVE  /\ mishap \subseteq mishap'
         /\ \/ \E s \in Session : Begins(s) \/ BootstrapWrite(s)
            \/ /\ \A q \in Session : Goes(q) /\ Takes(q)
               /\ \/ Calm
                  \/ Indexed
                  \/ \E s \in Session : StatusWrite(s)
                  \/ "loose" \in mishap'
<1> DEFINE All == \A q \in Session : Goes(q) /\ Takes(q)
           Fine == /\ mishap \subseteq mishap'
                   /\ \/ \E s \in Session : Begins(s) \/ BootstrapWrite(s)
                      \/ All /\ (\/ Calm \/ Indexed
                                 \/ \E s \in Session : StatusWrite(s)
                                 \/ "loose" \in mishap')
<1> USE DEF git, counts, history
<1>1. ASSUME UNCHANGED <<proc, sess, added, toml>>, mishap \subseteq mishap'
      PROVE  All /\ \A q \in Session : Stays(q)
  <2>1. \A q \in Session : Same(proc'[q], proc[q]) /\ sess'[q] = sess[q]
    BY <1>1 DEF Same
  <2> QED
    BY <2>1, SameGoes
<1>2. ASSUME NEW s \in Session, NEW d \in Slug, Bootstrap(s, d) \/ NewWork(s, d)
      PROVE  Fine
  <2>1. UNCHANGED <<toml, added, graph, sess>> /\ proc[s].phase = "idle"
    BY <1>2 DEF Bootstrap, NewWork
  <2>2. PICK c \in Process : /\ Alone(s, c) /\ c.phase \in {"minted", "named"}
                             /\ c.work \in Id /\ c.work \notin graph.known
                             /\ mishap' = mishap \cup Twin(c.work)
    BY <1>2, BootstrapIs, NewWorkIs
  <2>3. proc'[s] = c /\ \A q \in Session \ {s} : proc'[q] = proc[q]
    BY <2>2, OneProcess
  <2>4. Begins(s)
    BY <2>1, <2>2, <2>3 DEF Begins
  <2> QED
    BY <2>2, <2>4
<1>3. ASSUME NEW s \in Session, Finish(s) PROVE Fine
  <2>1. UNCHANGED <<toml, added, graph, sess, mishap>> /\ proc[s].phase = "idle" /\ sess[s] # NoWork
    BY <1>3 DEF Finish
  <2>2. PICK c \in Process : /\ Alone(s, c) /\ c.phase = "finishing"
                             /\ c.work \in Id /\ c.work = sess[s]
    BY <1>3, FinishIs
  <2>3. proc'[s] = c /\ \A q \in Session \ {s} : Same(proc'[q], proc[q])
    BY <2>2, OneProcess
  <2>4. Goes(s) /\ Takes(s) /\ Stays(s)
    BY <2>1, <2>2, <2>3 DEF Goes, Takes, Stays
  <2>5. \A q \in Session : Goes(q) /\ Takes(q) /\ Stays(q)
    BY <2>1, <2>3, <2>4, SameGoes
  <2> QED
    BY <2>1, <2>5 DEF Calm
<1>4. ASSUME NEW s \in Session, WriteSpec(s) PROVE Fine
  <2>1. UNCHANGED <<toml, added, graph, sess>> /\ mishap \subseteq mishap' /\ proc[s].phase = "minted"
    BY <1>4 DEF WriteSpec
  <2>2. /\ proc'[s].phase = "specified" /\ proc'[s].work = proc[s].work
        /\ \A q \in Session \ {s} : Same(proc'[q], proc[q])
    <3>1. proc[s] \in Process
      BY DEF TypeInv, TypeOK
    <3>2. proc'[s] = [proc[s] EXCEPT !.phase = "specified", !.stale = FALSE]
      BY <1>4 DEF WriteSpec
    <3> QED
      BY <1>4, <3>1, <3>2, FieldsOf, WriteSpecIs
  <2>3. Goes(s) /\ Takes(s) /\ Stays(s)
    BY <2>1, <2>2 DEF Goes, Takes, Stays, Fresh
  <2>4. \A q \in Session : Goes(q) /\ Takes(q) /\ Stays(q)
    BY <2>1, <2>2, <2>3, SameGoes
  <2> QED
    BY <2>1, <2>4 DEF Calm
<1>5. ASSUME NEW s \in Session,
             BindRead(s) \/ BindOpen(s) \/ BindWrite(s) \/ RecordReceipt(s)
      PROVE  Fine
  <2>1. UNCHANGED <<toml, added, graph, sess>> /\ mishap \subseteq mishap'
    BY <1>5 DEF BindRead, BindOpen, BindWrite, RecordReceipt
  <2>2. \A q \in Session \ {s} : Same(proc'[q], proc[q])
    <3>1. BindRead(s) => \A q \in Session \ {s} : proc'[q] = proc[q]
      BY BindIs
    <3>2. \A q \in Session : Same(proc[q], proc[q])
      BY DEF Same
    <3> QED
      BY <1>5, <3>1, <3>2, BindIs
  <2>3. Goes(s) /\ Stays(s)
    <3>1. CASE RecordReceipt(s)
      <4>1. Same(proc'[s], proc[s])
        BY <3>1, BindIs DEF Same
      <4> QED
        BY <2>1, <4>1, SameGoes
    <3>2. CASE BindRead(s) \/ BindOpen(s) \/ BindWrite(s)
      <4>1. /\ proc[s].phase \in {"closed", "bind", "bindOpen"}
            /\ proc'[s].phase \in {"bind", "bindOpen", "bound"}
        BY <3>2, BindIs DEF BindRead, BindOpen, BindWrite
      <4>2. proc'[s].work = proc[s].work
        BY <3>2, <4>1, BindWork
      <4> QED
        BY <2>1, <4>1, <4>2 DEF Goes, Stays, Fresh
    <3> QED
      BY <1>5, <3>1, <3>2
  <2>4. Takes(s)
    BY <2>1 DEF Takes
  <2>5. \A q \in Session : Goes(q) /\ Takes(q) /\ Stays(q)
    BY <2>1, <2>2, <2>3, <2>4, SameGoes
  <2> QED
    BY <2>1, <2>5 DEF Calm
<1>6. ASSUME NEW s \in Session, Onward(s) PROVE Fine
  <2>1. mishap \subseteq mishap'
    BY <1>6 DEF Onward, BootstrapRead, NewRead, StatusRead, ReadToml, BootstrapOpen,
       NewOpen, StatusOpen, OpenToml, BootstrapWrite, NewWrite, StatusWrite, WriteToml,
       BootstrapIndex, BootstrapActivate, NewSkip, FinishClear, Kill, FinishVerify
  <2>2. CASE BootstrapWrite(s)
    BY <2>1, <2>2
  <2>3. CASE ~BootstrapWrite(s)
    <3>1. All
      BY <1>6, <2>3, OnwardGoes
    <3>2. CASE NewWrite(s)
      BY <2>1, <3>1, <3>2 DEF NewWrite
    <3>3. CASE StatusWrite(s)
      BY <2>1, <3>1, <3>3
    <3>4. \A q \in Session \ {s} : Stays(q)
      <4>1. PICK c \in Process : /\ Alone(s, c) \/ Rewrites(s, c)
                                 /\ c.phase # "idle" => c.work \in Id
        BY <1>6, OnwardIs
      <4> QED
        BY <4>1, OneProcess DEF Stays, Same
    <3>5. CASE BootstrapIndex(s) \/ \E pass \in BOOLEAN : FinishVerify(s, pass)
      <4>1. UNCHANGED <<toml, added>> /\ mishap' = mishap \cup Glimpsed
        BY <3>5 DEF BootstrapIndex, FinishVerify
      <4>2. mishap' = {} => \A q \in Session : ~OpenBy(q)
        BY <4>1 DEF Glimpsed
      <4>3. \/ graph' = FullIndex(graph)
            \/ graph' = Refreshed(graph) /\ proc[s].phase # "written"
        BY <3>5 DEF BootstrapIndex, FinishVerify
      <4>4. Indexed
        BY <3>4, <4>1, <4>2, <4>3 DEF Indexed, Stays
      <4> QED
        BY <2>1, <3>1, <4>4
    <3>6. CASE /\ ~(NewWrite(s) \/ StatusWrite(s) \/ BootstrapIndex(s))
               /\ ~ \E pass \in BOOLEAN : FinishVerify(s, pass)
      <4>1. toml' \in {toml, Empty} /\ UNCHANGED <<added, graph>>
        BY <1>6, <2>3, <3>6 DEF Onward, BootstrapRead, NewRead, StatusRead, ReadToml,
           BootstrapOpen, NewOpen, StatusOpen, OpenToml, BootstrapActivate, NewSkip,
           FinishClear, Kill
      <4>2. Stays(s)
        BY <1>6, <2>3, <3>6 DEF Onward, BootstrapRead, NewRead, StatusRead, ReadToml,
           BootstrapOpen, NewOpen, StatusOpen, OpenToml, BootstrapActivate, NewSkip,
           FinishClear, Kill, Stays
      <4>3. Calm
        BY <3>4, <4>1, <4>2 DEF Calm
      <4> QED
        BY <2>1, <3>1, <4>3
    <3> QED
      BY <3>2, <3>3, <3>5, <3>6
  <2> QED
    BY <2>2, <2>3
<1>7. ASSUME NEW s \in Session, Index(s) PROVE Fine
  <2>1. UNCHANGED <<proc, sess, added, toml>> /\ mishap' = mishap \cup Glimpsed
        /\ graph' = FullIndex(graph)
    BY <1>7 DEF Index
  <2>2. Indexed
    BY <2>1 DEF Indexed, Glimpsed
  <2> QED
    BY <1>1, <2>1, <2>2
<1>8. ASSUME NEW s \in Session, NEW i \in Id, Activate(s, i) \/ Resume(s, i) PROVE Fine
  <2>1. /\ UNCHANGED <<proc, added, toml, graph, mishap>> /\ i \in graph.live
        /\ proc[s].phase = "idle" /\ sess' = [sess EXCEPT ![s] = i]
    BY <1>8 DEF Activate, Resume
  <2>2. sess'[s] \in graph.live /\ \A q \in Session \ {s} : sess'[q] = sess[q]
    BY <2>1 DEF TypeInv, TypeOK
  <2>3. Goes(s) /\ Takes(s) /\ Stays(s)
    BY <2>1, <2>2 DEF Goes, Takes, Stays
  <2>4. \A q \in Session : Same(proc'[q], proc[q])
    BY <2>1 DEF Same
  <2>5. \A q \in Session : Goes(q) /\ Takes(q) /\ Stays(q)
    BY <2>2, <2>3, <2>4, SameGoes
  <2> QED
    BY <2>1, <2>5 DEF Calm
<1>9. ASSUME Commit \/ UNCHANGED vars PROVE Fine
  <2>1. UNCHANGED <<proc, sess, added, toml, graph, mishap>>
    BY <1>9 DEF Commit, vars
  <2> QED
    BY <1>1, <2>1 DEF Calm
<1> HIDE DEF Fine
<1>10. ASSUME Next PROVE Fine
  <2>1. ASSUME NEW s \in Session
        PROVE  /\ BootstrapRead(s) \/ NewRead(s) \/ StatusRead(s)
                  \/ BootstrapOpen(s) \/ NewOpen(s) \/ StatusOpen(s)
                  \/ BootstrapWrite(s) \/ NewWrite(s) \/ StatusWrite(s)
                  \/ BootstrapIndex(s) \/ BootstrapActivate(s) \/ NewSkip(s)
                  \/ FinishClear(s) \/ Kill(s) => Fine
               /\ (\E pass \in BOOLEAN : FinishVerify(s, pass)) => Fine
    BY <1>6 DEF Onward
  <2> QED
    BY <1>10, <1>2, <1>3, <1>4, <1>5, <1>7, <1>8, <1>9, <2>1, Zenon DEF Next
<1>11. Fine
  BY <1>9, <1>10
<1> QED
  BY <1>11 DEF Fine

(* A copy of work.toml comes from the file or from itself.                 *)
LEMMA CopiesFrom ==
  ASSUME TypeInv, [Next]_vars, NEW q \in Session, proc'[q].phase \in Held
  PROVE  \/ proc'[q].toml = toml
         \/ proc[q].phase \in Held /\ proc'[q].toml = proc[q].toml
<1>1. CASE Quiet
  BY <1>1 DEF Quiet
<1>2. ASSUME NEW s \in Session, TookCopy(s) \/ Opened(s) \/ Wrote(s)
      PROVE  \/ proc'[q].toml = toml
             \/ proc[q].phase \in Held /\ proc'[q].toml = proc[q].toml
  <2>1. CASE q = s
    BY <1>2, <2>1 DEF TookCopy, Opened, Wrote
  <2>2. CASE q # s
    BY <1>2, <2>2 DEF TookCopy, Opened, Wrote, Outdates, Same
  <2> QED
    BY <2>1, <2>2
<1> QED
  BY <1>1, <1>2, StepKinds

LEMMA AccountsMoved ==
  ASSUME TypeInv, Accounts, [Next]_vars, mishap \subseteq mishap',
         \A q \in Session : Goes(q) /\ Takes(q),
         mishap' = {} =>
           /\ added' = added /\ Sound(toml')
           /\ graph'.known \cup graph'.live \subseteq added
           /\ \A i \in added :
                \/ i \in graph'.known
                \/ \E q \in Session : proc'[q].phase = "written" /\ proc'[q].work = i
  PROVE  Accounts'
<1> SUFFICES ASSUME mishap' = {}
             PROVE  /\ Sound(toml')
                    /\ \A s \in Session : proc'[s].phase \in Held => Sound(proc'[s].toml)
                    /\ \A s \in Session : sess'[s] # NoWork => sess'[s] \in added
                    /\ \A s \in Session : proc'[s].phase \in Fresh =>
                         /\ proc'[s].work \notin added
                         /\ \A q \in Session \ {s} :
                              proc'[q].phase \in Fresh => proc'[q].work # proc'[s].work
                    /\ \A s \in Session :
                         proc'[s].phase \notin Fresh \cup {"idle"} => proc'[s].work \in added
  BY DEF Accounts, Sound, Listed
<1>1. mishap = {}
  OBVIOUS
<1>2. \A s \in Session : proc'[s].phase \in Held => Sound(proc'[s].toml)
  BY <1>1, CopiesFrom DEF Accounts
<1>3. ASSUME NEW s \in Session, sess'[s] # NoWork PROVE sess'[s] \in added
  <2>1. Takes(s)
    OBVIOUS
  <2>2. CASE sess'[s] \in {sess[s], NoWork} \cup graph.live
    BY <1>1, <1>3, <2>2 DEF Accounts
  <2>3. CASE proc[s].phase = "indexed" /\ sess'[s] = proc[s].work
    BY <1>1, <2>3, FreshPhases DEF Accounts
  <2> QED
    BY <2>1, <2>2, <2>3 DEF Takes
<1>4. \A s \in Session : proc'[s].phase \in Fresh =>
        proc[s].phase \in Fresh /\ proc'[s].work = proc[s].work
  BY FreshPhases DEF Goes
<1>5. \A s \in Session : proc'[s].phase \in Fresh =>
        /\ proc'[s].work \notin added
        /\ \A q \in Session \ {s} : proc'[q].phase \in Fresh => proc'[q].work # proc'[s].work
  BY <1>1, <1>4 DEF Accounts
<1>6. ASSUME NEW s \in Session, proc'[s].phase \notin Fresh \cup {"idle"}
      PROVE  proc'[s].work \in added
  <2>1. Goes(s)
    OBVIOUS
  <2>2. CASE proc'[s].work = sess[s] /\ sess[s] # NoWork
    BY <1>1, <2>2 DEF Accounts
  <2>3. CASE proc[s].phase \notin Fresh \cup {"idle"} /\ proc'[s].work = proc[s].work
    BY <1>1, <2>3 DEF Accounts
  <2> QED
    BY <1>6, <2>1, <2>2, <2>3 DEF Goes
<1> QED
  BY <1>2, <1>3, <1>5, <1>6

LEMMA AccountsCalm ==
  ASSUME TypeInv, Accounts, [Next]_vars, mishap \subseteq mishap',
         \A q \in Session : Goes(q) /\ Takes(q), Calm
  PROVE  Accounts'
<1>1. Sound(Empty)
  BY DEF Sound, Empty, Listed
<1>2. mishap' = {} =>
        /\ added' = added /\ Sound(toml')
        /\ graph'.known \cup graph'.live \subseteq added
        /\ \A i \in added :
             \/ i \in graph'.known
             \/ \E q \in Session : proc'[q].phase = "written" /\ proc'[q].work = i
  BY <1>1 DEF Calm, Stays, Accounts
<1> QED
  BY <1>2, AccountsMoved

(* What an index makes of a file that says all there is.                   *)
LEMMA IndexIs ==
  ASSUME TypeInv, NEW A, Declared(toml) = A, graph.known \cup graph.live \subseteq A
  PROVE  /\ FullIndex(graph).known = A /\ FullIndex(graph).live = A
         /\ Refreshed(graph).known \in {A, graph.known}
         /\ Refreshed(graph).live \subseteq A
<1>1. FullIndex(graph).known = A /\ FullIndex(graph).live = A
  BY DEF FullIndex
<1>2. ASSUME NEW g, g.known \cup g.live \subseteq A
      PROVE  ChangedIndex(g).known \in {A, g.known} /\ ChangedIndex(g).live \subseteq A
  <2>1. CASE Changed = {}
    BY <1>2, <2>1 DEF ChangedIndex
  <2>2. CASE Changed # {}
    <3> DEFINE k == IF "work.toml" \in Changed THEN g.live ELSE g.known
               l == IF "work.toml" \in Changed THEN {} ELSE g.live
    <3>1. ChangedIndex(g).known = k \cup A /\ ChangedIndex(g).live = l \cup A
      BY <2>2 DEF ChangedIndex
    <3> QED
      BY <1>2, <3>1
  <2> QED
    BY <2>1, <2>2
<1>3. /\ ChangedIndex(graph).known \in {A, graph.known}
      /\ ChangedIndex(graph).live \subseteq A
      /\ ChangedIndex(FullIndex(graph)).known = A
      /\ ChangedIndex(FullIndex(graph)).live \subseteq A
  BY <1>1, <1>2
<1> QED
  BY <1>1, <1>3 DEF Refreshed

LEMMA AccountsIndexed ==
  ASSUME TypeInv, Copies, Accounts, [Next]_vars, mishap \subseteq mishap',
         \A q \in Session : Goes(q) /\ Takes(q), Indexed
  PROVE  Accounts'
<1>1. ASSUME mishap' = {}
      PROVE  /\ added' = added /\ Sound(toml')
             /\ graph'.known \cup graph'.live \subseteq added
             /\ \A i \in added :
                  \/ i \in graph'.known
                  \/ \E q \in Session : proc'[q].phase = "written" /\ proc'[q].work = i
  <2>1. mishap = {} /\ Clean /\ UNCHANGED <<toml, added>> /\ \A q \in Session : ~OpenBy(q)
    BY <1>1 DEF Clean, Indexed
  <2>2. added \subseteq Listed(toml) /\ Sound(toml)
    BY <2>1 DEF Copies, Says, Accounts
  <2>3. Declared(toml) = added
    BY <2>2 DEF Declared, Parses, Sound
  <2>4. graph.known \cup graph.live \subseteq added
    BY <2>1 DEF Accounts
  <2>5. /\ FullIndex(graph).known = added /\ FullIndex(graph).live = added
        /\ Refreshed(graph).known \in {added, graph.known}
        /\ Refreshed(graph).live \subseteq added
    BY <2>3, <2>4, IndexIs
  <2>6. graph'.known \cup graph'.live \subseteq added
    BY <2>4, <2>5 DEF Indexed
  <2>7. \A i \in added :
          \/ i \in graph'.known
          \/ \E q \in Session : proc'[q].phase = "written" /\ proc'[q].work = i
    <3>1. CASE graph'.known = added
      BY <3>1
    <3>2. CASE graph'.known = graph.known /\ \A q \in Session : Stays(q)
      BY <1>1, <2>1, <3>2 DEF Stays, Accounts
    <3> QED
      BY <2>5, <3>1, <3>2 DEF Indexed
  <2>8. Sound(toml')
    BY <2>1, <2>2
  <2> QED
    BY <2>1, <2>6, <2>7, <2>8
<1> QED
  BY <1>1, AccountsMoved

LEMMA AccountsClosed ==
  ASSUME TypeInv, Accounts, [Next]_vars, mishap \subseteq mishap',
         \A q \in Session : Goes(q) /\ Takes(q), NEW s \in Session, StatusWrite(s)
  PROVE  Accounts'
<1>1. /\ proc[s].phase = "statusOpen" /\ toml' = Closed(proc[s].toml, proc[s].work)
      /\ added' = added \cup {proc[s].work} /\ graph' = graph
  BY DEF StatusWrite, WriteToml
<1>2. proc[s].toml \in Toml /\ proc[s].work \in Id
  BY <1>1 DEF TypeInv, TypeOK, Working, Process
<1>3. ASSUME mishap' = {}
      PROVE  /\ added' = added /\ Sound(toml')
             /\ graph'.known \cup graph'.live \subseteq added
             /\ \A i \in added :
                  \/ i \in graph'.known
                  \/ \E q \in Session : proc'[q].phase = "written" /\ proc'[q].work = i
  <2>1. mishap = {}
    BY <1>3
  <2>2. proc[s].phase \in Held /\ proc[s].phase \notin Fresh \cup {"idle"}
    BY <1>1 DEF Held, Fresh
  <2>3. proc[s].work \in added /\ Sound(proc[s].toml)
    BY <2>1, <2>2 DEF Accounts
  <2>4. Sound(toml')
    BY <1>1, <1>2, <2>3 DEF Sound, Closed, Listed, Toml
  <2>5. \A q \in Session : proc[q].phase = "written" =>
          proc'[q].phase = "written" /\ proc'[q].work = proc[q].work
    <3> SUFFICES ASSUME NEW q \in Session, proc[q].phase = "written"
                 PROVE  proc'[q].phase = "written" /\ proc'[q].work = proc[q].work
      OBVIOUS
    <3>1. q # s
      BY <1>1
    <3>2. PICK c \in Process : Rewrites(s, c) /\ (c.phase # "idle" => c.work \in Id)
      <4>1. /\ New("closed", proc[s].work) \in Process
            /\ New("closed", proc[s].work).work = proc[s].work
        BY <1>2, NewOf
      <4> QED
        BY <1>2, <4>1, WriteTable
    <3>3. Same(proc'[q], proc[q])
      BY <3>1, <3>2, OneProcess
    <3> QED
      BY <3>3 DEF Same
  <2> QED
    BY <1>1, <2>1, <2>3, <2>4, <2>5 DEF Accounts
<1> QED
  BY <1>3, AccountsMoved

LEMMA AccountsBegun ==
  ASSUME TypeInv, Accounts, NEW s \in Session, Begins(s)
  PROVE  Accounts'
<1> DEFINE w == proc'[s].work
<1> SUFFICES ASSUME mishap' = {}
             PROVE  /\ \A q \in Session : proc'[q].phase \in Held => Sound(proc'[q].toml)
                    /\ \A i \in added :
                         \/ i \in graph.known
                         \/ \E q \in Session : proc'[q].phase = "written" /\ proc'[q].work = i
                    /\ \A q \in Session : proc'[q].phase \in Fresh =>
                         /\ proc'[q].work \notin added
                         /\ \A r \in Session \ {q} :
                              proc'[r].phase \in Fresh => proc'[r].work # proc'[q].work
                    /\ \A q \in Session :
                         proc'[q].phase \notin Fresh \cup {"idle"} => proc'[q].work \in added
  BY DEF Accounts, Sound, Listed, Begins
<1>1. mishap = {} /\ Twin(w) = {}
  BY DEF Begins
<1>2. \A q \in Session : proc[q].phase # "idle" => proc[q].work # w
  BY <1>1 DEF Twin
<1>3. /\ w \notin graph.known /\ proc'[s].phase \in {"minted", "named"}
      /\ \A q \in Session \ {s} : proc'[q] = proc[q]
  BY DEF Begins
<1>4. proc[s].phase # "written"
  BY DEF Begins
<1>5. w \notin added
  BY <1>1, <1>2, <1>3 DEF Accounts
<1>6. proc'[s].phase \in Fresh /\ proc'[s].phase \notin Held /\ "idle" \notin Fresh
  BY <1>3, FreshPhases
<1>7. \A q \in Session : proc'[q].phase \in Held => Sound(proc'[q].toml)
  BY <1>1, <1>3, <1>6 DEF Accounts
<1>8. \A i \in added :
        \/ i \in graph.known
        \/ \E q \in Session : proc'[q].phase = "written" /\ proc'[q].work = i
  BY <1>1, <1>3, <1>4 DEF Accounts
<1>9. \A q \in Session \ {s} : proc'[q].phase \in Fresh => proc'[q].work # w
  BY <1>2, <1>3, <1>6
<1> HIDE DEF w
<1>10. \A q \in Session : proc'[q].phase \in Fresh =>
         /\ proc'[q].work \notin added
         /\ \A r \in Session \ {q} : proc'[r].phase \in Fresh => proc'[r].work # proc'[q].work
  <2>1. proc'[s].work = w
    BY DEF w
  <2> QED
    BY <1>1, <1>3, <1>5, <1>9, <2>1 DEF Accounts
<1>11. \A q \in Session :
         proc'[q].phase \notin Fresh \cup {"idle"} => proc'[q].work \in added
  BY <1>1, <1>3, <1>6 DEF Accounts
<1> QED
  BY <1>7, <1>8, <1>10, <1>11

LEMMA AccountsWritten ==
  ASSUME TypeInv, Accounts, [Next]_vars, NEW s \in Session, BootstrapWrite(s)
  PROVE  Accounts'
<1> DEFINE w == proc[s].work
           t == proc[s].toml
<1>1. /\ proc[s].phase = "entryOpen" /\ toml' = Appended(t, w, "active")
      /\ added' = added \cup {w} /\ UNCHANGED <<graph, sess>>
      /\ mishap \subseteq mishap'
  BY DEF BootstrapWrite, WriteToml
<1>2. w \in Id /\ t \in Toml
  BY <1>1 DEF TypeInv, TypeOK, Working, Process
<1>3. /\ proc'[s].phase = "written" /\ proc'[s].work = w
      /\ \A q \in Session \ {s} : Same(proc'[q], proc[q])
  <2>1. /\ New("written", w) \in Process /\ New("written", w).work = w
        /\ New("written", w).phase = "written"
    BY <1>2, NewOf
  <2>2. Rewrites(s, New("written", w))
    BY WriteTable
  <2> QED
    BY <1>2, <2>1, <2>2, OneProcess
<1>4. proc[s].phase \in Held /\ proc[s].phase \in Fresh
  BY <1>1 DEF Held, Fresh
<1>5. \A q \in Session \ {s} : /\ proc'[q].phase = proc[q].phase
                               /\ proc'[q].work = proc[q].work
                               /\ proc'[q].toml = proc[q].toml
  BY <1>3 DEF Same
<1> HIDE DEF w, t
<1> SUFFICES ASSUME mishap' = {} PROVE Accounts'
  BY DEF Accounts
<1>6. /\ mishap = {} /\ w \notin added /\ t.twice = {} /\ Listed(t) \subseteq added
      /\ \A q \in Session \ {s} : proc[q].phase \in Fresh => proc[q].work # w
  BY <1>1, <1>4 DEF Accounts, Sound, w, t
<1>7. toml'.twice = {} /\ Listed(toml') \subseteq added'
  BY <1>1, <1>2, <1>6 DEF Appended, Listed, Toml
<1>8. \A q \in Session : proc'[q].phase \in Held =>
        proc'[q].toml.twice = {} /\ Listed(proc'[q].toml) \subseteq added'
  BY <1>1, <1>3, <1>5, <1>6, FreshPhases DEF Accounts, Sound
<1>9. graph'.known \cup graph'.live \subseteq added'
  BY <1>1, <1>6 DEF Accounts
<1>10. \A i \in added' :
         \/ i \in graph'.known
         \/ \E q \in Session : proc'[q].phase = "written" /\ proc'[q].work = i
  <2> SUFFICES ASSUME NEW i \in added', i # w
               PROVE  \/ i \in graph'.known
                      \/ \E q \in Session : proc'[q].phase = "written" /\ proc'[q].work = i
    BY <1>3
  <2>1. i \in added
    BY <1>1
  <2>2. CASE i \in graph.known
    BY <1>1, <2>2
  <2>3. ASSUME NEW q \in Session, proc[q].phase = "written", proc[q].work = i
        PROVE  proc'[q].phase = "written" /\ proc'[q].work = i
    BY <1>1, <1>5, <2>3
  <2> QED
    BY <1>6, <2>1, <2>2, <2>3 DEF Accounts
<1>11. \A q \in Session : sess'[q] # NoWork => sess'[q] \in added'
  BY <1>1, <1>6 DEF Accounts
<1>12. \A q \in Session : proc'[q].phase \in Fresh =>
         /\ proc'[q].work \notin added'
         /\ \A r \in Session \ {q} : proc'[r].phase \in Fresh => proc'[r].work # proc'[q].work
  BY <1>1, <1>3, <1>5, <1>6, FreshPhases DEF Accounts
<1>13. \A q \in Session : proc'[q].phase \notin Fresh \cup {"idle"} => proc'[q].work \in added'
  BY <1>1, <1>3, <1>5, <1>6 DEF Accounts
<1> QED
  BY <1>7, <1>8, <1>9, <1>10, <1>11, <1>12, <1>13 DEF Accounts, Sound, Listed

LEMMA AccountsAlways == Spec => [](TypeInv /\ Copies /\ Accounts)
<1>1. Init => Accounts
  <2> SUFFICES ASSUME Init PROVE Accounts
    OBVIOUS
  <2>1. \A s \in Session : proc[s].phase = "idle"
    BY DEF Init, Idle
  <2>2. /\ added = {} /\ Sound(toml) /\ graph.known \cup graph.live = {}
        /\ \A s \in Session : sess[s] = NoWork
    BY DEF Init, Sound, Empty, Listed
  <2>3. "idle" \notin Held /\ "idle" \notin Fresh
    BY DEF Held, Fresh
  <2> QED
    BY <2>1, <2>2, <2>3 DEF Accounts
<1>2. TypeInv /\ Copies /\ Accounts /\ [Next]_vars => Accounts'
  <2> SUFFICES ASSUME TypeInv, Copies, Accounts, [Next]_vars PROVE Accounts'
    OBVIOUS
  <2>1. "loose" \in mishap' => Accounts'
    BY DEF Accounts
  <2> QED
    BY <2>1, GoesKinds, AccountsBegun, AccountsWritten, AccountsCalm, AccountsIndexed,
       AccountsClosed
<1> QED
  BY <1>1, <1>2, CopiesAlways, PTL DEF Spec

(* work.toml stays readable, whoever overlaps, finishes or dies, as long   *)
(* as none of the named mishaps happens.                                   *)
THEOREM EntriesStayUnique == Spec => []EntriesAreUnique
<1>1. Accounts => EntriesAreUnique
  BY DEF Accounts, Sound, EntriesAreUnique, Parses
<1> QED
  BY <1>1, AccountsAlways, PTL

(* A prompt takes up a finished work item only if its block has no status  *)
(* line, or if work.toml tells nothing when the prompt reads it.           *)
THEOREM FinishedStaysDone == Spec => FinishedIsDone
<1> DEFINE Told ==
      \A s \in Session, i \in finished :
        Resume(s, i) /\ sess[s] # i =>
          \/ toml.status[i] = "none"
          \/ ~ Parses(toml)
          \/ \E q \in Session : OpenBy(q)
          \/ ~ Clean
<1>1. TypeInv /\ Copies => Told
  <2> SUFFICES ASSUME TypeInv, Copies, NEW s \in Session, NEW i \in finished,
                      Resume(s, i), sess[s] # i, Parses(toml), Clean,
                      \A q \in Session : ~OpenBy(q)
               PROVE  toml.status[i] = "none"
    OBVIOUS
  <2>1. toml.status[i] \in {"done", "none"} /\ i \in Id
    BY DEF Copies, Says, Over, TypeInv, TypeOK
  <2>2. i \notin KnownDone(toml)
    BY DEF Resume, Resumable
  <2> QED
    BY <2>1, <2>2 DEF KnownDone, Declared, Listed
<1>2. TypeInv /\ Copies /\ [Next]_vars => [Told]_vars
  BY <1>1
<1> QED
  BY <1>2, CopiesAlways, PTL DEF Spec, FinishedIsDone

-----------------------------------------------------------------------------
(* The files implement the ledger.                                         *)

LEMMA LedgerIs ==
  /\ (\A s \in Session : ~OpenBy(s)) => Ledger = toml.status
  /\ \A s \in Session :
       OpenBy(s) /\ (\A q \in Session \ {s} : ~OpenBy(q)) => Ledger = proc[s].toml.status
  /\ (\A s \in Session : ~OpenBy(s)') => Ledger' = toml'.status
  /\ \A s \in Session :
       OpenBy(s)' /\ (\A q \in Session \ {s} : ~OpenBy(q)') => Ledger' = proc'[s].toml.status
<1>1. (\A s \in Session : ~OpenBy(s)) => Ledger = toml.status
  BY DEF Ledger
<1>2. (\A s \in Session : ~OpenBy(s)') => Ledger' = toml'.status
  BY DEF Ledger
<1>3. ASSUME NEW s \in Session, OpenBy(s), \A q \in Session \ {s} : ~OpenBy(q)
      PROVE  Ledger = proc[s].toml.status
  <2>1. (CHOOSE q \in Session : OpenBy(q)) = s
    BY <1>3
  <2> QED
    BY <1>3, <2>1 DEF Ledger
<1>4. ASSUME NEW s \in Session, OpenBy(s)', \A q \in Session \ {s} : ~OpenBy(q)'
      PROVE  Ledger' = proc'[s].toml.status
  <2>1. (CHOOSE q \in Session : OpenBy(q)') = s
    BY <1>4
  <2> QED
    BY <1>4, <2>1 DEF Ledger
<1> QED
  BY <1>1, <1>2, <1>3, <1>4

LEMMA LoggedIs ==
  /\ (\A s \in Session : proc[s].phase # "bindOpen") => Logged = log
  /\ \A s \in Session :
       /\ proc[s].phase = "bindOpen"
       /\ \A q \in Session \ {s} : proc[q].phase # "bindOpen"
       => Logged = log \cup proc[s].log
  /\ (\A s \in Session : proc'[s].phase # "bindOpen") => Logged' = log'
  /\ \A s \in Session :
       /\ proc'[s].phase = "bindOpen"
       /\ \A q \in Session \ {s} : proc'[q].phase # "bindOpen"
       => Logged' = log' \cup proc'[s].log
BY DEF Logged

(* A step that keeps the open files and their copies keeps the ledger.     *)
LEMMA LedgerKept ==
  ASSUME toml' = toml,
         \A q \in Session : OpenBy(q)' <=> OpenBy(q),
         \A q \in Session : OpenBy(q) => proc'[q].toml = proc[q].toml,
         Copies, Clean
  PROVE  Ledger' = Ledger
<1>1. CASE \A s \in Session : ~OpenBy(s)
  BY <1>1, LedgerIs
<1>2. CASE \E s \in Session : OpenBy(s)
  <2>1. PICK s \in Session : OpenBy(s)
    BY <1>2
  <2>2. \A q \in Session \ {s} : ~OpenBy(q)
    BY <2>1, PhaseSets DEF Copies, Exclusive, OpenBy
  <2> QED
    BY <2>1, <2>2, LedgerIs
<1> QED
  BY <1>1, <1>2

(* Each copy that is up to date says what the ledger says.                 *)
Current ==
  Clean => \A s \in Session :
    proc[s].phase \in Held /\ proc[s].stale = FALSE => proc[s].toml.status = Ledger

(* What a step may do to the ledger's statuses.                            *)
Enters(a, b) ==
  \/ b = a
  \/ \E i \in Id :
       \/ a[i] = "absent" /\ \E st \in {"active", "none"} : b = [a EXCEPT ![i] = st]
       \/ a[i] \in {"absent", "active"} /\ b = [a EXCEPT ![i] = "done"]

LEMMA BlocksEnter ==
  ASSUME NEW t \in Toml, NEW i \in Id
  PROVE  /\ \A st \in {"active", "none"} : Enters(t.status, Appended(t, i, st).status)
         /\ Enters(t.status, Closed(t, i).status)
<1>1. t.status \in [Id -> Status]
  BY DEF Toml
<1>2. ASSUME NEW st \in {"active", "none"}
      PROVE  Enters(t.status, Appended(t, i, st).status)
  <2>1. CASE t.status[i] = "absent"
    <3>1. Appended(t, i, st).status = [t.status EXCEPT ![i] = st]
      BY <2>1 DEF Appended, Toml
    <3> QED
      BY <2>1, <3>1 DEF Enters
  <2>2. CASE t.status[i] # "absent"
    <3>1. Appended(t, i, st).status = t.status
      BY <2>2 DEF Appended, Toml
    <3> QED
      BY <3>1 DEF Enters
  <2> QED
    BY <2>1, <2>2
<1>3. Enters(t.status, Closed(t, i).status)
  <2>1. CASE t.status[i] = "none"
    BY <2>1 DEF Closed, Enters
  <2>2. CASE t.status[i] = "done"
    <3>1. Closed(t, i).status = [t.status EXCEPT ![i] = "done"]
      BY <2>2 DEF Closed, Toml
    <3>2. [t.status EXCEPT ![i] = "done"] = t.status
      BY <1>1, <2>2
    <3> QED
      BY <3>1, <3>2 DEF Enters
  <2>3. CASE t.status[i] \in {"absent", "active"}
    <3>1. Closed(t, i).status = [t.status EXCEPT ![i] = "done"]
      BY <2>3 DEF Closed, Toml
    <3> QED
      BY <2>3, <3>1 DEF Enters
  <2> QED
    BY <1>1, <2>1, <2>2, <2>3 DEF Status
<1> QED
  BY <1>2, <1>3

(* A step keeps the copies current and enters at most one change.          *)
LEMMA LedgerSteps ==
  ASSUME TypeInv, Copies, Current, [Next]_vars, Clean'
  PROVE  Clean /\ Current' /\ Enters(Ledger, Ledger')
<1>1. ASSUME Quiet PROVE Clean /\ Current' /\ Ledger' = Ledger
  <2>1. Clean /\ "torn" \notin mishap'
    BY <1>1 DEF Clean, Quiet
  <2>2. /\ toml' = toml
        /\ \A q \in Session : /\ proc'[q].phase \in Held => proc'[q] = proc[q]
                              /\ OpenBy(q) => proc'[q] = proc[q]
    BY <1>1, <2>1 DEF Quiet
  <2>3. \A q \in Session : OpenBy(q)' <=> OpenBy(q)
    BY <2>2, PhaseSets DEF OpenBy
  <2>4. Ledger' = Ledger
    BY <2>1, <2>2, <2>3, LedgerKept
  <2> QED
    BY <2>1, <2>2, <2>4 DEF Current
<1>2. ASSUME NEW s \in Session, TookCopy(s) PROVE Clean /\ Current' /\ Ledger' = Ledger
  <2>1. Clean
    BY <1>2 DEF Clean, TookCopy
  <2>2. /\ toml' = toml /\ proc'[s].toml = toml /\ ~OpenBy(s) /\ ~OpenBy(s)'
        /\ \A q \in Session \ {s} : proc'[q] = proc[q]
    BY <1>2 DEF TookCopy, OpenBy, OpenPhase
  <2>3. \A q \in Session : /\ OpenBy(q)' <=> OpenBy(q)
                           /\ OpenBy(q) => proc'[q].toml = proc[q].toml
    BY <2>2 DEF OpenBy
  <2>4. Ledger' = Ledger
    BY <2>1, <2>2, <2>3, LedgerKept
  <2>5. (\E q \in Session : OpenBy(q)) => proc'[s].stale = TRUE
    BY <1>2 DEF TookCopy
  <2>6. (\A q \in Session : ~OpenBy(q)) => proc'[s].toml.status = Ledger
    BY <2>2, LedgerIs
  <2> QED
    BY <2>1, <2>2, <2>4, <2>5, <2>6 DEF Current
<1>3. ASSUME NEW s \in Session, Opened(s) PROVE Clean /\ Current' /\ Ledger' = Ledger
  <2>1. /\ Clean /\ proc[s].stale = FALSE
        /\ \A q \in Session \ {s} : /\ ~OpenBy(q)'
                                    /\ proc'[q].phase \in Held => proc'[q].stale = TRUE
    BY <1>3, RewriterIsFresh
  <2>2. proc[s].phase \in Held /\ proc'[s].toml = proc[s].toml /\ OpenBy(s)'
    BY <1>3 DEF Opened, OpenBy
  <2>3. Ledger = proc[s].toml.status
    BY <2>1, <2>2 DEF Current
  <2>4. Ledger' = proc[s].toml.status
    BY <2>1, <2>2, LedgerIs
  <2> QED
    BY <2>1, <2>2, <2>3, <2>4 DEF Current
<1>4. ASSUME NEW s \in Session, Wrote(s) PROVE Clean /\ Current' /\ Enters(Ledger, Ledger')
  <2>1. /\ Clean
        /\ \A q \in Session \ {s} : /\ ~OpenBy(q) /\ ~OpenBy(q)'
                                    /\ proc'[q].phase \in Held => proc'[q].stale = TRUE
    BY <1>4, RewriterIsFresh
  <2>2. OpenBy(s) /\ proc'[s].phase \notin Held /\ ~OpenBy(s)'
    BY <1>4, PhaseSets DEF Wrote, OpenBy
  <2>3. Ledger = proc[s].toml.status /\ Ledger' = toml'.status
    BY <2>1, <2>2, LedgerIs
  <2>4. proc[s].toml \in Toml /\ proc[s].work \in Id
    BY <2>2 DEF TypeInv, TypeOK, Process, Working, OpenBy, OpenPhase
  <2>5. \/ \E st \in {"active", "none"} : toml' = Appended(proc[s].toml, proc[s].work, st)
        \/ toml' = Closed(proc[s].toml, proc[s].work)
    BY <1>4 DEF Wrote
  <2>6. Enters(proc[s].toml.status, toml'.status)
    BY <2>4, <2>5, BlocksEnter
  <2> QED
    BY <2>1, <2>2, <2>3, <2>6 DEF Current
<1>5. Ledger' = Ledger => Enters(Ledger, Ledger')
  BY DEF Enters
<1> QED
  BY <1>1, <1>2, <1>3, <1>4, <1>5, StepKinds

(* The receipts of work i with commit c, as the ledger moves them.         *)
Moved(R, i, c) == {IF r.work = i THEN [r EXCEPT !.commit = c] ELSE r : r \in R}

(* Receipts of the log and of its copies are numbered up to w and bound up *)
(* to the commit h.                                                        *)
Old(R, w, h) == \A r \in R : r.n <= w /\ r.commit <= h
Dated ==
  /\ Old(log, written, head)
  /\ \A s \in Session : proc[s].phase \in Binding => Old(proc[s].log, written, head)

(* A copy that is up to date has moved the receipts of its work item; the  *)
(* file is empty while it is written.                                      *)
Rebound ==
  /\ Dated
  /\ Clean => \A s \in Session : proc[s].stale = FALSE =>
       /\ proc[s].phase = "bind" =>
            \E c \in 0 .. head :
              /\ proc[s].log = Moved(log, proc[s].work, c)
              /\ \A r \in log : r.work = proc[s].work => r.commit <= c
       /\ proc[s].phase = "bindOpen" => log = {}

LEMMA HeadGrows == ASSUME TypeInv, [Next]_vars PROVE head' \in Nat /\ head' >= head
<1>1. head \in Nat
  BY WorkFilesAssumption DEF TypeInv, TypeOK
<1>2. head' = head \/ Commit
  <2>1. ASSUME NEW s \in Session, Onward(s) PROVE head' = head
    BY <2>1 DEF Onward, BootstrapRead, NewRead, StatusRead, ReadToml, BootstrapOpen,
       NewOpen, StatusOpen, OpenToml, BootstrapWrite, NewWrite, StatusWrite, WriteToml,
       BootstrapIndex, BootstrapActivate, NewSkip, FinishClear, Kill, FinishVerify, git
  <2>2. ASSUME NEW s \in Session,
               \/ \E d \in Slug : Bootstrap(s, d) \/ NewWork(s, d)
               \/ WriteSpec(s) \/ Finish(s) \/ Index(s)
               \/ \E i \in Id : Activate(s, i) \/ Resume(s, i)
               \/ RecordReceipt(s) \/ BindRead(s) \/ BindOpen(s) \/ BindWrite(s)
        PROVE  head' = head
    BY <2>2 DEF Bootstrap, NewWork, WriteSpec, Finish, Index, Activate, Resume,
       RecordReceipt, BindRead, BindOpen, BindWrite, git
  <2>3. ASSUME NEW s \in Session
        PROVE  /\ BootstrapRead(s) \/ NewRead(s) \/ StatusRead(s)
                  \/ BootstrapOpen(s) \/ NewOpen(s) \/ StatusOpen(s)
                  \/ BootstrapWrite(s) \/ NewWrite(s) \/ StatusWrite(s)
                  \/ BootstrapIndex(s) \/ BootstrapActivate(s) \/ NewSkip(s)
                  \/ FinishClear(s) \/ Kill(s) => head' = head
               /\ (\E pass \in BOOLEAN : FinishVerify(s, pass)) => head' = head
    BY <2>1 DEF Onward
  <2>4. UNCHANGED vars => head' = head
    BY DEF vars, git
  <2> QED
    BY <2>2, <2>3, <2>4, Zenon DEF Next
<1>3. Commit => head' = head + 1
  BY DEF Commit
<1> QED
  BY <1>1, <1>2, <1>3

LEMMA MovedIs ==
  ASSUME NEW R \in SUBSET Receipt, NEW i
  PROVE  /\ Rebind(R, i) = Moved(R, i, head)
         /\ \A c \in Nat : \A q \in Moved(R, i, c) :
              \E r \in R : q.n = r.n /\ (q.commit = r.commit \/ q.commit = c)
<1>1. Rebind(R, i) = Moved(R, i, head)
  BY DEF Rebind, Moved
<1>2. ASSUME NEW c \in Nat, NEW q \in Moved(R, i, c)
      PROVE  \E r \in R : q.n = r.n /\ (q.commit = r.commit \/ q.commit = c)
  <2>1. PICK r \in R : q = IF r.work = i THEN [r EXCEPT !.commit = c] ELSE r
    BY <1>2 DEF Moved
  <2>2. [r EXCEPT !.commit = c].n = r.n /\ [r EXCEPT !.commit = c].commit = c
    BY DEF Receipt
  <2> QED
    BY <2>1, <2>2
<1> QED
  BY <1>1, <1>2

LEMMA Bounds ==
  TypeInv => /\ head \in Nat /\ written \in Nat /\ log \in SUBSET Receipt
             /\ \A s \in Session : proc[s] \in Process /\ proc[s].log \in SUBSET Receipt
BY WorkFilesAssumption DEF TypeInv, TypeOK, Process

(* What the ledger makes of the receipts: nothing, one more, or those of a *)
(* closed work item are moved to a later commit.                           *)
Receives(a, b, st) ==
  \/ b = a
  \/ \E r \in Receipt : (\A q \in a : q.n # r.n) /\ b = a \cup {r}
  \/ \E i \in Id, c \in 0 .. MaxCommits :
       /\ st[i] \in {"done", "none"}
       /\ \A r \in a : r.work = i => r.commit <= c
       /\ b = Moved(a, i, c)

LEMMA StillOld ==
  ASSUME TypeInv, [Next]_vars, NEW R \in SUBSET Receipt, Old(R, written, head),
         written' \in {written, written + 1}
  PROVE  Old(R, written', head')
<1>1. \A r \in R : r.n \in Nat /\ r.commit \in Nat
  BY WorkFilesAssumption DEF Receipt
<1> QED
  BY <1>1, Bounds, HeadGrows DEF Old

LEMMA ReceiptsLeft ==
  ASSUME TypeInv, [Next]_vars, Shares, Rebound, Leaves
  PROVE  Rebound' /\ (Clean' => Logged' = Logged)
<1>1. log' = log /\ written' = written /\ mishap \subseteq mishap'
  BY DEF Leaves
<1>2. \A q \in Session : proc'[q].phase \in Binding => Same(proc'[q], proc[q])
  BY DEF Leaves
<1>3. head \in Nat /\ head' \in Nat /\ head' >= head /\ log \in SUBSET Receipt
  BY HeadGrows, Bounds
<1>4. Dated'
  <2>1. \A R \in SUBSET Receipt : Old(R, written, head) => Old(R, written', head')
    BY <1>1, StillOld
  <2>2. ASSUME NEW q \in Session, proc'[q].phase \in Binding
        PROVE  Old(proc'[q].log, written', head')
    BY <1>2, <2>1, <2>2, Bounds DEF Same, Rebound, Dated
  <2> QED
    BY <1>1, <1>3, <2>1, <2>2 DEF Rebound, Dated
<1>5. Rebound'
  <2> SUFFICES ASSUME Clean', NEW s \in Session, proc'[s].stale = FALSE
               PROVE  /\ proc'[s].phase = "bind" =>
                           \E c \in 0 .. head' :
                             /\ proc'[s].log = Moved(log', proc'[s].work, c)
                             /\ \A r \in log' : r.work = proc'[s].work => r.commit <= c
                      /\ proc'[s].phase = "bindOpen" => log' = {}
    BY <1>4 DEF Rebound
  <2>1. Clean
    BY <1>1 DEF Clean
  <2>2. proc'[s].phase \in Binding =>
          /\ proc[s].stale = FALSE /\ proc[s].phase = proc'[s].phase
          /\ proc'[s].log = proc[s].log /\ proc'[s].work = proc[s].work
    BY <1>2 DEF Same
  <2>3. 0 .. head \subseteq 0 .. head'
    BY <1>3
  <2> QED
    BY <1>1, <2>1, <2>2, <2>3 DEF Rebound, Binding
<1>6. ASSUME Clean' PROVE Logged' = Logged
  <2>1. "torn" \notin mishap'
    BY <1>6 DEF Clean
  <2>2. \A q \in Session : /\ proc[q].phase = "bindOpen" <=> proc'[q].phase = "bindOpen"
                           /\ proc'[q].phase = "bindOpen" => proc'[q].log = proc[q].log
    BY <1>2, <2>1 DEF Leaves, Same, Binding
  <2> QED
    BY <1>1, <2>2 DEF Logged
<1> QED
  BY <1>5, <1>6

LEMMA SaysLedger ==
  ASSUME Copies, Clean
  PROVE  \A i \in Over : Ledger[i] \in {"done", "none"}
<1>1. CASE \A s \in Session : ~OpenBy(s)
  BY <1>1, LedgerIs DEF Copies, Says
<1>2. ASSUME NEW s \in Session, OpenBy(s) PROVE \A i \in Over : Ledger[i] \in {"done", "none"}
  <2>1. proc[s].phase \in Held /\ proc[s].stale = FALSE
        /\ \A q \in Session \ {s} : ~OpenBy(q)
    BY <1>2, PhaseSets DEF Copies, Exclusive, OpenBy
  <2> QED
    BY <1>2, <2>1, LedgerIs DEF Copies, Says
<1> QED
  BY <1>1, <1>2

LEMMA ReceiptsMove ==
  ASSUME TypeInv, [Next]_vars, Copies, Shares, Rebound, NEW s \in Session,
         RecordReceipt(s) \/ BindRead(s) \/ BindOpen(s) \/ BindWrite(s)
  PROVE  Rebound' /\ (Clean' => /\ Clean /\ Ledger' = Ledger
                                /\ Receives(Logged, Logged', Ledger))
<1> USE Bounds
<1>1. mishap \subseteq mishap' /\ toml' = toml /\ head' = head
  BY DEF RecordReceipt, BindRead, BindOpen, BindWrite, history, git
<1>2. Clean' => Clean
  BY <1>1 DEF Clean
<1>3. /\ proc[s].phase \in {"idle", "closed", "bind", "bindOpen"}
      /\ proc'[s].phase \in {"idle", "closed", "bind", "bindOpen", "bound"}
      /\ \A q \in Session \ {s} : Same(proc'[q], proc[q])
  <2>1. proc[s].phase \in {"idle", "closed", "bind", "bindOpen"}
    BY DEF RecordReceipt, BindRead, BindOpen, BindWrite
  <2> QED
    BY <2>1, BindIs DEF Same
<1>4. Clean' => Ledger' = Ledger
  <2>1. \A q \in Session : /\ OpenBy(q)' <=> OpenBy(q)
                           /\ OpenBy(q) => proc'[q].toml = proc[q].toml
    BY <1>3 DEF OpenBy, OpenPhase, Same
  <2> QED
    BY <1>1, <1>2, <2>1, LedgerKept
<1>5. CASE RecordReceipt(s)
  <2> DEFINE r0 == [n |-> written + 1, work |-> sess[s], commit |-> head]
  <2>1. /\ log' = log \cup {r0} /\ written' = written + 1 /\ proc[s].phase = "idle"
        /\ written + 1 \in 1 .. MaxReceipts /\ sess[s] \in Id /\ head \in 0 .. MaxCommits
    BY <1>5, WorkFilesAssumption DEF RecordReceipt, TypeInv, TypeOK, Work
  <2>2. r0 \in Receipt /\ r0.n = written + 1 /\ r0.commit = head
    BY <2>1 DEF Receipt
  <2>3. \A q \in Session \ {s} : proc[q].phase \in Binding => proc'[q].stale = TRUE
    BY <1>5, BindIs
  <2>4. \A q \in Session : /\ proc'[q].phase = proc[q].phase /\ proc'[q].log = proc[q].log
                           /\ proc'[q].phase \in Binding => proc'[q].stale = TRUE
    <3>1. proc'[s] = proc[s] /\ proc[s].phase \notin Binding
      BY <1>5, <2>1, BindIs DEF Binding
    <3> QED
      BY <1>3, <2>3, <3>1 DEF Same
  <2> HIDE DEF r0
  <2>5. Dated'
    <3>1. \A R \in SUBSET Receipt : Old(R, written, head) => Old(R, written', head')
      BY <2>1, StillOld
    <3>2. Old(log', written', head')
      BY <1>1, <2>1, <2>2, <3>1 DEF Rebound, Dated, Old
    <3> QED
      BY <2>4, <3>1, <3>2 DEF Rebound, Dated
  <2>6. Rebound'
    BY <2>4, <2>5 DEF Rebound, Binding
  <2>7. Logged' = Logged \cup {r0}
    BY <2>1, <2>4 DEF Logged
  <2>8. \A r \in Logged : r.n # r0.n
    <3>1. \A R \in SUBSET Receipt : Old(R, written, head) => \A r \in R : r.n # r0.n
      BY <2>2, WorkFilesAssumption DEF Old, Receipt
    <3> QED
      BY <3>1 DEF Logged, Rebound, Dated, Binding
  <2> QED
    BY <1>2, <1>4, <2>2, <2>6, <2>7, <2>8 DEF Receives
<1>6. CASE BindRead(s)
  <2> DEFINE R == Rebind(log, proc[s].work)
             b == \E q \in Session : proc[q].phase = "bindOpen"
  <2>1. /\ \/ proc'[s].phase = "bound"
           \/ proc'[s].phase = "bind" /\ proc'[s].log = R /\ proc'[s].stale = b
        /\ \A q \in Session \ {s} : proc'[q] = proc[q]
        /\ proc[s].phase = "closed" /\ log' = log /\ written' = written
    BY <1>6, BindIs DEF BindRead, history, counts
  <2>2. proc'[s].work = proc[s].work
    BY <1>6 DEF BindRead, TypeInv, TypeOK, Process
  <2>3. R = Moved(log, proc[s].work, head) /\ Old(R, written, head)
    <3>1. \A r \in log : r.n \in Nat /\ r.commit \in Nat
      BY WorkFilesAssumption DEF Receipt
    <3> QED
      BY <3>1, MovedIs DEF Rebound, Dated, Old
  <2> HIDE DEF R
  <2>4. Dated'
    BY <1>1, <2>1, <2>3 DEF Rebound, Dated, Binding
  <2>5. Rebound'
    <3> SUFFICES ASSUME Clean', NEW q \in Session, proc'[q].stale = FALSE
                 PROVE  /\ proc'[q].phase = "bind" =>
                             \E c \in 0 .. head' :
                               /\ proc'[q].log = Moved(log', proc'[q].work, c)
                               /\ \A r \in log' : r.work = proc'[q].work => r.commit <= c
                        /\ proc'[q].phase = "bindOpen" => log' = {}
      BY <2>4 DEF Rebound
    <3>1. CASE q = s
      <4>1. \A r \in log' : r.commit <= head
        BY <2>1 DEF Rebound, Dated, Old
      <4>2. head \in 0 .. head'
        BY <1>1
      <4> QED
        BY <2>1, <2>2, <2>3, <3>1, <4>1, <4>2
    <3>2. CASE q # s
      BY <1>1, <1>2, <2>1, <3>2 DEF Rebound
    <3> QED
      BY <3>1, <3>2
  <2>6. Logged' = Logged
    <3>1. \A q \in Session : /\ proc'[q].phase = "bindOpen" <=> proc[q].phase = "bindOpen"
                             /\ proc'[q].phase = "bindOpen" => proc'[q].log = proc[q].log
      BY <2>1
    <3> QED
      BY <2>1, <3>1 DEF Logged
  <2> QED
    BY <1>2, <1>4, <2>5, <2>6 DEF Receives
<1>7. CASE BindOpen(s) \/ BindWrite(s)
  <2>1. \A q \in Session \ {s} : proc[q].phase \in Binding => proc'[q].stale = TRUE
    BY <1>7, BindIs
  <2>2. written' = written /\ proc[s].phase \in Binding
    BY <1>7 DEF BindOpen, BindWrite, counts, Binding
  <2>3. \A q \in Session : proc'[q].phase \in Binding =>
          proc[q].phase \in Binding /\ proc'[q].log = proc[q].log
    BY <1>3, <1>7, <2>2, BindIs DEF Same, Binding
  <2>4. /\ proc[s].work \in Id
        /\ log' \in {{}, proc[s].log}
        /\ proc'[s].phase = "bindOpen" => log' = {}
    BY <1>7, BindIs DEF BindOpen, BindWrite, TypeInv, Working
  <2>5. Dated'
    BY <1>1, <2>2, <2>3, <2>4 DEF Rebound, Dated, Old
  <2>6. proc'[s].phase # "bind"
    BY <1>7, BindIs
  <2>7. Rebound'
    BY <1>3, <2>1, <2>4, <2>5, <2>6 DEF Rebound, Same, Binding
  <2>8. ASSUME Clean' PROVE Receives(Logged, Logged', Ledger)
    <3>1. proc[s].stale = FALSE
      <4>1. Overtaken(s) \subseteq mishap' /\ proc[s].stale \in BOOLEAN
        BY <1>7 DEF BindOpen, BindWrite, Process
      <4> QED
        BY <2>8, <4>1 DEF Overtaken, Clean
    <3>2. \A q \in Session \ {s} : proc[q].phase # "bindOpen" /\ proc'[q].phase # "bindOpen"
      BY <1>2, <1>3, <2>2, <2>8, <3>1 DEF Shares, Same
    <3>3. CASE BindOpen(s)
      <4>1. /\ proc[s].phase = "bind" /\ log' = {}
            /\ proc'[s].phase = "bindOpen" /\ proc'[s].log = proc[s].log
        BY <3>3, BindIs DEF BindOpen
      <4>2. Logged = log /\ Logged' = proc[s].log
        BY <3>2, <4>1, LoggedIs
      <4>3. PICK c \in 0 .. head :
              /\ proc[s].log = Moved(log, proc[s].work, c)
              /\ \A r \in log : r.work = proc[s].work => r.commit <= c
        BY <1>2, <2>8, <3>1, <4>1 DEF Rebound
      <4>4. c \in 0 .. MaxCommits
        BY WorkFilesAssumption DEF TypeInv, TypeOK
      <4>5. proc[s].work \in Over
        BY <4>1 DEF Over, After
      <4>6. Ledger[proc[s].work] \in {"done", "none"}
        BY <1>2, <2>8, <4>5, SaysLedger
      <4> QED
        BY <2>4, <4>2, <4>3, <4>4, <4>6 DEF Receives
    <3>4. CASE BindWrite(s)
      <4>1. proc[s].phase = "bindOpen" /\ log' = proc[s].log /\ proc'[s].phase = "bound"
        BY <3>4, BindIs DEF BindWrite
      <4>2. Logged = log \cup proc[s].log /\ Logged' = log'
        BY <3>2, <4>1, LoggedIs
      <4>3. log = {}
        BY <1>2, <2>8, <3>1, <4>1 DEF Rebound
      <4> QED
        BY <4>1, <4>2, <4>3 DEF Receives
    <3> QED
      BY <1>7, <3>3, <3>4
  <2> QED
    BY <1>2, <1>4, <2>7, <2>8
<1> QED
  BY <1>5, <1>6, <1>7

(* The commands that read, empty and rewrite work.toml and receipts.jsonl  *)
(* without a lock are steps of one ledger (WorkLedger.tla), until a copy   *)
(* that is out of date is written back or a process dies with a file open. *)
THEOREM FilesImplementLedger == Spec => ImplementsLedger
<1> DEFINE Inv == Current /\ Shares /\ Rebound
<1>1. Init => Inv
  <2> SUFFICES ASSUME Init PROVE Inv
    OBVIOUS
  <2>1. /\ \A s \in Session : proc[s].phase = "idle"
        /\ log = {} /\ written = 0
    BY DEF Init, Idle
  <2>2. "idle" \notin Held /\ "idle" \notin Binding
    BY DEF Held, Binding
  <2> QED
    BY <2>1, <2>2 DEF Current, Shares, Rebound, Dated, Old, Kept, Binding
<1>2. ASSUME TypeInv, Copies, Inv, [Next]_vars
      PROVE  Inv' /\ [WL!Next]_(WL!vars)
  <2>1. Shares'
    BY <1>2, LeavesKinds, SharesLeft, SharesBound
  <2>2. /\ Rebound'
        /\ Clean' => \/ Logged' = Logged
                     \/ Ledger' = Ledger /\ Receives(Logged, Logged', Ledger)
    BY <1>2, LeavesKinds, ReceiptsLeft, ReceiptsMove
  <2>3. Clean' => Clean /\ Current' /\ Enters(Ledger, Ledger')
    BY <1>2, LedgerSteps
  <2>4. Inv'
    BY <2>1, <2>2, <2>3 DEF Current
  <2> SUFFICES [WL!Next]_(WL!vars)
    BY <2>4
  <2>5. CASE ~Clean'
    BY <2>5 DEF WL!Next, WL!Damage
  <2>6. CASE Clean' /\ Logged' = Logged
    <3>1. (~Clean)' = (~Clean)
      BY <2>3, <2>6
    <3>2. CASE Ledger' = Ledger
      BY <2>6, <3>1, <3>2 DEF WL!vars
    <3>3. ASSUME NEW i \in Id,
                 \/ /\ Ledger[i] = "absent"
                    /\ \E st \in {"active", "none"} : Ledger' = [Ledger EXCEPT ![i] = st]
                 \/ /\ Ledger[i] \in {"absent", "active"}
                    /\ Ledger' = [Ledger EXCEPT ![i] = "done"]
          PROVE  WL!Next
      BY <2>6, <3>1, <3>3 DEF WL!Next, WL!Add, WL!Close
    <3> QED
      BY <2>3, <2>6, <3>2, <3>3 DEF Enters
  <2>7. CASE Clean' /\ Ledger' = Ledger /\ Receives(Logged, Logged', Ledger)
    <3>1. (~Clean)' = (~Clean)
      BY <2>3, <2>7
    <3>2. CASE Logged' = Logged
      BY <2>7, <3>1, <3>2 DEF WL!vars
    <3>3. ASSUME NEW r \in Receipt, \A q \in Logged : q.n # r.n, Logged' = Logged \cup {r}
          PROVE  WL!Next
      BY <2>7, <3>1, <3>3 DEF WL!Next, WL!Record
    <3>4. ASSUME NEW i \in Id, NEW c \in 0 .. MaxCommits, Ledger[i] \in {"done", "none"},
                 \A r \in Logged : r.work = i => r.commit <= c,
                 Logged' = Moved(Logged, i, c)
          PROVE  WL!Next
      <4>1. WL!Bind(i, c)
        BY <2>7, <3>1, <3>4 DEF WL!Bind, WL!Moved, Moved
      <4> QED
        BY <3>4, <4>1 DEF WL!Next
    <3> QED
      BY <2>7, <3>2, <3>3, <3>4 DEF Receives
  <2> QED
    BY <2>2, <2>5, <2>6, <2>7
<1>3. Init => WL!Init
  <2> SUFFICES ASSUME Init PROVE WL!Init
    OBVIOUS
  <2>1. \A s \in Session : ~OpenBy(s) /\ proc[s].phase # "bindOpen"
    BY DEF Init, Idle, OpenBy, OpenPhase
  <2>2. Ledger = [i \in Id |-> "absent"] /\ Logged = {}
    BY <2>1, LedgerIs, LoggedIs DEF Init, Empty
  <2> QED
    BY <2>2 DEF WL!Init, Clean, Init
<1> QED
  BY <1>1, <1>2, <1>3, CopiesAlways, PTL DEF Spec, ImplementsLedger, WL!Spec
=============================================================================
