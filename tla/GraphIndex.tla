----------------------------- MODULE GraphIndex -----------------------------
(***************************************************************************)
(* The graph store (graph/store.py) as index_all, index_changed, verify    *)
(* and review (engine.py) keep it: nodes with their review status, edges   *)
(* and the fingerprints once seen.  Diagnostics are left out.              *)
(*                                                                         *)
(* Indexers are processes.  One reads git and files, then reads the store  *)
(* and merges, then writes in several transactions; others, editors and    *)
(* commits come in between, and it may be killed at any point.  seen and   *)
(* clash say what the store should be: what each path declared when it was *)
(* last indexed.                                                           *)
(***************************************************************************)
EXTENDS Naturals, FiniteSets

CONSTANTS
  Proc,
  File,        \* files with markers
  Conf,        \* .trace/work.toml, which declares work items
  Rank,        \* order of the files in discovery
  Id,          \* trace ids
  Fp,          \* fingerprints
  NoFp,        \* a work.toml entry has none
  NoRev,       \* nor a revision
  Start,       \* what the paths declare at first
  Draft,       \* what an edit may make a path declare
  Job,         \* the commands each process runs
  Depth,       \* 5 in _review_closure
  MaxCommits   \* bound

Path == File \cup {Conf}
Decl == [id : Id, fp : Fp, to : SUBSET Id] \cup [id : Id, fp : {NoFp}, to : {{}}]
Ids(c) == {d.id : d \in c}

(* What a path may declare: each id once, entries without a fingerprint in *)
(* work.toml and markers in the others.                                    *)
Content(p) ==
  {c \in SUBSET Decl : /\ \A d, e \in c : d.id = e.id => d = e
                      /\ \A d \in c : (p = Conf) <=> (d.fp = NoFp)}

ASSUME NamesAssumption == Conf \notin File /\ NoFp \notin Fp /\ NoRev \notin Nat
ASSUME RankAssumption == Rank \in [File -> Nat]
ASSUME TreesAssumption ==
  /\ DOMAIN Start = Path /\ DOMAIN Draft = Path
  /\ \A p \in Path : Start[p] \in Content(p) /\ Draft[p] \subseteq Content(p)
ASSUME BoundsAssumption ==
  /\ Job \in [Proc -> SUBSET {"all", "clean", "changed", "verify", "review"}]
  /\ Depth \in Nat
  /\ MaxCommits \in Nat

VARIABLES
  tree, head, base,   \* the working tree, HEAD and HEAD~1
  rev,                \* how many commits there are since the start
  nodes, edges,       \* the graph
  versions,           \* artifact_versions, by trace id
  proc,               \* where each process stands
  seen, clash,        \* history: what each path last declared to the store,
                      \* and whether two paths declared the same id
  over,               \* history: processes that merged with a store somebody
                      \* has written to since
  rushed              \* history: verifications during which HEAD moved or
                      \* another process replaced the graph

git == <<tree, head, base, rev>>
graph == <<nodes, edges, seen, clash>>
vars == <<git, graph, versions, proc, over, rushed>>

Status == {"current", "stale", "reviewed"}
NoNode == [src |-> "none"]
NodeAt(P, F, R) == [src : P, fp : F, rev : R, active : BOOLEAN, status : Status]
Node == NodeAt(File, Fp, 0 .. MaxCommits) \cup NodeAt({Conf}, {NoFp}, {NoRev})
Edge == [from : Id, to : Id, path : File]
Version == [id : Id, fp : Fp]

ActiveIn(n) == {i \in Id : n[i] # NoNode /\ n[i].active}
Active == ActiveIn(nodes)

Idle == [pc |-> "idle"]

-----------------------------------------------------------------------------
(* What a scan yields.  T is what the paths declare, F the files read.     *)

Declaring(T, F, i) == {f \in F : i \in Ids(T[f])}
DeclOf(c, i) == CHOOSE d \in c : d.id = i

(* _dedupe_nodes keeps the first declaration; a work.toml entry comes      *)
(* after every file that was read.                                         *)
Source(T, F, i) ==
  LET fs == Declaring(T, F, i)
  IN IF fs = {} THEN Conf
     ELSE CHOOSE f \in fs : \A g \in fs : Rank[f] <= Rank[g]

(* Fault: a work.toml entry gets the revision.                             *)
NewNodeFault(p, d, r) ==
  [src |-> p, fp |-> d.fp, rev |-> r, active |-> TRUE, status |-> "current"]

(* _node_from_marker and the nodes of _work_toml_nodes.                    *)
NewNode(p, d, r) ==
  [src |-> p, fp |-> d.fp, rev |-> IF p = Conf THEN NoRev ELSE r,
   active |-> TRUE, status |-> "current"]

(* The nodes the files F declare, and all of work.toml's.                  *)
Scanned(T, F, r) ==
  [i \in UNION {Ids(T[p]) : p \in F \cup {Conf}} |->
     LET p == Source(T, F, i) IN NewNode(p, DeclOf(T[p], i), r)]

(* _marker_edges of every file read, duplicates included.                  *)
EdgesOf(T, F) ==
  {e \in Edge : e.path \in F /\ \E d \in T[e.path] : d.id = e.from /\ e.to \in d.to}

Inactive(n) == IF n = NoNode THEN n ELSE [n EXCEPT !.active = FALSE]

(* Full index: every id not found any more keeps an inactive node.         *)
FullNodes(new) ==
  [i \in Id |-> IF i \in DOMAIN new THEN new[i] ELSE Inactive(nodes[i])]

Lost(C, new) ==
  {i \in Active \ DOMAIN new : nodes[i].src \in C}

(* Fault: what a changed file does not declare any more stays active.      *)
MergedNodesFault(C, new) ==
  [i \in Id |-> IF i \in DOMAIN new THEN new[i] ELSE nodes[i]]

(* Incremental index over the changed paths C: other paths' nodes are kept *)
(* as they are, unless declared again; inactive nodes of C are dropped.    *)
MergedNodes(C, new) ==
  [i \in Id |->
     IF i \in DOMAIN new THEN new[i]
     ELSE IF i \in Lost(C, new) THEN Inactive(nodes[i])
     ELSE IF nodes[i].src \in C THEN NoNode ELSE nodes[i]]

(* Fault: edges of markers that are gone are kept.                         *)
KeptEdgesFault(C, new) == {e \in edges : e.from \notin DOMAIN new}

(* Only edges whose source was declared again, or is gone, are replaced.   *)
KeptEdges(C, new) == {e \in edges : e.from \notin DOMAIN new \cup Lost(C, new)}

(* _staleness_pass: a node is the changed artifact if any other            *)
(* fingerprint of it was ever recorded.                                    *)
HasChanged(n) ==
  {i \in Id : n[i] # NoNode /\ n[i].fp # NoFp /\ versions[i] \ {n[i].fp} # {}}

(* Fault: review states are not carried over.                              *)
CarriedFault(n, i, clean) == n[i].status

Carried(n, i, clean) ==
  IF ~clean /\ nodes[i] # NoNode THEN nodes[i].status ELSE n[i].status

(* Fault: only nodes declared in this pass are marked.                     *)
ReviewedFault(n, E, clean) ==
  LET changed == HasChanged(n)
      dependents == {e.from : e \in {f \in E : f.to \in changed}}
  IN [i \in Id |->
       IF n[i] = NoNode THEN NoNode
       ELSE [n[i] EXCEPT !.status =
               IF i \in dependents /\ nodes[i] = NoNode THEN "stale"
               ELSE IF i \in changed THEN "current" ELSE Carried(n, i, clean)]]

Reviewed(n, E, clean) ==
  LET changed == HasChanged(n)
      dependents == {e.from : e \in {f \in E : f.to \in changed}}
  IN [i \in Id |->
       IF n[i] = NoNode THEN NoNode
       ELSE [n[i] EXCEPT !.status =
               IF i \in dependents THEN "stale"
               ELSE IF i \in changed THEN "current" ELSE Carried(n, i, clean)]]

VersionsIn(n, I) ==
  {[id |-> i, fp |-> n[i].fp] : i \in {j \in I : n[j] # NoNode /\ n[j].fp # NoFp}}

(* What the paths will have declared: entries of work.toml are confirmed   *)
(* in every index, and removed when it is among the paths read.            *)
Said(C, T) ==
  [q \in Path |->
     IF q \in C THEN T[q] ELSE IF q = Conf THEN seen[q] \cup T[q] ELSE seen[q]]

Clash(s) == \E p, q \in Path : p # q /\ Ids(s[p]) \cap Ids(s[q]) # {}

-----------------------------------------------------------------------------
(* Editors and git.                                                        *)

At(p, pc) == proc[p].pc = pc
Verifying(p) ==
  \/ At(p, "verified")
  \/ ~At(p, "idle") /\ ~At(p, "reviewing") /\ proc[p].goal \in {"rebuild", "verify"}

Edit(p, c) ==
  /\ c # tree[p]
  /\ tree' = [tree EXCEPT ![p] = c]
  /\ UNCHANGED <<head, base, rev, graph, versions, proc, over, rushed>>

Commit ==
  /\ rev < MaxCommits
  /\ tree # head
  /\ head' = tree
  /\ base' = head
  /\ rev' = rev + 1
  /\ rushed' = {p \in Proc : Verifying(p)}
  /\ UNCHANGED <<tree, graph, versions, proc, over>>

(* changed_files against HEAD or, on a clean tree, HEAD against its        *)
(* default_base on the default branch.                                     *)
ChangeSet ==
  LET dirty == {p \in Path : tree[p] # head[p]}
  IN IF dirty # {} THEN dirty
     ELSE IF rev > 0 THEN {p \in Path : head[p] # base[p]} ELSE {}

-----------------------------------------------------------------------------
(* The steps of a process.  goal is the command it runs; a verification    *)
(* that has to rebuild runs index_all ("rebuild") before index_changed.    *)

Become(p, s) == proc' = [proc EXCEPT ![p] = s]

(* p writes to the graph: others that have merged are overtaken.           *)
Overtaking(p) == (over \ {p}) \cup {q \in Proc \ {p} : At(q, "merged")}

Started(goal) == [pc |-> "started", goal |-> goal]

(* What a process does when an index is complete.                          *)
After(goal) ==
  IF goal = "rebuild" THEN Started("verify")
  ELSE IF goal = "verify" THEN [pc |-> "verified"] ELSE Idle

(* Fault: a graph of mixed revisions is good enough.                       *)
MustRebuildFault ==
  LET revs == {nodes[i].rev : i \in Active} \ {NoRev}
  IN Active = {} \/ (revs # {} /\ rev \notin revs)

(* A cold store, or one whose marker nodes are not all of HEAD.            *)
MustRebuild ==
  LET revs == {nodes[i].rev : i \in Active} \ {NoRev}
  IN Active = {} \/ Cardinality(revs) > 1 \/ (revs # {} /\ rev \notin revs)

Verify(p) ==
  /\ At(p, "idle")
  /\ "verify" \in Job[p]
  /\ Become(p, Started(IF MustRebuild THEN "rebuild" ELSE "verify"))
  /\ UNCHANGED <<git, graph, versions, over, rushed>>

Incremental(goal) == goal \in {"changed", "verify"}

(* Git and the files are read; an empty change set ends index_changed.     *)
Scan(p, goal) ==
  /\ LET C == IF Incremental(goal) THEN ChangeSet ELSE Path
     IN Become(p,
          IF C = {} THEN After(goal)
          ELSE [pc |-> "scanned", goal |-> goal, paths |-> C,
                text |-> [q \in C \cup {Conf} |-> tree[q]], rev |-> rev])
  /\ UNCHANGED <<git, graph, versions, over, rushed>>

Run(p, goal) ==
  /\ At(p, "idle")
  /\ goal \in Job[p] \cap {"all", "clean", "changed"}
  /\ Scan(p, goal)

VerifyScan(p) == At(p, "started") /\ Scan(p, proc[p].goal)

(* The store is read and the new graph computed.                           *)
Merge(p) ==
  /\ At(p, "scanned")
  /\ LET goal == proc[p].goal
         C == proc[p].paths
         T == proc[p].text
         new == Scanned(T, C \cap File, proc[p].rev)
         inc == Incremental(goal)
         n == IF inc THEN MergedNodes(C, new) ELSE FullNodes(new)
         E == EdgesOf(T, C \cap File) \cup IF inc THEN KeptEdges(C, new) ELSE {}
     IN Become(p,
          [pc |-> "merged", goal |-> goal,
           nodes |-> Reviewed(n, E, goal = "clean"),
           edges |-> E,
           record |-> VersionsIn(n, IF inc THEN DOMAIN new ELSE Id),
           seen |-> Said(C, T),
           clash |-> Clash(Said(C, T)) \/ (inc /\ clash)])
  /\ UNCHANGED <<git, graph, versions, over, rushed>>

(* What is left to record: the rest only gets a newer time.  After that,   *)
(* replace_diagnostics ends the index.                                     *)
Recording(goal, all) ==
  LET left == {v \in all : v.fp \notin versions[v.id]}
  IN IF left = {} THEN After(goal)
     ELSE [pc |-> "recording", goal |-> goal, record |-> left]

(* replace_all: one transaction.                                           *)
Replace(p) ==
  /\ At(p, "merged")
  /\ nodes' = proc[p].nodes
  /\ edges' = proc[p].edges
  /\ seen' = proc[p].seen
  /\ clash' = proc[p].clash
  /\ Become(p, Recording(proc[p].goal, proc[p].record))
  /\ over' = Overtaking(p)
  /\ rushed' = rushed \cup {q \in Proc \ {p} : Verifying(q)}
  /\ UNCHANGED <<git, versions>>

(* record_artifact_version, a transaction per node.                        *)
Record(p, v) ==
  /\ At(p, "recording")
  /\ v \in proc[p].record
  /\ versions' = [versions EXCEPT ![v.id] = @ \cup {v.fp}]
  /\ Become(p, Recording(proc[p].goal, proc[p].record \ {v}))
  /\ over' = Overtaking(p)
  /\ UNCHANGED <<git, graph, rushed>>

(* The rules are evaluated and verify returns.                             *)
Evaluated(p) ==
  /\ At(p, "verified")
  /\ Become(p, Idle)
  /\ rushed' = rushed \ {p}
  /\ UNCHANGED <<git, graph, versions, over>>

(* _review_closure: what is reached from a node along edges, either way.   *)
Closure(i) ==
  LET near[n \in 0 .. Depth] ==
        IF n = 0 THEN {i}
        ELSE LET N == near[n - 1]
             IN N \cup {e.to : e \in {f \in edges : f.from \in N}}
                  \cup {e.from : e \in {f \in edges : f.to \in N}}
  IN {j \in Id : j \in near[Depth]}

Review(p, i) ==
  /\ At(p, "idle")
  /\ "review" \in Job[p]
  /\ nodes[i] # NoNode
  /\ Become(p, [pc |-> "reviewing", todo |-> Closure(i)])
  /\ UNCHANGED <<git, graph, versions, over, rushed>>

(* One node is read and, if stale, written.                                *)
ReviewNode(p, i) ==
  /\ At(p, "reviewing")
  /\ i \in proc[p].todo
  /\ LET stale == nodes[i] # NoNode /\ nodes[i].status = "stale"
         todo == proc[p].todo \ {i}
     IN /\ nodes' = IF stale THEN [nodes EXCEPT ![i].status = "reviewed"] ELSE nodes
        /\ over' = IF stale THEN Overtaking(p) ELSE over
        /\ Become(p, IF todo = {} THEN Idle
                     ELSE [pc |-> "reviewing", todo |-> todo])
  /\ UNCHANGED <<git, edges, seen, clash, versions, rushed>>

(* A process dies: what it committed stays.                                *)
Kill(p) ==
  /\ ~At(p, "idle")
  /\ Become(p, Idle)
  /\ over' = over \ {p}
  /\ rushed' = rushed \ {p}
  /\ UNCHANGED <<git, graph, versions>>

Init ==
  /\ tree = Start
  /\ head = Start
  /\ base = Start
  /\ rev = 0
  /\ nodes = [i \in Id |-> NoNode]
  /\ edges = {}
  /\ versions = [i \in Id |-> {}]
  /\ proc = [p \in Proc |-> Idle]
  /\ seen = [p \in Path |-> {}]
  /\ clash = FALSE
  /\ over = {}
  /\ rushed = {}

Next ==
  \/ \E p \in Path : \E c \in Draft[p] : Edit(p, c)
  \/ Commit
  \/ \E p \in Proc :
       \/ \E goal \in Job[p] : Run(p, goal)
       \/ Verify(p)
       \/ VerifyScan(p)
       \/ Merge(p)
       \/ Replace(p)
       \/ \E v \in Version : Record(p, v)
       \/ Evaluated(p)
       \/ \E i \in Id : Review(p, i) \/ ReviewNode(p, i)
       \/ Kill(p)

Spec == Init /\ [][Next]_vars
-----------------------------------------------------------------------------
Goal == {"all", "clean", "changed", "verify", "rebuild"}

IsText(t, P) == DOMAIN t = P /\ \A p \in P : t[p] \in Content(p)

IsProc(s) ==
  \/ s \in {Idle, [pc |-> "verified"]}
  \/ s \in [pc : {"started"}, goal : {"verify", "rebuild"}]
  \/ \E C \in SUBSET Path :
       /\ s \in [pc : {"scanned"}, goal : Goal, paths : {C},
                 text : [C \cup {Conf} -> SUBSET Decl], rev : 0 .. MaxCommits]
       /\ IsText(s.text, C \cup {Conf})
  \/ /\ s \in [pc : {"merged"}, goal : Goal, nodes : [Id -> {NoNode} \cup Node],
                edges : SUBSET Edge, record : SUBSET Version,
                seen : [Path -> SUBSET Decl], clash : BOOLEAN]
     /\ IsText(s.seen, Path)
  \/ s \in [pc : {"recording"}, goal : Goal, record : SUBSET Version]
  \/ s \in [pc : {"reviewing"}, todo : SUBSET Id]

(* Every variable holds what the code can put there; a node of work.toml   *)
(* has neither fingerprint nor revision, a node of a file has both.        *)
TypeOK ==
  /\ \A t \in {tree, head, base, seen} : IsText(t, Path)
  /\ rev \in 0 .. MaxCommits
  /\ nodes \in [Id -> {NoNode} \cup Node]
  /\ edges \subseteq Edge
  /\ versions \in [Id -> SUBSET Fp]
  /\ clash \in BOOLEAN
  /\ over \subseteq Proc /\ rushed \subseteq Proc
  /\ DOMAIN proc = Proc
  /\ \A p \in Proc : IsProc(proc[p])

(* A graph says exactly what the paths declare.                            *)
Mirrors(n, E, text) ==
  /\ \A i \in Id : i \in ActiveIn(n) <=> \E p \in Path : i \in Ids(text[p])
  /\ \A i \in ActiveIn(n) :
       /\ i \in Ids(text[n[i].src])
       /\ n[i].fp = DeclOf(text[n[i].src], i).fp
  /\ E = EdgesOf(text, File)

(* The store says exactly what each path declared when it was last         *)
(* indexed, however full and incremental indexes, edits and crashes        *)
(* alternate: an incremental index neither loses nor keeps anything a full *)
(* one would not (index_changed, engine.py:980).  Ids declared by two      *)
(* paths are excepted: there the two commands do differ.                   *)
StoreMirrorsSeen == ~clash => Mirrors(nodes, edges, seen)

(* Even with duplicate ids, no edge outlives its source: the marker that   *)
(* declares an edge is gone, and so is the edge (engine.py:1075-1089).     *)
EdgesHaveActiveSource == \A e \in edges : e.from \in Active

(* When a verification evaluates its rules, every marker node is of the    *)
(* commit that is HEAD, whichever index commands and commits preceded      *)
(* (engine.py:1272-1293).                                                  *)
VerifiedAtHead ==
  \A p \in Proc \ rushed : At(p, "verified") =>
    \A i \in Active : nodes[i].rev \in {NoRev, rev}

Replaces(p) ==
  /\ At(p, "merged")
  /\ proc'[p] = Recording(proc[p].goal, proc[p].record)
  /\ nodes' = proc[p].nodes

(* An artifact whose recorded fingerprint changes in the store makes every *)
(* dependent stale in the same transaction (_staleness_pass, FR-009),      *)
(* unless the indexer was overtaken or the one before it was killed before *)
(* it recorded the fingerprint.                                            *)
ChangeIsNoticed ==
  [][\A p \in Proc \ over : Replaces(p) =>
       \A i \in Active :
         (nodes[i].fp \in versions[i] /\ nodes'[i].fp \in Fp \ {nodes[i].fp}) =>
           \A e \in edges' : e.to = i => nodes'[e.from].status = "stale"]_vars

(* A node that awaits review goes on waiting until it is reviewed, unless  *)
(* its own artifact has changed too, the graph is rebuilt clean, or an     *)
(* indexer that was overtaken writes what it read before.                  *)
StaleWaits ==
  [][\A i \in Id :
       (nodes[i] # NoNode /\ nodes[i].status = "stale" /\ nodes'[i] # NoNode) =>
         \/ nodes'[i].status # "current"
         \/ \E p \in Proc : Replaces(p) /\ (p \in over \/ proc[p].goal = "clean")
         \/ versions[i] \ {nodes'[i].fp} # {}]_vars
=============================================================================
