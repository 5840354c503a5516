--------------------------- MODULE VerdictProofs ---------------------------
(* Proofs about the verdict (Verdict.tla) and the readers beside it        *)
(* (Queries.tla), for any artifacts, edits, reports, waivers and bounds.   *)
EXTENDS Queries, Induction, SequenceTheorems

-----------------------------------------------------------------------------
(* More is enabled, and more is found.                                     *)

LEMMA EnabledGrows ==
  ASSUME NEW p, NEW l, NEW f \in BOOLEAN, NEW q, NEW m, NEW g \in BOOLEAN,
         ProfileRules(p, l) \subseteq ProfileRules(q, m),
         Effective(p, l) \subseteq Effective(q, m),
         f => g
  PROVE  Enabled(p, l, f) \subseteq Enabled(q, m, g)
<1> DEFINE R == IF f THEN Forced(Effective(p, l)) ELSE Effective(p, l)
           Q == IF g THEN Forced(Effective(q, m)) ELSE Effective(q, m)
<1>1. R \subseteq Q
  BY DEF Forced
<1> QED
  BY <1>1 DEF Enabled

LEMMA StricterProfile ==
  ASSUME NEW p \in 1 .. 3, NEW l
  PROVE  /\ ProfileRules(Profile[p], l) \subseteq ProfileRules(Profile[p + 1], l)
         /\ Requirements(Profile[p], l) \subseteq Requirements(Profile[p + 1], l)
<1>1. CASE p = 1
  BY <1>1 DEF Profile, ProfileRules, Requirements, MergePlus
<1>2. CASE p = 2
  BY <1>2 DEF Profile, ProfileRules, Requirements, MergePlus
<1>3. CASE p = 3
  BY <1>3 DEF Profile, ProfileRules, Requirements, MergePlus
<1> QED
  BY <1>1, <1>2, <1>3

LEMMA LaterLifecycle ==
  ASSUME NEW p, NEW l \in 1 .. 4
  PROVE  /\ ProfileRules(p, Lifecycle[l]) \subseteq ProfileRules(p, Lifecycle[l + 1])
         /\ Requirements(p, Lifecycle[l]) \subseteq Requirements(p, Lifecycle[l + 1])
<1>1. MergePlus(Lifecycle[l]) => MergePlus(Lifecycle[l + 1])
  BY DEF Lifecycle, MergePlus
<1>2. Lifecycle[l] = "release" => Lifecycle[l + 1] = "release"
  BY DEF Lifecycle
<1> QED
  BY <1>1, <1>2 DEF ProfileRules, Requirements

LEMMA RuleIs ==
  Rule = {"TL002", "TL010", "TL011", "TL012", "TL013", "TL020", "TL021", "TL022",
          "TL030", "TL050", "TL060", "TL061", "TL062", "TL110"}
<1>1. DOMAIN Gate = {"TL010", "TL011", "TL020", "TL021", "TL022", "TL060", "TL110"}
  BY DEF Gate
<1> QED
  BY <1>1 DEF Rule, PathRule

(* But for the rules that look at changed paths.                           *)
LEMMA FindingGrows ==
  ASSUME NEW S, NEW T, S \subseteq T, NEW P, NEW Q, NEW r \in Rule \ PathRule
  PROVE  Finding(r, S, P) \subseteq Finding(r, T, Q)
<1> USE RuleIs DEF Finding, PathRule
<1>1. CASE r \in {"TL002", "TL050", "TL060", "TL061", "TL062"}
  BY <1>1 DEF TL002, TL050, TL060, TL061, TL062
<1>2. CASE r \in {"TL010", "TL011", "TL020"}
  BY <1>2 DEF TL010, TL011, TL020
<1>3. CASE r \in {"TL021", "TL022"}
  BY <1>3 DEF TL021, TL022
<1>4. CASE r \in {"TL030", "TL110"}
  BY <1>4 DEF TL030, TL110
<1> QED
  BY <1>1, <1>2, <1>3, <1>4

(* More fails in a wider scope, and where waivers are not allowed.         *)
LEMMA FailingGrows ==
  ASSUME NEW S, NEW T, S \subseteq T, NEW P, NEW Q, NEW v \in BOOLEAN
  PROVE  Failing(S, P, v) \ PathRule \subseteq Failing(T, Q, v)
<1> SUFFICES ASSUME NEW r \in Failing(S, P, v) \ PathRule
             PROVE  r \in Failing(T, Q, v)
  OBVIOUS
<1>1. r \in Rule \ PathRule
  BY DEF Failing
<1>2. Errors(r, S, P, v) \subseteq Errors(r, T, Q, v)
  BY <1>1, FindingGrows DEF Errors
<1> QED
  BY <1>1, <1>2 DEF Failing

LEMMA UnwaivedFails ==
  ASSUME NEW S, NEW P, NEW v \in BOOLEAN, NEW w \in BOOLEAN, w => v
  PROVE  Failing(S, P, v) \subseteq Failing(S, P, w)
BY DEF Failing, Errors

-----------------------------------------------------------------------------
(* Types.                                                                  *)

(* What a report tells.                                                    *)
Told ==
  {c \in [ran : SUBSET Test, passed : SUBSET Test, hit : SUBSET Impl,
          started : Nat, bad : BOOLEAN] : c.passed \subseteq c.ran}

LEMMA ContentIs ==
  /\ DOMAIN Content = {"suite", "coverage", "normalized"}
  /\ \A f \in DOMAIN Content : Content[f] \subseteq Told
<1>1. Blank \in Told
  BY DEF Blank, Told
<1>2. JUnit \subseteq Told
  <2>1. \A P \in SUBSET Test : [Blank EXCEPT !.ran = Test, !.passed = P] \in Told
    BY DEF Blank, Told
  <2> QED
    BY <2>1 DEF JUnit
<1>3. Cobertura \subseteq Told
  <2>1. \A H \in SUBSET Impl : [Blank EXCEPT !.hit = H] \in Told
    BY DEF Blank, Told
  <2> QED
    BY <2>1 DEF Cobertura
<1>4. Normalized \subseteq Told
  <2>1. \A P \in SUBSET Test, H \in SUBSET Impl, n \in 1 .. MaxRuns :
          [ran |-> Test, passed |-> P, hit |-> H, started |-> n, bad |-> FALSE] \in Told
    BY DEF Told
  <2> QED
    BY <2>1 DEF Normalized
<1>5. Unreadable \in Told
  BY DEF Unreadable, Blank, Told
<1>6. \A x \in Told, y \in Told : Together(x, y) \in Told
  BY DEF Together, Told
<1>7. {Together(x, y) : x \in JUnit \cup {Unreadable},
                        y \in Cobertura \cup {Unreadable}} \subseteq Told
  BY <1>2, <1>3, <1>5, <1>6
<1> HIDE DEF Told
<1> QED
  BY <1>3, <1>4, <1>5, <1>7 DEF Content

(* What was stored under an id, and what is there of it.                   *)
Tellings == [rev : At, at : At, of : Told]

Sound(k) ==
  /\ k.passed \subseteq k.ran
  /\ k.ran \subseteq UNION {w.of.ran : w \in k.told}
  /\ k.passed \subseteq UNION {w.of.passed : w \in k.told}
  /\ k.execs \subseteq (Test \cup {Suite}) \X UNION {w.of.hit : w \in k.told}

(* A run of the store.                                                     *)
RunRow ==
  [rev : At, started : Nat, nth : Nat, named : BOOLEAN, told : SUBSET Tellings,
   ran : SUBSET Test, passed : SUBSET Test,
   execs : SUBSET ((Test \cup {Suite}) \X Impl)]

Run == {k \in RunRow : Sound(k)}

LEMMA ReportIs ==
  ASSUME NEW x \in Report
  PROVE  /\ x.at \in At /\ x.format \in {"suite", "coverage", "normalized"}
         /\ x.of \in Told
         /\ x = [at |-> x.at, format |-> x.format, of |-> x.of]
<1>1. PICK f \in DOMAIN Content : x \in [at : At, format : {f}, of : Content[f]]
  BY DEF Report
<1> QED
  BY <1>1, ContentIs

(* A node has the fields of one.                                           *)
Made(n) ==
  [src : {n.src}, fp : {n.fp}, rev : {n.rev}, active : BOOLEAN, status : {n.status}]

IsNode(n) == n = NoNode \/ n \in Made(n)

IsNodes(n) == DOMAIN n = Art /\ \A i \in Art : IsNode(n[i])

ActiveOf(n) == {i \in Art : n[i] # NoNode /\ n[i].active}

(* Every edge of the store is declared by an artifact in force.            *)
IsGraph(g) ==
  /\ DOMAIN g = {"nodes", "edges", "versions", "unread"}
  /\ IsNodes(g.nodes)
  /\ \A e \in g.edges : {e.from, e.to} \subseteq Art
  /\ \A e \in g.edges : e.from \in ActiveOf(g.nodes)

GraphTyped == IsGraph(graph)

(* What is judged is what the changed paths say.                           *)
JudgedTyped ==
  judged = Unjudged \/ judged = [ids |-> Art \cap Declared, done |-> TRUE]

RunsTyped ==
  /\ DOMAIN runs \subseteq RunId
  /\ \A k \in DOMAIN runs : runs[k] \in Run

(* The runs in the order in which they were stored, which is that of the   *)
(* ids that ingest makes up.                                               *)
RunsOrdered ==
  /\ \A k \in DOMAIN runs : runs[k].nth \in 1 .. stored
  /\ \A j, k \in DOMAIN runs : runs[j].nth = runs[k].nth => j = k
  /\ \A k \in DOMAIN runs : ~runs[k].named => k \notin Name
  /\ \A j, k \in DOMAIN runs :
       (~runs[j].named /\ ~runs[k].named /\ runs[j].nth < runs[k].nth) => j < k

Ingests(i) ==
  /\ i.step \in {"results", "edges", "diagnostics"}
  /\ i.id \in DOMAIN runs
  /\ i.report \in Report
  /\ i = [step |-> i.step, id |-> i.id, report |-> i.report]
  /\ \E w \in runs[i.id].told : w.of = i.report.of

IngTyped == ing = Done \/ Ingests(ing)

IInv ==
  /\ rev \in Rev
  /\ GraphTyped
  /\ RunsTyped
  /\ RunsOrdered
  /\ stored \in 0 .. MaxRuns
  /\ IngTyped
  /\ tree[Conf] = {} /\ DOMAIN tree = Art \cup {Conf}
  /\ JudgedTyped

LEMMA JudgedIs ==
  ASSUME JudgedTyped
  PROVE  /\ judged.ids \subseteq Art
         /\ judged.done => judged.ids = Art \cap Declared
BY DEF JudgedTyped, Unjudged

LEMMA IInvTypes == IInv => TypeOK
<1> SUFFICES ASSUME IInv PROVE TypeOK
  OBVIOUS
<1>1. ASSUME NEW k \in DOMAIN runs
      PROVE  /\ runs[k].rev \in At /\ runs[k].nth \in 1 .. stored
             /\ \A w \in runs[k].told : w.rev \in At /\ w.at \in At
             /\ runs[k].passed \subseteq runs[k].ran
             /\ runs[k].ran \subseteq UNION {w.of.ran : w \in runs[k].told}
             /\ runs[k].passed \subseteq UNION {w.of.passed : w \in runs[k].told}
             /\ runs[k].execs \subseteq
                  (Test \cup {Suite}) \X UNION {w.of.hit : w \in runs[k].told}
  <2>1. runs[k] \in RunRow /\ Sound(runs[k])
    BY DEF IInv, RunsTyped, Run
  <2>2. runs[k].nth \in 1 .. stored
    BY DEF IInv, RunsOrdered
  <2>3. runs[k].rev \in At /\ \A w \in runs[k].told : w.rev \in At /\ w.at \in At
    BY <2>1 DEF RunRow, Tellings
  <2> QED
    BY <2>1, <2>2, <2>3 DEF Sound
<1>2. /\ ing.step \in {"none", "results", "edges", "diagnostics"}
      /\ ing.step # "none" => ing.id \in DOMAIN runs /\ ing.report \in Report
  BY DEF IInv, IngTyped, Ingests, Done
<1>3. rev \in Rev /\ stored \in 0 .. MaxRuns /\ DOMAIN runs \subseteq RunId
  BY DEF IInv, RunsTyped
<1>4. DOMAIN graph.nodes = Art /\ \A e \in edges : {e.from, e.to} \subseteq Art
  BY DEF IInv, GraphTyped, IsGraph, IsNodes, edges
<1>5. judged.ids \subseteq Art
  BY JudgedIs DEF IInv
<1> QED
  BY <1>1, <1>2, <1>3, <1>4, <1>5 DEF TypeOK

LEMMA MadeIs ==
  ASSUME NEW p, NEW f, NEW r, NEW a \in BOOLEAN, NEW s,
         NEW n, n = [src |-> p, fp |-> f, rev |-> r, active |-> a, status |-> s]
  PROVE  n \in Made(n) /\ n # NoNode
<1>1. n.src = p /\ n.fp = f /\ n.rev = r /\ n.active = a /\ n.status = s
  OBVIOUS
<1>2. "fp" \in DOMAIN n /\ "fp" \notin DOMAIN NoNode
  BY DEF NoNode
<1> QED
  BY <1>1, <1>2 DEF Made

LEMMA NodeIs ==
  ASSUME NEW n, IsNode(n), n # NoNode
  PROVE  /\ n.active \in BOOLEAN
         /\ \A s : /\ IsNode([n EXCEPT !.status = s])
                   /\ [n EXCEPT !.status = s] # NoNode
                   /\ [n EXCEPT !.status = s].src = n.src
                   /\ [n EXCEPT !.status = s].active = n.active
         /\ /\ IsNode([n EXCEPT !.active = FALSE])
            /\ [n EXCEPT !.active = FALSE] # NoNode
            /\ [n EXCEPT !.active = FALSE].src = n.src
            /\ ~[n EXCEPT !.active = FALSE].active
<1>1. n \in Made(n)
  BY DEF IsNode
<1>2. ASSUME NEW s, NEW m, m = [n EXCEPT !.status = s]
      PROVE  m = [src |-> n.src, fp |-> n.fp, rev |-> n.rev, active |-> n.active, status |-> s]
  BY <1>1, <1>2 DEF Made
<1>3. ASSUME NEW m, m = [n EXCEPT !.active = FALSE]
      PROVE  m = [src |-> n.src, fp |-> n.fp, rev |-> n.rev, active |-> FALSE, status |-> n.status]
  BY <1>1, <1>3 DEF Made
<1>4. n.active \in BOOLEAN
  BY <1>1 DEF Made
<1>5. ASSUME NEW s, NEW m, m = [n EXCEPT !.status = s]
      PROVE  IsNode(m) /\ m # NoNode /\ m.src = n.src /\ m.active = n.active
  <2>1. m = [src |-> n.src, fp |-> n.fp, rev |-> n.rev, active |-> n.active, status |-> s]
    BY <1>2, <1>5
  <2> QED
    BY <1>4, <2>1, MadeIs DEF IsNode
<1>6. ASSUME NEW m, m = [n EXCEPT !.active = FALSE]
      PROVE  IsNode(m) /\ m # NoNode /\ m.src = n.src /\ ~m.active
  <2>1. m = [src |-> n.src, fp |-> n.fp, rev |-> n.rev, active |-> FALSE, status |-> n.status]
    BY <1>3, <1>6
  <2> QED
    BY <2>1, MadeIs DEF IsNode
<1> QED
  BY <1>4, <1>5, <1>6

(* The nodes R are the nodes m but for review states.                      *)
SameNodes(R, m) ==
  /\ IsNodes(R)
  /\ \A i \in Art :
       /\ R[i] = NoNode <=> m[i] = NoNode
       /\ m[i] # NoNode => R[i].src = m[i].src /\ R[i].active = m[i].active

(* The staleness pass changes review states only.                          *)
LEMMA ReviewedIs ==
  ASSUME NEW n, NEW e, NEW v, NEW m, NEW E, IsNodes(m),
         NEW R, R = G(n, e, v)!Reviewed(m, E, FALSE)
  PROVE  SameNodes(R, m)
<1>1. DOMAIN R = Art
  BY DEF G!Reviewed
<1>2. ASSUME NEW i \in Art
      PROVE  IF m[i] = NoNode THEN R[i] = NoNode
             ELSE \E s : R[i] = [m[i] EXCEPT !.status = s]
  BY DEF G!Reviewed, NoNode, G!NoNode
<1>3. ASSUME NEW i \in Art
      PROVE  /\ IsNode(R[i])
             /\ R[i] = NoNode <=> m[i] = NoNode
             /\ m[i] # NoNode => R[i].src = m[i].src /\ R[i].active = m[i].active
  <2>1. CASE m[i] = NoNode
    BY <1>2, <2>1 DEF IsNode
  <2>2. CASE m[i] # NoNode
    <3>1. PICK s : R[i] = [m[i] EXCEPT !.status = s]
      BY <1>2, <2>2
    <3>2. IsNode(m[i])
      BY DEF IsNodes
    <3>3. /\ IsNode([m[i] EXCEPT !.status = s])
          /\ [m[i] EXCEPT !.status = s] # NoNode
          /\ [m[i] EXCEPT !.status = s].src = m[i].src
          /\ [m[i] EXCEPT !.status = s].active = m[i].active
      BY <2>2, <3>2, NodeIs
    <3> QED
      BY <2>2, <3>1, <3>3
  <2> QED
    BY <2>1, <2>2
<1> QED
  BY <1>1, <1>3 DEF IsNodes, SameNodes

(* What a scan of the files F of T finds is active, and declared in one of *)
(* them.                                                                   *)
Found(new, T, F) ==
  /\ DOMAIN new = {d.id : d \in UNION {T[p] : p \in F}}
  /\ \A i \in DOMAIN new : /\ IsNode(new[i]) /\ new[i] # NoNode
                           /\ new[i].active = TRUE /\ new[i].src \in F

LEMMA ScannedIs ==
  ASSUME NEW n, NEW e, NEW v, NEW T, T[Conf] = {},
         NEW F, F \subseteq Art, NEW r,
         NEW new, new = G(n, e, v)!Scanned(T, F, r)
  PROVE  Found(new, T, F)
<1>1. DOMAIN new = {d.id : d \in UNION {T[p] : p \in F}}
  BY DEF G!Scanned, G!Ids
<1>2. ASSUME NEW i \in DOMAIN new PROVE G(n, e, v)!Source(T, F, i) \in F
  <2> DEFINE fs == G(n, e, v)!Declaring(T, F, i)
  <2>1. fs # {} /\ fs \subseteq F
    BY <1>1, <1>2 DEF G!Declaring, G!Ids
  <2>2. \E f \in fs : \A g \in fs : Rank[f] <= Rank[g]
    <3> DEFINE R == {Rank[f] : f \in fs}
    <3> HIDE DEF fs
    <3>1. R \subseteq Nat /\ R # {}
      BY <2>1, LimitsAssumption
    <3> HIDE DEF R
    <3>2. PICK k \in R : \A j \in R : k <= j
      BY <3>1, LeastNumber
    <3> QED
      BY <3>2 DEF R
  <2>3. G(n, e, v)!Source(T, F, i) = CHOOSE f \in fs : \A g \in fs : Rank[f] <= Rank[g]
    BY <2>1 DEF G!Source
  <2> HIDE DEF fs
  <2> QED
    BY <2>1, <2>2, <2>3
<1>3. ASSUME NEW i \in DOMAIN new
      PROVE  \E d, x : new[i] = [src |-> G(n, e, v)!Source(T, F, i), fp |-> d,
                                 rev |-> x, active |-> TRUE, status |-> "current"]
  BY <1>3 DEF G!Scanned, G!NewNode
<1>4. ASSUME NEW i \in DOMAIN new
      PROVE  /\ IsNode(new[i]) /\ new[i] # NoNode
             /\ new[i].active = TRUE /\ new[i].src \in F
  <2>1. PICK d, x : new[i] = [src |-> G(n, e, v)!Source(T, F, i), fp |-> d,
                              rev |-> x, active |-> TRUE, status |-> "current"]
    BY <1>3
  <2>2. new[i].active = TRUE /\ new[i].src \in F
    BY <1>2, <2>1
  <2>3. new[i] \in Made(new[i]) /\ new[i] # NoNode
    BY <2>1, MadeIs
  <2> QED
    BY <2>2, <2>3 DEF IsNode
<1> QED
  BY <1>1, <1>4 DEF Found

LEMMA EdgesIs ==
  ASSUME NEW n, NEW e, NEW v, NEW T, NEW F
  PROVE  \A d \in G(n, e, v)!EdgesOf(T, F) :
           /\ {d.from, d.to} \subseteq Art
           /\ d.from \in {x.id : x \in UNION {T[p] : p \in F}}
BY DEF G!EdgesOf, G!Edge

LEMMA InactiveIs ==
  ASSUME NEW n, NEW e, NEW v, NEW x, IsNode(x)
  PROVE  LET y == G(n, e, v)!Inactive(x)
         IN IsNode(y) /\ (y # NoNode => ~y.active)
BY NodeIs DEF G!Inactive, NoNode, G!NoNode, IsNode

LEMMA IndexedAllIs ==
  ASSUME NEW g, IsGraph(g), tree[Conf] = {}
  PROVE  IsGraph(IndexedAll(g))
<1>1. PICK new : new = G(g.nodes, g.edges, g.versions)!Scanned(tree, Art, rev)
  OBVIOUS
<1>2. PICK n : n = G(g.nodes, g.edges, g.versions)!FullNodes(new)
  OBVIOUS
<1>3. PICK E : E = G(g.nodes, g.edges, g.versions)!EdgesOf(tree, Art)
  OBVIOUS
<1>4. PICK R : R = G(g.nodes, g.edges, g.versions)!Reviewed(n, E, FALSE)
  OBVIOUS
<1>5. Found(new, tree, Art)
  <2>1. Art \subseteq Art
    OBVIOUS
  <2> QED
    BY <1>1, <2>1, ScannedIs
<1>6. /\ DOMAIN n = Art
      /\ \A i \in Art : n[i] = IF i \in DOMAIN new THEN new[i]
                               ELSE G(g.nodes, g.edges, g.versions)!Inactive(g.nodes[i])
  BY <1>2 DEF G!FullNodes
<1>7. \A d \in E : {d.from, d.to} \subseteq Art /\ d.from \in DOMAIN new
  BY <1>3, <1>5, EdgesIs DEF Found
<1>8. IndexedAll(g).nodes = R /\ IndexedAll(g).edges = E
      /\ DOMAIN IndexedAll(g) = {"nodes", "edges", "versions", "unread"}
  BY <1>1, <1>2, <1>3, <1>4 DEF IndexedAll
<1>9. IsNodes(n)
  <2>1. ASSUME NEW i \in Art PROVE IsNode(n[i])
    <3>1. IsNode(g.nodes[i])
      BY DEF IsGraph, IsNodes
    <3>2. IsNode(G(g.nodes, g.edges, g.versions)!Inactive(g.nodes[i]))
      BY <3>1, InactiveIs
    <3> QED
      BY <1>5, <1>6, <3>2 DEF Found
  <2> QED
    BY <1>6, <2>1 DEF IsNodes
<1>10. SameNodes(R, n)
  BY <1>4, <1>9, ReviewedIs
<1>11. \A i \in Art \cap DOMAIN new : i \in ActiveOf(R)
  BY <1>5, <1>6, <1>10 DEF Found, ActiveOf, SameNodes
<1> QED
  BY <1>7, <1>8, <1>10, <1>11 DEF IsGraph, SameNodes

(* What an incremental index leaves in force of the paths it has read is   *)
(* what they declare.                                                      *)
LEMMA IndexedChangedIs ==
  ASSUME NEW g, IsGraph(g), tree[Conf] = {}
  PROVE  LET h == IndexedChanged(g)
         IN /\ IsGraph(h)
            /\ {i \in ActiveOf(h.nodes) : h.nodes[i].src \in ChangeSet} = Art \cap Declared
<1>1. CASE ChangeSet = {}
  BY <1>1 DEF IndexedChanged, Declared
<1>2. CASE ChangeSet # {}
  <2>1. PICK C : C = ChangeSet
    OBVIOUS
  <2>2. PICK new : new = G(g.nodes, g.edges, g.versions)!Scanned(tree, C \cap Art, rev)
    OBVIOUS
  <2>3. PICK n : n = G(g.nodes, g.edges, g.versions)!MergedNodes(C, new)
    OBVIOUS
  <2>4. PICK L : L = G(g.nodes, g.edges, g.versions)!Lost(C, new)
    OBVIOUS
  <2>5. PICK D : D = G(g.nodes, g.edges, g.versions)!EdgesOf(tree, C \cap Art)
    OBVIOUS
  <2>6. PICK K : K = G(g.nodes, g.edges, g.versions)!KeptEdges(C, new)
    OBVIOUS
  <2>7. PICK R : R = G(g.nodes, g.edges, g.versions)!Reviewed(n, D \cup K, FALSE)
    OBVIOUS
  <2>8. PICK h : h = IndexedChanged(g)
    OBVIOUS
  <2>9. C \subseteq Art \cup {Conf}
    BY <2>1 DEF ChangeSet, G!ChangeSet, G!Path
  <2>10. C \cap Art \subseteq Art
    OBVIOUS
  <2>11. Found(new, tree, C \cap Art)
    BY <2>2, <2>10, ScannedIs
  <2>12. DOMAIN new = Declared
    <3>1. UNION {tree[p] : p \in C \cap Art} = UNION {tree[p] : p \in C}
      BY <2>9
    <3> QED
      BY <2>1, <2>11, <3>1 DEF Declared, Found
  <2>13. L = {i \in ActiveOf(g.nodes) \ DOMAIN new : g.nodes[i].src \in C}
    BY <2>4 DEF G!Lost, G!Active, G!ActiveIn, ActiveOf, NoNode, G!NoNode
  <2>14. /\ DOMAIN n = Art
         /\ \A i \in Art : n[i] = IF i \in DOMAIN new THEN new[i]
                                  ELSE IF i \in L
                                  THEN G(g.nodes, g.edges, g.versions)!Inactive(g.nodes[i])
                                  ELSE IF g.nodes[i].src \in C THEN NoNode ELSE g.nodes[i]
    BY <2>3, <2>4 DEF G!MergedNodes, NoNode, G!NoNode
  <2>15. K = {d \in g.edges : d.from \notin DOMAIN new \cup L}
    BY <2>4, <2>6 DEF G!KeptEdges
  <2>16. \A d \in D : {d.from, d.to} \subseteq Art /\ d.from \in DOMAIN new
    BY <2>5, <2>11, EdgesIs DEF Found
  <2>17. \A d \in D \cup K : /\ {d.from, d.to} \subseteq Art
                             /\ d.from \in DOMAIN new \cup (ActiveOf(g.nodes) \ L)
    BY <2>15, <2>16 DEF IsGraph
  <2>18. /\ h.nodes = R /\ h.edges = D \cup K
         /\ DOMAIN h = {"nodes", "edges", "versions", "unread"}
    BY <1>2, <2>1, <2>2, <2>3, <2>5, <2>6, <2>7, <2>8 DEF IndexedChanged
  <2>19. ASSUME NEW i \in Art
         PROVE  LET y == G(g.nodes, g.edges, g.versions)!Inactive(g.nodes[i])
                IN IsNode(g.nodes[i]) /\ IsNode(y) /\ (y # NoNode => ~y.active)
    <3>1. IsNode(g.nodes[i])
      BY DEF IsGraph, IsNodes
    <3> QED
      BY <3>1, InactiveIs
  <2>20. IsNodes(n)
    <3>1. IsNode(NoNode)
      BY DEF IsNode
    <3>2. ASSUME NEW i \in Art PROVE IsNode(n[i])
      BY <2>11, <2>14, <2>19, <3>1 DEF Found
    <3> QED
      BY <2>14, <3>2 DEF IsNodes
  <2>21. SameNodes(R, n)
    BY <2>7, <2>20, ReviewedIs
  <2>22. ASSUME NEW i \in Art \cap DOMAIN new
         PROVE  i \in ActiveOf(R) /\ R[i].src \in C
    BY <2>11, <2>14, <2>21 DEF Found, ActiveOf, SameNodes
  <2>23. ASSUME NEW i \in ActiveOf(g.nodes) \ (L \cup DOMAIN new)
         PROVE  i \in ActiveOf(R)
    BY <2>13, <2>14, <2>21 DEF ActiveOf, SameNodes
  <2>24. ASSUME NEW i \in ActiveOf(R), R[i].src \in C, i \notin DOMAIN new
         PROVE  FALSE
    <3>1. i \in Art /\ n[i] # NoNode /\ n[i].active /\ n[i].src \in C
      BY <2>21, <2>24 DEF ActiveOf, SameNodes
    <3>2. i \notin L
      BY <2>14, <2>19, <2>24, <3>1
    <3>3. n[i] = g.nodes[i]
      BY <2>14, <2>24, <3>1, <3>2
    <3> QED
      BY <2>13, <2>24, <3>1, <3>2, <3>3 DEF ActiveOf
  <2>25. IsGraph(h)
    BY <2>17, <2>18, <2>21, <2>22, <2>23 DEF IsGraph, SameNodes
  <2>26. {i \in ActiveOf(R) : R[i].src \in C} = Art \cap Declared
    BY <2>12, <2>22, <2>24 DEF ActiveOf
  <2> QED
    BY <2>1, <2>8, <2>18, <2>25, <2>26
<1> QED
  BY <1>1, <1>2

LEMMA InitIInv == Init => IInv
<1> SUFFICES ASSUME Init PROVE IInv
  OBVIOUS
<1>1. GraphTyped /\ IngTyped
  BY DEF Init, GraphTyped, IsGraph, IsNodes, IsNode, IngTyped
<1>2. RunsTyped /\ RunsOrdered
  <2>1. DOMAIN runs = {}
    BY DEF Init
  <2> QED
    BY <2>1 DEF RunsTyped, RunsOrdered
<1>3. JudgedTyped
  BY DEF Init, JudgedTyped
<1>4. rev \in Rev /\ stored \in 0 .. MaxRuns
  BY LimitsAssumption DEF Init, Rev
<1>5. tree[Conf] = {} /\ DOMAIN tree = Art \cup {Conf}
  BY KindsAssumption DEF Init
<1> QED
  BY <1>1, <1>2, <1>3, <1>4, <1>5 DEF IInv

(* What is under an id is there of what was told.                          *)
LEMMA StoredIs ==
  ASSUME RunsTyped, NEW k
  PROVE  /\ Stored(k).told \subseteq Tellings
         /\ Stored(k).ran \subseteq Test /\ Stored(k).passed \subseteq Test
         /\ Stored(k).execs \subseteq (Test \cup {Suite}) \X Impl
         /\ Sound(Stored(k))
<1>1. CASE k \in DOMAIN runs
  <2>1. Stored(k) = runs[k] /\ runs[k] \in RunRow /\ Sound(runs[k])
    BY <1>1 DEF Stored, RunsTyped, Run
  <2> QED
    BY <2>1 DEF RunRow
<1>2. CASE k \notin DOMAIN runs
  BY <1>2 DEF Stored, Sound
<1> QED
  BY <1>1, <1>2

(* More told is no less sound.                                             *)
LEMMA SoundGrows ==
  ASSUME NEW a, NEW b, Sound(a), a.told \subseteq b.told,
         b.ran = a.ran, b.passed = a.passed, b.execs = a.execs
  PROVE  Sound(b)
BY DEF Sound

LEMMA AddedRun ==
  ASSUME RunsTyped, stored \in Nat, NEW x \in Report, NEW r \in At, NEW k,
         NEW named \in BOOLEAN
  PROVE  LET R == EvidenceRun(x, r, k, named)
         IN /\ R \in Run
            /\ R.nth = stored + 1 /\ R.named = named
            /\ \E w \in R.told : w.of = x.of
<1>1. PICK R : R = EvidenceRun(x, r, k, named)
  OBVIOUS
<1>2. PICK w : w = [rev |-> r, at |-> x.at, of |-> x.of]
  OBVIOUS
<1>3. /\ R.rev = r /\ R.started = x.of.started /\ R.nth = stored + 1 /\ R.named = named
      /\ R.told = Stored(k).told \cup {w} /\ R.ran = Stored(k).ran
      /\ R.passed = Stored(k).passed /\ R.execs = Stored(k).execs
      /\ R = [rev |-> r, started |-> x.of.started, nth |-> stored + 1, named |-> named,
              told |-> Stored(k).told \cup {w}, ran |-> Stored(k).ran,
              passed |-> Stored(k).passed, execs |-> Stored(k).execs]
  BY <1>1, <1>2 DEF EvidenceRun
<1>4. w \in Tellings /\ w.of = x.of /\ x.of.started \in Nat
  BY <1>2, ReportIs DEF Tellings, Told
<1>5. Sound(R)
  BY <1>3, StoredIs, SoundGrows
<1>6. R \in RunRow
  BY <1>3, <1>4, StoredIs DEF RunRow
<1> QED
  BY <1>1, <1>3, <1>4, <1>5, <1>6 DEF Run

(* Adding the executions of a report to a run it was stored under.         *)
LEMMA ExecutionsRun ==
  ASSUME NEW R \in Run, NEW w \in R.told, NEW x \in Report, w.of = x.of,
         NEW S, S = [R EXCEPT !.execs = @ \cup Executions(x)]
  PROVE  S \in Run /\ S.nth = R.nth /\ S.named = R.named /\ S.told = R.told
<1>1. R \in RunRow /\ Sound(R)
  BY DEF Run
<1>2. /\ S.ran = R.ran /\ S.passed = R.passed /\ S.execs = R.execs \cup Executions(x)
      /\ S.nth = R.nth /\ S.named = R.named /\ S.told = R.told
  BY <1>1 DEF RunRow
<1>3. x.of.ran \subseteq Test /\ x.of.hit \subseteq Impl
  BY ReportIs DEF Told
<1>4. Executions(x) \subseteq (Test \cup {Suite}) \X x.of.hit
  BY <1>3 DEF Executions
<1>5. Executions(x) \subseteq (Test \cup {Suite}) \X Impl
  BY <1>3, <1>4
<1> HIDE DEF Executions
<1>6. S \in RunRow
  BY <1>1, <1>5 DEF RunRow
<1>7. Sound(S)
  <2>1. x.of.hit \subseteq UNION {v.of.hit : v \in R.told}
    OBVIOUS
  <2> QED
    BY <1>1, <1>2, <1>4, <2>1 DEF Sound
<1> QED
  BY <1>2, <1>6, <1>7 DEF Run

(* A run k that is stored last.                                            *)
LEMMA RunsGrow ==
  ASSUME RunsTyped, RunsOrdered, stored \in Nat,
         NEW named \in BOOLEAN, NEW k \in GivenId(named), NEW R \in Run,
         R.nth = stored + 1, R.named = named, stored' = stored + 1,
         runs' = [j \in DOMAIN runs \cup {k} |-> IF j = k THEN R ELSE runs[j]]
  PROVE  RunsTyped' /\ RunsOrdered'
<1>1. k \in RunId /\ (~named => k \notin Name /\ \A j \in DOMAIN runs \ Name : j < k)
  BY RunIdAssumption DEF GivenId, RunsTyped
<1>2. /\ DOMAIN runs' = DOMAIN runs \cup {k} /\ runs'[k] = R
      /\ \A j \in DOMAIN runs \ {k} : runs'[j] = runs[j]
  OBVIOUS
<1>3. RunsTyped'
  BY <1>1, <1>2 DEF RunsTyped
<1>4. \A j \in DOMAIN runs : runs[j].nth \in Nat /\ runs[j].nth <= stored /\ runs[j].nth >= 1
  BY DEF RunsOrdered
<1>5. \A j \in DOMAIN runs' : runs'[j].nth \in 1 .. stored'
  BY <1>2, <1>4
<1>6. \A i, j \in DOMAIN runs' : runs'[i].nth = runs'[j].nth => i = j
  BY <1>2, <1>4 DEF RunsOrdered
<1>7. \A j \in DOMAIN runs' : ~runs'[j].named => j \notin Name
  BY <1>1, <1>2 DEF RunsOrdered
<1>8. \A i, j \in DOMAIN runs' :
        (~runs'[i].named /\ ~runs'[j].named /\ runs'[i].nth < runs'[j].nth) => i < j
  <2> SUFFICES ASSUME NEW i \in DOMAIN runs', NEW j \in DOMAIN runs',
                      ~runs'[i].named, ~runs'[j].named, runs'[i].nth < runs'[j].nth
               PROVE  i < j
    OBVIOUS
  <2>1. i # k
    BY <1>2, <1>4
  <2>2. CASE j = k
    <3>1. i \in DOMAIN runs \ Name /\ ~named
      BY <1>2, <2>1, <2>2 DEF RunsOrdered
    <3> QED
      BY <1>1, <2>2, <3>1
  <2>3. CASE j # k
    BY <1>2, <2>1, <2>3 DEF RunsOrdered
  <2> QED
    BY <2>2, <2>3
<1> QED
  BY <1>3, <1>5, <1>6, <1>7, <1>8 DEF RunsOrdered

(* A run that is written to in its place.                                  *)
LEMMA RunsChange ==
  ASSUME RunsTyped, RunsOrdered, NEW k \in DOMAIN runs, NEW R \in Run,
         R.nth = runs[k].nth, R.named = runs[k].named, R.told = runs[k].told,
         stored' = stored, runs' = [j \in DOMAIN runs |-> IF j = k THEN R ELSE runs[j]]
  PROVE  /\ RunsTyped' /\ RunsOrdered'
         /\ DOMAIN runs' = DOMAIN runs /\ runs'[k].told = runs[k].told
<1>1. /\ DOMAIN runs' = DOMAIN runs /\ runs'[k] = R
      /\ \A j \in DOMAIN runs \ {k} : runs'[j] = runs[j]
  OBVIOUS
<1>2. \A j \in DOMAIN runs : runs'[j].nth = runs[j].nth /\ runs'[j].named = runs[j].named
  BY <1>1
<1>3. RunsTyped'
  BY <1>1 DEF RunsTyped
<1>4. RunsOrdered'
  BY <1>1, <1>2 DEF RunsOrdered
<1> QED
  BY <1>1, <1>3, <1>4

LEMMA UnjudgedIs ==
  ASSUME judged' = Unjudged
  PROVE  JudgedTyped'
BY DEF JudgedTyped

LEMMA SameEvidence ==
  ASSUME RunsTyped, RunsOrdered, IngTyped, UNCHANGED <<runs, ing, stored>>
  PROVE  RunsTyped' /\ RunsOrdered' /\ IngTyped'
BY DEF RunsTyped, RunsOrdered, IngTyped, Ingests

LEMMA NextIInv == IInv /\ [Next]_vars => IInv'
<1> SUFFICES ASSUME IInv, [Next]_vars PROVE IInv'
  OBVIOUS
<1> USE DEF IInv
<1>0. ASSUME UNCHANGED git
      PROVE  /\ rev' \in Rev /\ tree'[Conf] = {} /\ DOMAIN tree' = Art \cup {Conf}
             /\ ChangeSet' = ChangeSet /\ Declared' = Declared
  BY <1>0 DEF git, ChangeSet, Declared, G!ChangeSet, G!Path
<1>1. ASSUME UNCHANGED <<git, judged>> PROVE JudgedTyped'
  BY <1>0, <1>1 DEF JudgedTyped
<1>2. CASE UNCHANGED vars
  <2>1. UNCHANGED <<graph, runs, ing, stored>>
    BY <1>2 DEF vars, evidence
  <2> QED
    BY <1>0, <1>1, <1>2, <2>1, SameEvidence DEF vars, GraphTyped
<1>3. CASE \/ \E p \in Art : \E c \in Draft[p] : Edit(p, c)
           \/ Commit
  <2>1. UNCHANGED <<graph, runs, ing, stored>> /\ judged' = Unjudged
    BY <1>3 DEF Edit, Commit, evidence
  <2>2. rev' \in Rev
    BY <1>3, LimitsAssumption DEF Edit, Commit, Rev
  <2>3. tree'[Conf] = {} /\ DOMAIN tree' = Art \cup {Conf}
    BY <1>3, KindsAssumption DEF Edit, Commit
  <2> QED
    BY <2>1, <2>2, <2>3, UnjudgedIs, SameEvidence DEF GraphTyped
<1>4. CASE IndexAll
  <2>1. IsGraph(graph')
    BY <1>4, IndexedAllIs DEF IndexAll, GraphTyped
  <2> QED
    BY <1>0, <1>4, <2>1, UnjudgedIs, SameEvidence DEF IndexAll, evidence, GraphTyped
<1>5. ASSUME NEW i \in Art, Review(i) PROVE IInv'
  <2> DEFINE near == G(nodes, edges, graph.versions)!Closure(i)
             n == [j \in Art |-> IF j \in near /\ Stale(j)
                                 THEN [nodes[j] EXCEPT !.status = "reviewed"]
                                 ELSE nodes[j]]
  <2>1. graph' = [graph EXCEPT !.nodes = n] /\ DOMAIN n = Art
    BY <1>5 DEF Review
  <2>2. ASSUME NEW j \in Art
        PROVE  /\ IsNode(n[j])
               /\ j \in ActiveOf(nodes) => j \in ActiveOf(n)
    <3>1. CASE j \in near /\ Stale(j)
      BY <3>1, NodeIs DEF Stale, ActiveOf, GraphTyped, IsGraph, IsNodes, nodes
    <3>2. CASE ~(j \in near /\ Stale(j))
      BY <3>2 DEF ActiveOf, GraphTyped, IsGraph, IsNodes, nodes
    <3> QED
      BY <3>1, <3>2
  <2> HIDE DEF n
  <2>3. IsNodes(n) /\ ActiveOf(nodes) \subseteq ActiveOf(n)
    BY <2>1, <2>2 DEF IsNodes, ActiveOf
  <2>4. IsGraph(graph')
    BY <2>1, <2>3 DEF GraphTyped, IsGraph, nodes
  <2>5. judged' = Unjudged /\ UNCHANGED <<git, runs, ing, stored>>
    BY <1>5 DEF Review, evidence
  <2> QED
    BY <1>0, <2>4, <2>5, UnjudgedIs, SameEvidence DEF GraphTyped
<1>6. CASE Verify
  <2> DEFINE g == IF G(nodes, edges, graph.versions)!MustRebuild
                  THEN IndexedAll(graph) ELSE graph
  <2>1. IsGraph(g)
    BY IndexedAllIs DEF GraphTyped
  <2>2. graph' = IndexedChanged(g)
    BY <1>6 DEF Verify, Refreshed
  <2> HIDE DEF g
  <2>3. /\ IsGraph(graph')
        /\ {i \in ActiveOf(graph'.nodes) : graph'.nodes[i].src \in ChangeSet}
             = Art \cap Declared
    BY <2>1, <2>2, IndexedChangedIs
  <2>4. judged' = [done |-> TRUE, ids |-> Art \cap Declared]
    BY <1>6, <2>3 DEF Verify, ActiveOf
  <2>5. UNCHANGED <<git, runs, ing, stored>>
    BY <1>6 DEF Verify, evidence
  <2>6. JudgedTyped'
    BY <1>0, <2>4, <2>5 DEF JudgedTyped
  <2> QED
    BY <1>0, <2>3, <2>5, <2>6, SameEvidence DEF GraphTyped
<1>7. CASE AddEvidenceRun
  <2>1. PICK x \in Report, named \in BOOLEAN :
          \E r \in Revision(x), k \in GivenId(named) :
            /\ runs' = [j \in DOMAIN runs \cup {k} |->
                          IF j = k THEN EvidenceRun(x, r, k, named) ELSE runs[j]]
            /\ ing' = [step |-> "results", id |-> k, report |-> x]
    BY <1>7 DEF AddEvidenceRun
  <2>2. PICK r \in Revision(x), k \in GivenId(named) :
          /\ runs' = [j \in DOMAIN runs \cup {k} |->
                        IF j = k THEN EvidenceRun(x, r, k, named) ELSE runs[j]]
          /\ ing' = [step |-> "results", id |-> k, report |-> x]
    BY <2>1
  <2>3. r \in At
    BY ReportIs DEF Revision, At
  <2>4. /\ stored' = stored + 1 /\ stored \in Nat /\ stored' \in 0 .. MaxRuns
        /\ judged' = Unjudged /\ UNCHANGED <<git, graph>>
    BY <1>7, LimitsAssumption DEF AddEvidenceRun
  <2>5. PICK R : R = EvidenceRun(x, r, k, named)
    OBVIOUS
  <2>6. /\ R \in Run /\ R.nth = stored + 1 /\ R.named = named
        /\ \E w \in R.told : w.of = x.of
    BY <2>3, <2>4, <2>5, AddedRun
  <2>7. RunsTyped' /\ RunsOrdered'
    BY <2>2, <2>4, <2>5, <2>6, RunsGrow
  <2>8. Ingests(ing)'
    <3>1. ing'.step = "results" /\ ing'.id = k /\ ing'.report = x
      BY <2>2
    <3>2. k \in DOMAIN runs' /\ runs'[k] = R
      BY <2>2, <2>5
    <3> QED
      BY <2>2, <2>6, <3>1, <3>2 DEF Ingests
  <2> QED
    BY <1>0, <2>4, <2>7, <2>8, UnjudgedIs DEF GraphTyped, IngTyped
<1>8. CASE AddTestResults
  <2>1. ing.step = "results" /\ ing # Done
    BY <1>8 DEF AddTestResults, Done
  <2>2. PICK k, x : /\ k = ing.id /\ x = ing.report
                    /\ k \in DOMAIN runs /\ x \in Report
                    /\ ing = [step |-> "results", id |-> k, report |-> x]
                    /\ \E w \in runs[k].told : w.of = x.of
    BY <2>1 DEF IngTyped, Ingests
  <2>3. PICK w \in runs[k].told : w.of = x.of
    BY <2>2
  <2>4. PICK R, a, b : /\ a = runs[k].ran \cup x.of.ran
                       /\ b = (runs[k].passed \ x.of.ran) \cup x.of.passed
                       /\ R = [runs[k] EXCEPT !.ran = a, !.passed = b]
    OBVIOUS
  <2>5. runs[k] \in Run
    BY <2>2 DEF RunsTyped
  <2>6. runs' = [j \in DOMAIN runs |-> IF j = k THEN R ELSE runs[j]]
    <3>1. runs' = [runs EXCEPT ![k].ran = a, ![k].passed = b]
      BY <1>8, <2>2, <2>4, <2>5 DEF AddTestResults, Run, RunRow
    <3> QED
      BY <2>2, <2>4, <2>5, <3>1 DEF Run, RunRow
  <2>7. R \in Run /\ R.nth = runs[k].nth /\ R.named = runs[k].named /\ R.told = runs[k].told
    <3>1. runs[k] \in RunRow /\ Sound(runs[k])
      BY <2>5 DEF Run
    <3>2. /\ R.ran = a /\ R.passed = b /\ R.execs = runs[k].execs
          /\ R.nth = runs[k].nth /\ R.named = runs[k].named /\ R.told = runs[k].told
      BY <2>4, <3>1 DEF RunRow
    <3>3. x.of.ran \subseteq Test /\ x.of.passed \subseteq x.of.ran
      BY <2>2, ReportIs DEF Told
    <3>4. a \subseteq Test /\ b \subseteq Test
      BY <2>4, <3>1, <3>3 DEF RunRow
    <3>5. R \in RunRow
      BY <2>4, <3>1, <3>4 DEF RunRow
    <3>6. Sound(R)
      BY <2>3, <2>4, <3>1, <3>2, <3>3 DEF Sound
    <3> QED
      BY <3>2, <3>5, <3>6 DEF Run
  <2>8. /\ stored' = stored /\ judged' = Unjudged /\ UNCHANGED <<git, graph>>
        /\ ing' = [step |-> "edges", id |-> k, report |-> x]
    BY <1>8, <2>2 DEF AddTestResults
  <2>9. /\ RunsTyped' /\ RunsOrdered'
        /\ DOMAIN runs' = DOMAIN runs /\ runs'[k].told = runs[k].told
    BY <2>2, <2>6, <2>7, <2>8, RunsChange
  <2>10. Ingests(ing)'
    BY <2>2, <2>8, <2>9 DEF Ingests
  <2> QED
    BY <1>0, <2>8, <2>9, <2>10, UnjudgedIs DEF GraphTyped, IngTyped
<1>9. CASE AddExecutionEdges
  <2>1. ing.step = "edges" /\ ing # Done
    BY <1>9 DEF AddExecutionEdges, Done
  <2>2. PICK k, x : /\ k = ing.id /\ x = ing.report
                    /\ k \in DOMAIN runs /\ x \in Report
                    /\ ing = [step |-> "edges", id |-> k, report |-> x]
                    /\ \E w \in runs[k].told : w.of = x.of
    BY <2>1 DEF IngTyped, Ingests
  <2>3. PICK w \in runs[k].told : w.of = x.of
    BY <2>2
  <2>4. PICK R : R = [runs[k] EXCEPT !.execs = @ \cup Executions(x)]
    OBVIOUS
  <2>5. runs[k] \in Run
    BY <2>2 DEF RunsTyped
  <2>6. runs' = [j \in DOMAIN runs |-> IF j = k THEN R ELSE runs[j]]
    <3>1. runs' = [runs EXCEPT ![k].execs = @ \cup Executions(x)]
      BY <1>9, <2>2 DEF AddExecutionEdges
    <3> QED
      BY <2>4, <3>1
  <2>7. R \in Run /\ R.nth = runs[k].nth /\ R.named = runs[k].named /\ R.told = runs[k].told
    BY <2>2, <2>3, <2>4, <2>5, ExecutionsRun
  <2>8. /\ stored' = stored /\ judged' = Unjudged /\ UNCHANGED <<git, graph>>
        /\ ing' \in {Done, [step |-> "diagnostics", id |-> k, report |-> x]}
    BY <1>9, <2>2 DEF AddExecutionEdges
  <2>9. /\ RunsTyped' /\ RunsOrdered'
        /\ DOMAIN runs' = DOMAIN runs /\ runs'[k].told = runs[k].told
    BY <2>2, <2>6, <2>7, <2>8, RunsChange
  <2>10. IngTyped'
    <3>1. CASE ing' = Done
      BY <3>1 DEF IngTyped
    <3>2. CASE ing' = [step |-> "diagnostics", id |-> k, report |-> x]
      BY <2>2, <2>9, <3>2 DEF IngTyped, Ingests
    <3> QED
      BY <2>8, <3>1, <3>2
  <2> QED
    BY <1>0, <2>8, <2>9, <2>10, UnjudgedIs DEF GraphTyped
<1>10. CASE InsertDiagnostics
  <2>1. graph' = [graph EXCEPT !.unread = TRUE]
    BY <1>10 DEF InsertDiagnostics
  <2>2. IsGraph(graph')
    BY <2>1 DEF GraphTyped, IsGraph
  <2>3. ing' = Done /\ judged' = Unjudged /\ UNCHANGED <<git, runs, stored>>
    BY <1>10 DEF InsertDiagnostics
  <2>4. RunsTyped' /\ RunsOrdered'
    BY <2>3 DEF RunsTyped, RunsOrdered
  <2> QED
    BY <1>0, <2>2, <2>3, <2>4, UnjudgedIs DEF GraphTyped, IngTyped
<1>11. CASE Kill
  <2>1. ing' = Done /\ UNCHANGED <<git, graph, runs, stored, judged>>
    BY <1>11 DEF Kill
  <2>2. RunsTyped' /\ RunsOrdered'
    BY <2>1 DEF RunsTyped, RunsOrdered
  <2> QED
    BY <1>0, <1>1, <2>1, <2>2 DEF GraphTyped, IngTyped
<1> QED
  BY <1>2, <1>3, <1>4, <1>5, <1>6, <1>7, <1>8, <1>9, <1>10, <1>11 DEF Next

LEMMA IInvAlways == Spec => []IInv
BY InitIInv, NextIInv, PTL DEF Spec

(* A run in the store, and the graph, stay what they are typed as, however *)
(* ingests, indexes and kills alternate.                                   *)
THEOREM TypeCorrect == Spec => []TypeOK
BY IInvAlways, IInvTypes, PTL

-----------------------------------------------------------------------------
(* What a pass means.                                                      *)

LEMMA TestRulesEnabled ==
  ASSUME NEW p \in Gated, NEW l \in Gating, TestsRequired(l)
  PROVE  {"TL020", "TL021"} \subseteq Enabled(p, l, FALSE)
<1>1. {"verifying_test", "test_pass"} \subseteq Requirements(p, l)
  BY DEF Gated, Gating, Requirements, MergePlus
<1>2. {"verifying_test", "test_pass"} \subseteq Effective(p, l)
  BY <1>1 DEF TestsRequired, Effective
<1>3. /\ {"TL020", "TL021"} \subseteq DOMAIN Gate
      /\ Gate["TL020"] = "verifying_test" /\ Gate["TL021"] = "test_pass"
  BY DEF Gate
<1> QED
  BY <1>2, <1>3 DEF Enabled

LEMMA PassMeans ==
  ASSUME NEW p \in Gated, NEW l \in Gating, TestsRequired(l), NEW S, NEW P,
         ~Blocking(p, l, FALSE, S, P), NEW q \in Req \cap S
  PROVE  /\ Waived("TL020", q) \/ From(Test, q) # {}
         /\ \A t \in From(Test, q) : Waived("TL021", t) \/ TestPassed(t)
<1>1. \A r \in {"TL020", "TL021"} : r \notin Failing(S, P, Override[l].waivers)
  BY TestRulesEnabled DEF Blocking
<1>2. \A r \in {"TL020", "TL021"} : \A x \in Finding(r, S, P) : Waived(r, x)
  BY <1>1, RuleIs DEF Failing, Errors
<1>3. Finding("TL020", S, P) = TL020(S) /\ Finding("TL021", S, P) = TL021(S)
  BY DEF Finding
<1>4. q \in TL020(S) \/ From(Test, q) # {}
  BY DEF TL020
<1>5. \A t \in From(Test, q) : t \in TL021(S) \/ TestPassed(t)
  BY DEF TL021
<1> QED
  BY <1>2, <1>3, <1>4, <1>5

(* A test that passes for the rules has passed in a report of the commit.  *)
LEMMA PassedTest ==
  ASSUME RunsTyped, NEW t, TestPassed(t), \A k \in DOMAIN runs : Honest(k) /\ ~Moved(k)
  PROVE  \E k \in DOMAIN runs : \E w \in runs[k].told : t \in w.of.passed /\ w.at = rev
<1>1. PICK k \in DOMAIN runs : runs[k].rev = rev /\ t \in runs[k].passed
  BY DEF TestPassed, LatestRun, RunsAt, Passed
<1>2. Sound(runs[k])
  BY DEF RunsTyped, Run
<1>3. PICK w \in runs[k].told : t \in w.of.passed
  BY <1>1, <1>2 DEF Sound
<1>4. w.at = rev
  BY <1>1 DEF Honest, Moved
<1> QED
  BY <1>3, <1>4

(* What is let through for merge has, for each requirement, tests that     *)
(* passed on exactly the committed text, where no run id is given again    *)
(* at another commit.                                                      *)
THEOREM PassEvidenced == Spec => []PassIsEvidenced
<1>1. IInv => PassIsEvidenced
  <2> SUFFICES ASSUME IInv, judged.done,
                      \A k \in DOMAIN runs : Honest(k) /\ ~Moved(k),
                      NEW p \in Gated, NEW l \in Gating, TestsRequired(l),
                      ~Blocking(p, l, FALSE, judged.ids, ChangeSet),
                      NEW q \in Req \cap Declared
               PROVE  /\ Waived("TL020", q) \/ From(Test, q) # {}
                      /\ \A t \in From(Test, q) :
                           \/ Waived("TL021", t)
                           \/ \E k \in DOMAIN runs : \E w \in runs[k].told :
                                t \in w.of.passed /\ w.at = rev
    BY DEF PassIsEvidenced, PassedHere
  <2>1. q \in Req \cap judged.ids
    BY JudgedIs DEF IInv, Art
  <2>2. /\ Waived("TL020", q) \/ From(Test, q) # {}
        /\ \A t \in From(Test, q) : Waived("TL021", t) \/ TestPassed(t)
    BY <2>1, PassMeans
  <2> QED
    BY <2>2, PassedTest DEF IInv
<1> QED
  BY <1>1, IInvAlways, PTL

(* Runs whose ids ingest made up, that tell of time alike and in the order *)
(* in which they were stored.                                              *)
InOrder ==
  \A j, k \in RunsAt(rev) :
    /\ ~runs[k].named
    /\ Timed(j) = Timed(k)
    /\ runs[j].nth < runs[k].nth => Started(j) <= Started(k)

(* The last of runs that are in order is the one the rules look at.        *)
LEMMA LastDecides ==
  ASSUME RunsTyped, RunsOrdered, InOrder,
         NEW k \in RunsAt(rev), \A j \in RunsAt(rev) : runs[j].nth <= runs[k].nth
  PROVE  LatestRun(rev) = {k}
<1>1. ASSUME NEW j \in RunsAt(rev)
      PROVE  j \in DOMAIN runs /\ j \in Nat /\ Started(j) \in Nat /\ runs[j].nth \in Nat
  <2>1. j \in DOMAIN runs /\ j \in RunId /\ runs[j] \in RunRow
    BY DEF RunsAt, RunsTyped, Run
  <2> QED
    BY <2>1, RunIdAssumption DEF RunRow, Started
<1>2. ASSUME NEW j \in RunsAt(rev) \ {k}
      PROVE  Newer(k, j) /\ ~Newer(j, k)
  <2>1. runs[j].nth # runs[k].nth
    BY <1>1 DEF RunsOrdered
  <2>2. runs[j].nth < runs[k].nth
    BY <1>1, <2>1
  <2>3. j < k
    BY <1>1, <2>2 DEF RunsOrdered, InOrder
  <2>4. Started(j) <= Started(k)
    BY <2>2 DEF InOrder
  <2> QED
    BY <1>1, <2>3, <2>4 DEF Newer
<1> QED
  BY <1>2 DEF LatestRun

(* What is stored last about the commit decides: an older pass does not    *)
(* hide a failure, where ingest made up the ids.                           *)
THEOREM LatestDecides == Spec => []LatestRunDecides
<1>1. IInv => LatestRunDecides
  <2> SUFFICES ASSUME RunsTyped, RunsOrdered, InOrder,
                      NEW k \in RunsAt(rev),
                      \A j \in RunsAt(rev) : runs[j].nth <= runs[k].nth,
                      JudgedTyped, judged.done,
                      NEW q \in Req \cap Declared, NEW t \in From(Test, q),
                      ~Passed(k, t), ~Waived("TL021", t),
                      NEW p \in Gated, NEW l \in Gating, TestsRequired(l)
               PROVE  Blocking(p, l, FALSE, judged.ids, ChangeSet)
    BY DEF IInv, LatestRunDecides, InOrder
  <2>1. LatestRun(rev) = {k}
    BY LastDecides
  <2>2. ~TestPassed(t)
    BY <2>1 DEF TestPassed
  <2>3. q \in Req \cap judged.ids
    BY JudgedIs DEF Art
  <2> QED
    BY <2>2, <2>3, PassMeans
<1> QED
  BY <1>1, IInvAlways, PTL

-----------------------------------------------------------------------------
(* Asking for more.                                                        *)

LEMMA LifecycleIs ==
  ASSUME NEW l \in 1 .. 5
  PROVE  Override[Lifecycle[l]].waivers \in BOOLEAN
<1>1. Lifecycle[l] \in {"draft", "wip", "review", "merge", "release"}
  BY DEF Lifecycle
<1> QED
  BY <1>1, OverrideAssumption

(* Whether what fails, with waivers and without them, stops a change.      *)
Fails(l, failing) ==
  IF Override[Lifecycle[l]].waivers THEN failing.waived ELSE failing.plain

LEMMA StopsIs ==
  ASSUME NEW p \in 1 .. 4, NEW l \in 1 .. 5, NEW f \in BOOLEAN, NEW F
  PROVE  Stops(p, l, f, F) <=>
           \/ f /\ graph.unread
           \/ Enabled(Profile[p], Lifecycle[l], f) \cap Fails(l, F) # {}
<1>1. EnabledAt[p][l][f] = Enabled(Profile[p], Lifecycle[l], f)
  BY DEF EnabledAt
<1> QED
  BY <1>1 DEF Stops, Exit, Fails

LEMMA StopsGrows ==
  ASSUME NEW p \in 1 .. 4, NEW l \in 1 .. 5, NEW f \in BOOLEAN, NEW F,
         NEW q \in 1 .. 4, NEW m \in 1 .. 5, NEW g \in BOOLEAN, NEW H,
         Stops(p, l, f, F), f => g, Fails(l, F) \subseteq Fails(m, H),
         Enabled(Profile[p], Lifecycle[l], f) \subseteq Enabled(Profile[q], Lifecycle[m], g)
  PROVE  Stops(q, m, g, H)
<1>1. \/ f /\ graph.unread
      \/ Enabled(Profile[p], Lifecycle[l], f) \cap Fails(l, F) # {}
  BY StopsIs
<1>2. \/ g /\ graph.unread
      \/ Enabled(Profile[q], Lifecycle[m], g) \cap Fails(m, H) # {}
  BY <1>1
<1> QED
  BY <1>2, StopsIs

(* What blocks goes on blocking under a stricter profile, with evidence    *)
(* required, at the next lifecycle if the policy takes nothing back there, *)
(* and over the whole repository unless it blocks for a changed path only. *)
THEOREM StricterMore == Spec => []StricterBlocksMore
<1>1. IInv => StricterBlocksMore
  <2> DEFINE some == FailingIn(judged.ids, ChangeSet)
             all == FailingIn(Art, {})
             apart == [waived |-> some.waived \ PathRule, plain |-> some.plain \ PathRule]
  <2>1. ASSUME NEW p \in 1 .. 4, NEW l \in 1 .. 5, NEW f \in BOOLEAN, Stops(p, l, f, some)
        PROVE  /\ p < 4 => Stops(p + 1, l, f, some)
               /\ (l < 5 /\ Tightens(Lifecycle[l], Lifecycle[l + 1])) =>
                    Stops(p, l + 1, f, some)
               /\ Stops(p, l, TRUE, some)
    <3> HIDE DEF some
    <3>1. ASSUME p < 4 PROVE Stops(p + 1, l, f, some)
      <4>1. p \in 1 .. 3 /\ p + 1 \in 1 .. 4
        BY <3>1
      <4>2. /\ ProfileRules(Profile[p], Lifecycle[l]) \subseteq
                 ProfileRules(Profile[p + 1], Lifecycle[l])
            /\ Effective(Profile[p], Lifecycle[l]) \subseteq
                 Effective(Profile[p + 1], Lifecycle[l])
        BY <4>1, StricterProfile DEF Effective
      <4>3. Enabled(Profile[p], Lifecycle[l], f) \subseteq
              Enabled(Profile[p + 1], Lifecycle[l], f)
        BY <4>2, EnabledGrows
      <4> QED
        BY <2>1, <4>1, <4>3, StopsGrows
    <3>2. ASSUME l < 5, Tightens(Lifecycle[l], Lifecycle[l + 1])
          PROVE  Stops(p, l + 1, f, some)
      <4>1. l \in 1 .. 4 /\ l + 1 \in 1 .. 5
        BY <3>2
      <4>2. /\ ProfileRules(Profile[p], Lifecycle[l]) \subseteq
                 ProfileRules(Profile[p], Lifecycle[l + 1])
            /\ Effective(Profile[p], Lifecycle[l]) \subseteq
                 Effective(Profile[p], Lifecycle[l + 1])
        BY <3>2, <4>1, LaterLifecycle DEF Effective, Tightens
      <4>3. Enabled(Profile[p], Lifecycle[l], f) \subseteq
              Enabled(Profile[p], Lifecycle[l + 1], f)
        BY <4>2, EnabledGrows
      <4>4. Fails(l, some) \subseteq Fails(l + 1, some)
        <5>1. some.waived \subseteq some.plain
          BY UnwaivedFails DEF some, FailingIn
        <5> QED
          BY <3>2, <4>1, <5>1, LifecycleIs DEF Fails, Tightens
      <4> QED
        BY <2>1, <4>1, <4>3, <4>4, StopsGrows
    <3>3. \A g \in BOOLEAN : g => Stops(p, l, g, some)
      <4> SUFFICES ASSUME NEW g \in BOOLEAN, g PROVE Stops(p, l, g, some)
        OBVIOUS
      <4>1. Enabled(Profile[p], Lifecycle[l], f) \subseteq Enabled(Profile[p], Lifecycle[l], g)
        BY EnabledGrows
      <4>2. /\ Stops(p, l, f, some) <=>
                 \/ f /\ graph.unread
                 \/ Enabled(Profile[p], Lifecycle[l], f) \cap Fails(l, some) # {}
            /\ Stops(p, l, g, some) <=>
                 \/ g /\ graph.unread
                 \/ Enabled(Profile[p], Lifecycle[l], g) \cap Fails(l, some) # {}
        BY StopsIs
      <4> QED
        BY <2>1, <4>1, <4>2
    <3> QED
      BY <3>1, <3>2, <3>3
  <2>2. ASSUME NEW p \in 1 .. 4, NEW l \in 1 .. 5, NEW f \in BOOLEAN, Stops(p, l, f, apart),
               judged.ids \subseteq Art
        PROVE  Stops(p, l, f, all)
    <3>1. apart.waived \subseteq all.waived /\ apart.plain \subseteq all.plain
      BY <2>2, FailingGrows DEF FailingIn
    <3> HIDE DEF apart, all
    <3>2. Fails(l, apart) \subseteq Fails(l, all)
      BY <3>1, LifecycleIs DEF Fails
    <3> QED
      BY <2>2, <3>2, StopsGrows
  <2>3. ASSUME IInv PROVE judged.ids \subseteq Art
    BY <2>3, JudgedIs DEF IInv
  <2> QED
    BY <2>1, <2>2, <2>3 DEF StricterBlocksMore
<1> QED
  BY <1>1, IInvAlways, PTL

-----------------------------------------------------------------------------
(* Fulfillment, context, the pull request summary and why.                 *)

(* Where all evidence is of HEAD, complete and of one kind, latest_outcome *)
(* finds the run the rules look at.                                        *)
LEMMA SameRun ==
  ASSUME RunsTyped, Comparable, NEW t \in Test
  PROVE  LatestOutcome(t) = LatestRun(rev)
<1>1. RunsAt(rev) = DOMAIN runs
  BY DEF RunsAt, Comparable
<1>2. {k \in DOMAIN runs : t \in runs[k].ran} = DOMAIN runs
  BY DEF Comparable
<1>3. ASSUME NEW j \in DOMAIN runs, NEW k \in DOMAIN runs
      PROVE  Later(j, k) <=> Newer(j, k)
  <2>1. /\ j \in RunId /\ k \in RunId /\ j \in Nat /\ k \in Nat
        /\ Place[j] \in Nat /\ Place[k] \in Nat
        /\ j < k => Place[j] <= Place[k]
        /\ k < j => Place[k] <= Place[j]
    <3>1. j \in RunId /\ k \in RunId
      BY DEF RunsTyped
    <3>2. Place[j] \in 0 .. MaxRuns /\ Place[k] \in 0 .. MaxRuns
      BY <3>1, RunIdAssumption
    <3> QED
      BY <3>1, <3>2, RunIdAssumption, LimitsAssumption
  <2>2. Started(j) \in Nat /\ Started(k) \in Nat
    BY DEF RunsTyped, Run, RunRow, Started
  <2>3. Started(j) = 0 <=> Started(k) = 0
    BY DEF Comparable, Timed
  <2>4. CASE Started(k) = 0
    <3>1. Key(j) = 2 * Place[j] + 1 /\ Key(k) = 2 * Place[k] + 1
      BY <2>3, <2>4 DEF Key, Timed
    <3> QED
      BY <2>1, <2>3, <2>4, <3>1 DEF Later, Newer
  <2>5. CASE Started(k) # 0
    <3>1. Key(j) = 2 * Started(j) /\ Key(k) = 2 * Started(k)
      BY <2>3, <2>5 DEF Key, Timed
    <3> QED
      BY <2>1, <2>2, <3>1 DEF Later, Newer
  <2> QED
    BY <2>4, <2>5
<1>4. {k \in DOMAIN runs : \A j \in DOMAIN runs \ {k} : Later(k, j)}
        = {k \in DOMAIN runs : \A j \in DOMAIN runs \ {k} : Newer(k, j)}
  BY <1>3
<1> QED
  BY <1>1, <1>2, <1>4 DEF LatestOutcome, LatestRun

LEMMA OutcomeIs ==
  ASSUME NEW t
  PROVE  /\ Outcome(t) \in {"none", "fail", "pass"}
         /\ Outcome(t) = "pass" <=> \E k \in LatestOutcome(t) : Passed(k, t)
BY DEF Outcome

LEMMA SameOutcome ==
  ASSUME RunsTyped, Comparable, NEW t \in Test
  PROVE  Outcome(t) = "pass" <=> TestPassed(t)
<1>1. LatestOutcome(t) = LatestRun(rev)
  BY SameRun
<1> QED
  BY <1>1, OutcomeIs DEF TestPassed

LEMMA UnmetIs ==
  ASSUME NEW q \in Req
  PROVE  TL021({q}) = {t \in From(Test, q) : ~TestPassed(t)}
BY DEF TL021

LEMMA FulfillmentIs ==
  ASSUME NEW q
  PROVE  /\ Fulfillment(q) = "VERIFIED" =>
              /\ From(Test, q) \cap Active # {}
              /\ \A t \in From(Test, q) \cap Active : TestPasses(t)
         /\ Fulfillment(q) # "UNIMPLEMENTED" <=> From(Impl, q) \cap Active # {}
BY DEF Fulfillment

LEMMA VerificationIs ==
  ASSUME NEW i, NEW t \in DOMAIN Verification(i)
  PROVE  /\ t \in From(Test, i)
         /\ Verification(i)[t].current
              <=> Outcome(t) = "pass" /\ nodes[t].status = "current"
<1>1. DOMAIN Verification(i) = {u \in From(Test, i) : nodes[u] # NoNode}
  BY DEF Verification
<1>2. Verification(i)[t] =
        [outcome |-> Outcome(t), level |-> ProofLevel(t, i),
         current |-> Outcome(t) = "pass" /\ nodes[t].status = "current"]
  BY <1>1 DEF Verification
<1>3. Verification(i)[t].current = (Outcome(t) = "pass" /\ nodes[t].status = "current")
  BY <1>2
<1> QED
  BY <1>1, <1>3

(* What is finished for fulfillment is so for the gate and for context.    *)
LEMMA VerifiedAgrees ==
  ASSUME RunsTyped, Comparable, NEW q \in Req, Fulfillment(q) = "VERIFIED"
  PROVE  /\ q \notin TL020(Art) /\ TL021({q}) \cap Active = {}
         /\ \A t \in DOMAIN Verification(q) \cap Active : Verification(q)[t].current
<1>1. From(Test, q) \subseteq Test
  BY DEF From
<1>2. /\ From(Test, q) \cap Active # {}
      /\ \A t \in From(Test, q) \cap Active : TestPasses(t)
  BY FulfillmentIs
<1>3. q \notin TL020(Art)
  BY <1>2 DEF TL020
<1>4. ASSUME NEW t \in TL021({q}) \cap Active PROVE FALSE
  <2>1. t \in From(Test, q) \cap Active /\ ~TestPassed(t) /\ t \in Test
    BY <1>1, <1>4, UnmetIs
  <2>2. Outcome(t) = "pass"
    BY <1>2, <2>1 DEF TestPasses
  <2> QED
    BY <2>1, <2>2, SameOutcome
<1>5. ASSUME NEW t \in DOMAIN Verification(q) \cap Active
      PROVE  Verification(q)[t].current
  BY <1>2, VerificationIs DEF TestPasses
<1> QED
  BY <1>3, <1>4, <1>5

(* A test that the gate stops at is not shown as passed.                   *)
LEMMA UnmetAgrees ==
  ASSUME RunsTyped, Comparable, NEW q \in Req, NEW t \in TL021({q})
  PROVE  /\ t \in DOMAIN Verification(q) => ~Verification(q)[t].current
         /\ PrLine(t) \notin {"pass", "confirmed"}
<1>1. t \in Test /\ ~TestPassed(t)
  BY UnmetIs DEF From
<1>2. Outcome(t) \in {"none", "fail"}
  BY <1>1, SameOutcome, OutcomeIs
<1>3. PrLine(t) = Outcome(t)
  BY <1>2 DEF PrLine
<1> QED
  BY <1>2, <1>3, VerificationIs

(* A test shown as confirmed executed some implementation.                 *)
LEMMA ConfirmedAgrees ==
  ASSUME RunsTyped, NEW t, PrLine(t) = "confirmed"
  PROVE  \E m \in Impl : ProofLevel(t, m) = 2
<1>1. ExecutionEdgesForTest(t) # {}
  BY OutcomeIs DEF PrLine
<1>2. PICK k \in DOMAIN runs : \E x \in runs[k].execs : x[1] = t
  BY <1>1 DEF ExecutionEdgesForTest
<1>3. runs[k].execs \subseteq (Test \cup {Suite}) \X Impl
  <2>1. runs[k] \in RunRow
    BY DEF RunsTyped, Run
  <2> QED
    BY <2>1 DEF RunRow
<1>4. PICK m \in Impl : <<t, m>> \in runs[k].execs
  BY <1>2, <1>3
<1>5. <<t, m>> \in ExecutionEdgesFor(m)
  BY <1>4 DEF ExecutionEdgesFor
<1> QED
  BY <1>5 DEF ProofLevel

-----------------------------------------------------------------------------
(* Why.                                                                    *)

(* What a path is.                                                         *)
Trails == {p \in Seq(Art) : Len(p) >= 1}

(* One more hop of each path of P that does not end.                       *)
Onward(P) == UNION {LET on == Longer(p) IN IF on = {} THEN {p} ELSE on : p \in P}

LEMMA LongerIs ==
  ASSUME IInv, NEW p \in Trails
  PROVE  /\ Longer(p) \subseteq Trails
         /\ \A r \in Longer(p) :
              /\ Len(r) > 1
              /\ r[Len(r)] \in Causes(r[Len(r) - 1]) /\ r[Len(r) - 1] \in Art
<1>1. PICK n : n = Len(p) /\ n \in Nat /\ n >= 1 /\ p[n] \in Art /\ p \in Seq(Art)
  BY DEF Trails
<1>2. Causes(p[n]) \subseteq Art
  BY DEF Causes, Upstream, IInv, GraphTyped, IsGraph, edges
<1>3. ASSUME NEW c \in Causes(p[n])
      PROVE  LET r == Append(p, c)
             IN r \in Seq(Art) /\ Len(r) = n + 1 /\ r[n + 1] = c /\ r[n] = p[n]
  BY <1>1, <1>2
<1>4. ASSUME NEW r \in Longer(p) PROVE \E c \in Causes(p[n]) : r = Append(p, c)
  BY <1>1 DEF Longer
<1>5. ASSUME NEW r \in Longer(p)
      PROVE  /\ r \in Trails /\ Len(r) > 1
             /\ r[Len(r)] \in Causes(r[Len(r) - 1]) /\ r[Len(r) - 1] \in Art
  <2>1. PICK c \in Causes(p[n]) : r = Append(p, c)
    BY <1>4
  <2>2. r \in Seq(Art) /\ Len(r) = n + 1 /\ r[n + 1] = c /\ r[n] = p[n]
    BY <1>3, <2>1
  <2>3. Len(r) - 1 = n /\ Len(r) > 1
    BY <1>1, <2>2
  <2> QED
    BY <1>1, <2>1, <2>2, <2>3 DEF Trails
<1> QED
  BY <1>5

LEMMA OnwardTrails ==
  ASSUME IInv, NEW P, P \subseteq Trails
  PROVE  Onward(P) \subseteq Trails
BY LongerIs DEF Onward

(* The paths are what that many steps of Onward make of the first one.     *)
LEMMA PathsAre ==
  ASSUME IInv, NEW i \in Art
  PROVE  \E f : /\ PathsFrom(i) = f[MaxHops]
                /\ f[0] = {<<i>>}
                /\ \A d \in 1 .. MaxHops : f[d] = Onward(f[d - 1])
<1> DEFINE X == SUBSET Trails
           F == [P \in X |-> Onward(P)]
           Is(f) == f = [d \in 0 .. MaxHops |->
                           IF d = 0 THEN {<<i>>} ELSE Onward(f[d - 1])]
<1>1. F \in [X -> X]
  BY OnwardTrails
<1>2. {<<i>>} \in X
  BY DEF Trails
<1>3. PICK f \in [0 .. MaxHops -> X] : Repeats(f, {<<i>>}, F, MaxHops)
  <2> HIDE DEF X, F
  <2>1. MaxHops \in Nat
    BY DEF MaxHops
  <2> QED
    BY <1>1, <1>2, <2>1, RepeatExists
<1>4. \A d \in 0 .. MaxHops : f[d] = IF d = 0 THEN {<<i>>} ELSE Onward(f[d - 1])
  <2> SUFFICES ASSUME NEW d \in 0 .. MaxHops
               PROVE  f[d] = IF d = 0 THEN {<<i>>} ELSE Onward(f[d - 1])
    OBVIOUS
  <2>1. d # 0 => d - 1 \in 0 .. MaxHops
    BY DEF MaxHops
  <2>2. d # 0 => f[d - 1] \in X
    BY <2>1
  <2>3. f[d] = IF d = 0 THEN {<<i>>} ELSE F[f[d - 1]]
    BY <1>3 DEF Repeats
  <2> HIDE DEF X
  <2> QED
    BY <2>2, <2>3
<1>5. Is(f)
  BY <1>4
<1>6. PathsFrom(i) = (CHOOSE g : Is(g))[MaxHops]
  BY DEF PathsFrom, Onward
<1>7. Is(CHOOSE g : Is(g))
  <2> HIDE DEF Is
  <2> QED
    BY <1>5
<1>8. PICK g : PathsFrom(i) = g[MaxHops] /\ Is(g)
  BY <1>6, <1>7
<1>9. \A d \in 0 .. MaxHops : g[d] = IF d = 0 THEN {<<i>>} ELSE Onward(g[d - 1])
  BY <1>8
<1> HIDE DEF Is
<1>10. g[0] = {<<i>>}
  <2>1. 0 \in 0 .. MaxHops
    BY DEF MaxHops
  <2> QED
    BY <1>9, <2>1
<1>11. ASSUME NEW d \in 1 .. MaxHops PROVE g[d] = Onward(g[d - 1])
  <2>1. d \in 0 .. MaxHops /\ d # 0
    BY DEF MaxHops
  <2> QED
    BY <1>9, <2>1
<1> QED
  BY <1>8, <1>10, <1>11

(* The last hop of every path is along an edge.                            *)
LEMMA PathHops ==
  ASSUME IInv, NEW i \in Art, NEW p \in PathsFrom(i), Len(p) > 1
  PROVE  \E k \in Art : p[Len(p)] \in Causes(k)
<1> DEFINE Hopped == {r \in Trails : Len(r) > 1 =>
                    r[Len(r)] \in Causes(r[Len(r) - 1]) /\ r[Len(r) - 1] \in Art}
<1>1. PICK f : /\ PathsFrom(i) = f[MaxHops]
               /\ f[0] = {<<i>>}
               /\ \A d \in 1 .. MaxHops : f[d] = Onward(f[d - 1])
  BY PathsAre
<1> DEFINE T == {d \in 0 .. MaxHops : f[d] \subseteq Hopped}
<1>2. 0 \in T
  <2>1. <<i>> \in Seq(Art) /\ Len(<<i>>) = 1 /\ ~(1 > 1)
    OBVIOUS
  <2>2. <<i>> \in Hopped
    BY <2>1 DEF Trails
  <2>3. 0 \in 0 .. MaxHops
    BY DEF MaxHops
  <2> HIDE DEF Hopped
  <2> QED
    BY <1>1, <2>2, <2>3
<1>3. ASSUME NEW P, P \subseteq Hopped PROVE Onward(P) \subseteq Hopped
  BY <1>3, LongerIs DEF Onward
<1>4. ASSUME NEW k \in 0 .. MaxHops, k < MaxHops, k \in T PROVE k + 1 \in T
  <2> HIDE DEF Hopped
  <2>1. k + 1 \in 1 .. MaxHops /\ k + 1 \in 0 .. MaxHops /\ (k + 1) - 1 = k
    BY <1>4 DEF MaxHops
  <2>2. f[k + 1] = Onward(f[k])
    BY <1>1, <2>1
  <2> QED
    BY <1>3, <1>4, <2>1, <2>2
<1>5. MaxHops \in T
  <2>1. MaxHops \in Nat /\ MaxHops \in 0 .. MaxHops
    BY DEF MaxHops
  <2> HIDE DEF T
  <2> QED
    BY <1>2, <1>4, <2>1, UpTo
<1>6. p \in Hopped
  BY <1>1, <1>5
<1> QED
  BY <1>6

(* The direct hop to a cause without causes stays among the paths.         *)
LEMMA DirectPath ==
  ASSUME IInv, NEW m \in Art, NEW q \in Causes(m), Causes(q) = {}
  PROVE  <<m, q>> \in PathsFrom(m)
<1>1. PICK f : /\ PathsFrom(m) = f[MaxHops]
               /\ f[0] = {<<m>>}
               /\ \A d \in 1 .. MaxHops : f[d] = Onward(f[d - 1])
  BY PathsAre
<1> DEFINE T == {d \in 0 .. MaxHops : d = 0 \/ <<m, q>> \in f[d]}
<1>2. <<m, q>> \in Onward({<<m>>})
  <2>1. <<m, q>> \in Longer(<<m>>)
    <3>1. Len(<<m>>) = 1 /\ <<m>>[1] = m
      OBVIOUS
    <3>2. Append(<<m>>, q) = <<m, q>>
      <4> DEFINE S == {m, q}
                 s == Append(<<m>>, q)
                 r == <<m, q>>
      <4>1. /\ s \in Seq(S) /\ Len(s) = 2 /\ s[1] = m /\ s[2] = q
            /\ r \in Seq(S) /\ Len(r) = 2 /\ r[1] = m /\ r[2] = q
        OBVIOUS
      <4> HIDE DEF s, r, S
      <4>2. \A k \in 1 .. Len(s) : s[k] = r[k]
        BY <4>1
      <4>3. s = r
        BY <4>1, <4>2, SeqEqual
      <4> QED
        BY <4>3 DEF s, r
    <3>3. q \in Causes(m) \ {<<m>>[k] : k \in 1 .. 1}
      BY DEF Causes
    <3> QED
      BY <3>1, <3>2, <3>3 DEF Longer
  <2> QED
    BY <2>1 DEF Onward
<1>3. ASSUME NEW P, <<m, q>> \in P PROVE <<m, q>> \in Onward(P)
  <2>1. Longer(<<m, q>>) = {}
    <3>1. Len(<<m, q>>) = 2 /\ <<m, q>>[2] = q
      OBVIOUS
    <3> QED
      BY <3>1 DEF Longer
  <2> QED
    BY <1>3, <2>1 DEF Onward
<1>4. ASSUME NEW k \in 0 .. MaxHops, k < MaxHops, k \in T PROVE k + 1 \in T
  <2>1. k + 1 \in 1 .. MaxHops /\ k + 1 \in 0 .. MaxHops /\ (k + 1) - 1 = k
    BY <1>4 DEF MaxHops
  <2>2. f[k + 1] = Onward(f[k])
    BY <1>1, <2>1
  <2>3. <<m, q>> \in f[k + 1]
    <3>1. CASE k = 0
      BY <1>1, <1>2, <2>2, <3>1
    <3>2. CASE k # 0
      BY <1>3, <1>4, <2>2, <3>2
    <3> QED
      BY <3>1, <3>2
  <2> QED
    BY <2>1, <2>3
<1>5. MaxHops \in T /\ MaxHops # 0
  <2>1. MaxHops \in Nat /\ MaxHops \in 0 .. MaxHops /\ 0 \in T /\ MaxHops # 0
    BY DEF MaxHops
  <2> HIDE DEF T
  <2> QED
    BY <1>4, <2>1, UpTo
<1> QED
  BY <1>1, <1>5

(* Why leads from an implementation to a requirement just if it has an     *)
(* edge to one.                                                            *)
LEMMA WhyIs ==
  ASSUME IInv, NEW q \in Req \cap Active
  PROVE  From(Impl, q) \cap Active # {} <=>
           \E m \in Impl \cap Active : \E p \in Why(m) : p[Len(p)] = q
<1>1. Causes(q) = {} /\ q \notin Impl
  BY KindsAssumption DEF Causes, Upstream
<1>2. ASSUME NEW m \in From(Impl, q) \cap Active
      PROVE  \E p \in Why(m) : p[Len(p)] = q
  <2>1. m \in Impl /\ m \in Art /\ nodes[m] # NoNode /\ nodes[q] # NoNode /\ m # q
    BY <1>1 DEF From, Active
  <2>2. q \in Causes(m)
    BY <1>2, <2>1 DEF From, Causes, Upstream
  <2>3. <<m, q>> \in PathsFrom(m)
    BY <1>1, <2>1, <2>2, DirectPath
  <2>4. Len(<<m, q>>) = 2 /\ <<m, q>>[2] = q
    OBVIOUS
  <2>5. <<m, q>> \in Why(m)
    BY <2>1, <2>3, <2>4 DEF Why, WhyPaths
  <2> QED
    BY <2>4, <2>5
<1>3. ASSUME NEW k \in Art, q \in Upstream(k)
      PROVE  k \in From(Impl, q) \cap Active
  <2>1. k \in Impl /\ \E e \in edges : e.from = k /\ e.to = q
    BY <1>3 DEF Upstream
  <2>2. k \in Active
    BY <2>1 DEF IInv, GraphTyped, IsGraph, edges, ActiveOf, Active, nodes
  <2> QED
    BY <2>1, <2>2 DEF From
<1>4. ASSUME NEW m \in Impl \cap Active, NEW p \in Why(m), p[Len(p)] = q
      PROVE  \E k \in Art : q \in Upstream(k)
  <2>1. m \in Art
    BY DEF Active
  <2>2. CASE p \in WhyPaths(m)
    <3>1. p \in PathsFrom(m) /\ Len(p) > 1
      BY <2>2 DEF WhyPaths
    <3> QED
      BY <1>4, <2>1, <3>1, PathHops DEF Causes
  <2>3. CASE p \notin WhyPaths(m)
    <3>1. PICK c \in Upstream(m) : p = <<m, c>>
      BY <2>3 DEF Why
    <3>2. p[Len(p)] = c
      BY <3>1
    <3> QED
      BY <1>4, <2>1, <3>1, <3>2
  <2> QED
    BY <2>2, <2>3
<1>5. ASSUME From(Impl, q) \cap Active # {}
      PROVE  \E m \in Impl \cap Active : \E p \in Why(m) : p[Len(p)] = q
  <2>1. From(Impl, q) \subseteq Impl
    BY DEF From
  <2> QED
    BY <1>2, <1>5, <2>1
<1>6. ASSUME \E m \in Impl \cap Active : \E p \in Why(m) : p[Len(p)] = q
      PROVE  From(Impl, q) \cap Active # {}
  BY <1>3, <1>4, <1>6
<1> QED
  BY <1>5, <1>6

(* Why has an answer for each implementation that the gate finds traced.   *)
LEMMA TracedIsTold ==
  ASSUME NEW m \in Impl \cap Active, m \notin TL002(Art), m \notin TL010(Art)
  PROVE  Why(m) # {}
<1>1. nodes[m] # NoNode /\ m \in Art
  BY DEF Active
<1>2. PICK e \in edges : e.from = m /\ nodes[e.to] # NoNode
  BY <1>1 DEF TL002, TL010
<1>3. e.to \in Upstream(m)
  BY <1>2 DEF Upstream
<1> QED
  BY <1>1, <1>3 DEF Why

(* Whatever artifacts are indexed and evidence is stored, the readers tell *)
(* the same as the gate.                                                   *)
THEOREM ReadersTellTheSame == Spec => []ReadersAgree
<1>1. IInv => ReadersAgree
  <2> SUFFICES ASSUME IInv PROVE ReadersAgree
    OBVIOUS
  <2> DEFINE told == [m \in Impl \cap Active |-> Why(m)]
  <2>1. RunsTyped
    BY DEF IInv
  <2>2. ASSUME Comparable, NEW q \in Req \cap Active
        PROVE  /\ Fulfillment(q) = "VERIFIED" =>
                    /\ q \notin TL020(Art) /\ TL021({q}) \cap Active = {}
                    /\ \A t \in DOMAIN Verification(q) \cap Active : Verification(q)[t].current
               /\ \A t \in TL021({q}) :
                    /\ t \in DOMAIN Verification(q) => ~Verification(q)[t].current
                    /\ t \in PrScope => PrLine(t) \notin {"pass", "confirmed"}
    BY <2>1, <2>2, VerifiedAgrees, UnmetAgrees
  <2>3. ASSUME NEW t \in Test \cap PrScope, PrLine(t) = "confirmed"
        PROVE  \E m \in Impl : ProofLevel(t, m) = 2
    BY <2>1, <2>3, ConfirmedAgrees
  <2>4. PrStale = {} => AuditPackage.drift = {} /\ TL110(Active) = {}
    BY DEF PrStale, AuditPackage, Drift, TL110
  <2>5. ASSUME NEW m \in DOMAIN told \ (TL002(Art) \cup TL010(Art))
        PROVE  told[m] # {}
    BY TracedIsTold
  <2>6. ASSUME NEW q \in Req \cap Active
        PROVE  Fulfillment(q) # "UNIMPLEMENTED" <=>
                 \E m \in DOMAIN told : \E p \in told[m] : p[Len(p)] = q
    <3>1. Fulfillment(q) # "UNIMPLEMENTED" <=> From(Impl, q) \cap Active # {}
      BY FulfillmentIs
    <3>2. DOMAIN told = Impl \cap Active /\ \A m \in Impl \cap Active : told[m] = Why(m)
      OBVIOUS
    <3> HIDE DEF told
    <3> QED
      BY <3>1, <3>2, WhyIs
  <2> HIDE DEF told
  <2>7. /\ \A m \in DOMAIN told \ (TL002(Art) \cup TL010(Art)) : told[m] # {}
        /\ \A q \in Req \cap Active :
             Fulfillment(q) # "UNIMPLEMENTED" <=>
               \E m \in DOMAIN told : \E p \in told[m] : p[Len(p)] = q
    BY <2>5, <2>6
  <2> QED
    BY <2>2, <2>3, <2>4, <2>7 DEF ReadersAgree, told
<1> QED
  BY <1>1, IInvAlways, PTL
=============================================================================
