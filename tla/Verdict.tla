------------------------------ MODULE Verdict ------------------------------
(***************************************************************************)
(* What trace verify answers: the rules of policy/rules.py over the graph  *)
(* and the evidence, as the profiles of policy/profiles.py enable them.    *)
(* The other readers of the same facts are in Queries.                     *)
(*                                                                         *)
(* Artifacts are edited and committed; the commands index, review and      *)
(* verify run to completion here (their steps are GraphIndex's, whose      *)
(* operators compute the graph).  Tests run and leave reports; evidence    *)
(* ingest stores a report, late or more than once, under another revision  *)
(* or under the id of a run that is there already, in three transactions   *)
(* and may be killed between them.                                         *)
(*                                                                         *)
(* TL012 and TL013 see whole paths here; what they make of the boundaries  *)
(* of one is in HookGate.  The rules that re-emit parse errors, TL014      *)
(* (plans) and TL070 (facts) are left out.                                 *)
(***************************************************************************)
EXTENDS Naturals, Sequences, FiniteSets

CONSTANTS
  Req, Impl, Test,  \* trace ids by node type; each is declared in a file of
                    \* its own, of the same name
  Conf,             \* .trace/work.toml, empty here
  Fp, NoFp, NoRev, Rank, Start, Draft, Depth, MaxCommits,  \* as in GraphIndex
  Suite,            \* SUITE_TEST_UID
  PerTest,          \* preferred_coverage_proof is per_test
  Waiver,           \* [rule, id, path, expired]
  Any,              \* the id or path of a waiver that gives none
  Bare,             \* files that, when they declare nothing, are still there
                    \* with a boundary that no marker accounts for
  Override,         \* policy.requirements, by lifecycle: the requirements
                    \* switched on and off, and whether waivers are allowed
  RunId,            \* ids of evidence runs, as numbers in their order
  Name,             \* those that --run-id may give; the others ingest makes up
  Place,            \* where a run id sorts among start times: after these
  MaxRuns           \* bound on the reports that are ingested

Art == Req \cup Impl \cup Test

ASSUME KindsAssumption ==
  /\ Req \cap Impl = {} /\ Req \cap Test = {} /\ Impl \cap Test = {}
  /\ Conf \notin Art /\ Suite \notin Test
  /\ DOMAIN Start = Art \cup {Conf} /\ Start[Conf] = {} /\ Draft[Conf] = {}
ASSUME LimitsAssumption ==
  /\ PerTest \in BOOLEAN
  /\ \A w \in Waiver : {w.id, w.path} \subseteq Art \cup {Any} /\ w.expired \in BOOLEAN
  /\ Rank \in [Art -> Nat]
  /\ Bare \subseteq Art
  /\ MaxRuns \in Nat /\ MaxCommits \in Nat
ASSUME OverrideAssumption ==
  /\ DOMAIN Override = {"draft", "wip", "review", "merge", "release"}
  /\ \A l \in DOMAIN Override : Override[l].waivers \in BOOLEAN
ASSUME RunIdAssumption ==  \* made-up ids, "run-...", sort after every time
  /\ RunId \subseteq Nat /\ Name \subseteq RunId
  /\ Place \in [RunId -> 0 .. MaxRuns]
  /\ \A k \in RunId \ Name : Place[k] = MaxRuns
  /\ \A j, k \in RunId : j < k => Place[j] <= Place[k]

VARIABLES
  tree, head, base, rev,  \* as in GraphIndex
  graph,     \* nodes, edges and versions of the store, and whether it holds
             \* a diagnostic of an unreadable report (TL051)
  runs,      \* evidence_runs with their results and execution edges, by run id
  ing,       \* what the ingest that goes on has still to write
  stored,    \* history: how many reports have been ingested
  judged     \* the change set of a verification that has just returned

git == <<tree, head, base, rev>>
evidence == <<runs, ing, stored>>
vars == <<git, graph, evidence, judged>>

(* The operators of GraphIndex on a graph of nodes n, edges e, versions v. *)
G(n, e, v) ==
  INSTANCE GraphIndex WITH
    nodes <- n, edges <- e, versions <- v, File <- Art, Id <- Art, Proc <- {},
    Job <- <<>>, proc <- <<>>, seen <- Start, clash <- FALSE, over <- {}, rushed <- {}

NoNode == [src |-> "none"]
Unjudged == [ids |-> {}, done |-> FALSE]

nodes == graph.nodes
edges == graph.edges
Active == {i \in Art : nodes[i] # NoNode /\ nodes[i].active}
Stale(i) == nodes[i] # NoNode /\ nodes[i].status = "stale"

-----------------------------------------------------------------------------
(* The graph.                                                              *)

ChangeSet == G(nodes, edges, graph.versions)!ChangeSet

(* index_all and index_changed on graph g; the latter reads paths C.       *)
IndexedAll(g) ==
  LET n == G(g.nodes, g.edges, g.versions)!FullNodes(
             G(g.nodes, g.edges, g.versions)!Scanned(tree, Art, rev))
      E == G(g.nodes, g.edges, g.versions)!EdgesOf(tree, Art)
  IN [nodes |-> G(g.nodes, g.edges, g.versions)!Reviewed(n, E, FALSE),
      edges |-> E,
      versions |-> [i \in Art |-> g.versions[i] \cup
                      IF n[i] = NoNode THEN {} ELSE {n[i].fp}],
      unread |-> FALSE]

IndexedChanged(g) ==
  LET C == ChangeSet
      new == G(g.nodes, g.edges, g.versions)!Scanned(tree, C \cap Art, rev)
      n == G(g.nodes, g.edges, g.versions)!MergedNodes(C, new)
      E == G(g.nodes, g.edges, g.versions)!EdgesOf(tree, C \cap Art)
             \cup G(g.nodes, g.edges, g.versions)!KeptEdges(C, new)
  IN IF C = {} THEN g
     ELSE [nodes |-> G(g.nodes, g.edges, g.versions)!Reviewed(n, E, FALSE),
           edges |-> E,
           versions |-> [i \in Art |-> g.versions[i] \cup
                           IF i \in DOMAIN new THEN {n[i].fp} ELSE {}],
           unread |-> g.unread]

(* The refresh at the start of a verification of the changed scope.        *)
Refreshed ==
  IndexedChanged(IF G(nodes, edges, graph.versions)!MustRebuild
                 THEN IndexedAll(graph) ELSE graph)

(* A finished run of a command other than verify.                          *)
Edit(p, c) ==
  /\ c # tree[p]
  /\ tree' = [tree EXCEPT ![p] = c]
  /\ judged' = Unjudged
  /\ UNCHANGED <<head, base, rev, graph, evidence>>

Commit ==
  /\ rev < MaxCommits
  /\ tree # head
  /\ head' = tree
  /\ base' = head
  /\ rev' = rev + 1
  /\ judged' = Unjudged
  /\ UNCHANGED <<tree, graph, evidence>>

IndexAll ==
  /\ graph' = IndexedAll(graph)
  /\ judged' = Unjudged
  /\ UNCHANGED <<git, evidence>>

Review(i) ==
  /\ nodes[i] # NoNode
  /\ LET near == G(nodes, edges, graph.versions)!Closure(i)
     IN graph' = [graph EXCEPT !.nodes =
          [j \in Art |-> IF j \in near /\ Stale(j)
                         THEN [nodes[j] EXCEPT !.status = "reviewed"]
                         ELSE nodes[j]]]
  /\ judged' = Unjudged
  /\ UNCHANGED <<git, evidence>>

Verify ==
  /\ graph' = Refreshed
  /\ judged' = [done |-> TRUE,
                ids |-> {i \in Art : graph'.nodes[i] # NoNode /\ graph'.nodes[i].active
                                       /\ graph'.nodes[i].src \in ChangeSet}]
  /\ UNCHANGED <<git, evidence>>

-----------------------------------------------------------------------------
(* Evidence.                                                               *)

Rev == 0 .. MaxCommits
At == Rev \cup {NoRev}

(* What a run of the tests may leave: at which revision it was, NoRev if   *)
(* of a tree that was not committed, which tests ran and passed, which     *)
(* implementations were executed, and when it started, for the format that *)
(* tells.  A report that cannot be read is as if it were empty.            *)
Blank == [ran |-> {}, passed |-> {}, hit |-> {}, started |-> 0, bad |-> FALSE]

(* A test case without failure, error and skipped is a pass.               *)
JUnit == {[Blank EXCEPT !.ran = Test, !.passed = P] : P \in SUBSET Test}

(* The implementations with a line that was hit.                           *)
Cobertura == {[Blank EXCEPT !.hit = H] : H \in SUBSET Impl}

(* tracelayer-evidence/v1, which names revision and time.                  *)
Normalized ==
  {[ran |-> Test, passed |-> P, hit |-> H, started |-> n, bad |-> FALSE] :
     P \in SUBSET Test, H \in SUBSET Impl, n \in 1 .. MaxRuns}

Unreadable == [Blank EXCEPT !.bad = TRUE]

(* What ingest makes of --junit with or without --coverage.                *)
Together(x, y) == [x EXCEPT !.hit = y.hit, !.bad = x.bad \/ y.bad]

Content ==
  [suite |-> {Together(x, y) : x \in JUnit \cup {Unreadable},
                               y \in Cobertura \cup {Unreadable}},
   coverage |-> Cobertura \cup {Unreadable},
   normalized |-> Normalized \cup {Unreadable}]

Report ==
  UNION {[at : At, format : {f}, of : Content[f]] : f \in DOMAIN Content}

(* impl_symbols: coverage is of the implementations in the index.          *)
Symbols == Impl \cap Active

(* Fault: a coverage report is taken to have executed everything.          *)
ExecutionsFault(x) ==
  IF x.format = "normalized" THEN x.of.ran \X x.of.hit ELSE {Suite} \X Symbols

(* The execution edges of a report: those of coverage are of the suite and *)
(* of the implementations in the index, those of a normalized report of a  *)
(* test and taken as they are.                                             *)
Executions(x) ==
  IF x.format = "normalized" THEN x.of.ran \X x.of.hit
  ELSE {Suite} \X (x.of.hit \cap Symbols)

(* The revision a report is stored under: the one of the command line,     *)
(* which need not be true, or else that of a normalized report.            *)
Revision(x) ==
  {rev, x.at} \cup
    IF x.format = "normalized" /\ ~x.of.bad THEN {} ELSE {NoRev}

(* run_id: any name, or that of a run that is there, from --run-id; or     *)
(* else one made up of the time, later than all those before.              *)
GivenId(named) ==
  IF named THEN Name \cup DOMAIN runs
  ELSE {k \in RunId \ (Name \cup DOMAIN runs) : \A j \in DOMAIN runs \ Name : j < k}

(* What is in the store under a run id.  told and nth are history: every   *)
(* report stored under it and when the last one was; named says that the   *)
(* last one was by --run-id.                                               *)
Stored(k) ==
  IF k \in DOMAIN runs THEN runs[k] ELSE [told |-> {}, ran |-> {}, passed |-> {}, execs |-> {}]

(* INSERT OR REPLACE of the row of a run, which leaves the test results    *)
(* and execution edges that are under its id.                              *)
EvidenceRun(x, r, k, named) ==
  [rev |-> r, started |-> x.of.started, nth |-> stored + 1, named |-> named,
   told |-> Stored(k).told \cup {[rev |-> r, at |-> x.at, of |-> x.of]},
   ran |-> Stored(k).ran, passed |-> Stored(k).passed, execs |-> Stored(k).execs]

Done == [step |-> "none"]

(* ingest up to add_evidence_run, of a report of now or earlier.           *)
AddEvidenceRun ==
  /\ ing = Done
  /\ stored < MaxRuns
  /\ \E x \in {y \in Report : y.at \in 0 .. rev \cup {NoRev}}, named \in BOOLEAN :
       \E r \in Revision(x), k \in GivenId(named) :
         /\ runs' = [j \in DOMAIN runs \cup {k} |->
                       IF j = k THEN EvidenceRun(x, r, k, named) ELSE runs[j]]
         /\ ing' = [step |-> "results", id |-> k, report |-> x]
  /\ stored' = stored + 1
  /\ judged' = Unjudged
  /\ UNCHANGED <<git, graph>>

(* A result replaces that of the same test, others stay.                   *)
AddTestResults ==
  /\ ing.step = "results"
  /\ LET of == ing.report.of
     IN runs' = [runs EXCEPT ![ing.id].ran = @ \cup of.ran,
                             ![ing.id].passed = (@ \ of.ran) \cup of.passed]
  /\ ing' = [ing EXCEPT !.step = "edges"]
  /\ judged' = Unjudged
  /\ UNCHANGED <<git, graph, stored>>

AddExecutionEdges ==
  /\ ing.step = "edges"
  /\ runs' = [runs EXCEPT ![ing.id].execs = @ \cup Executions(ing.report)]
  /\ ing' = IF ing.report.of.bad THEN [ing EXCEPT !.step = "diagnostics"] ELSE Done
  /\ judged' = Unjudged
  /\ UNCHANGED <<git, graph, stored>>

(* engine.ingest_evidence: TL051 is stored when all else is.               *)
InsertDiagnostics ==
  /\ ing.step = "diagnostics"
  /\ graph' = [graph EXCEPT !.unread = TRUE]
  /\ ing' = Done
  /\ judged' = Unjudged
  /\ UNCHANGED <<git, runs, stored>>

Kill ==
  /\ ing # Done
  /\ ing' = Done
  /\ UNCHANGED <<git, graph, runs, stored, judged>>

Passed(k, t) == t \in runs[k].passed

Started(k) == runs[k].started
Timed(k) == Started(k) # 0

(* Fault: of runs without a start time the first comes first.              *)
NewerFault(j, k) ==
  \/ Started(j) > Started(k)
  \/ Started(j) = Started(k) /\ j < k

(* ORDER BY started_at DESC, run_id DESC: a run without a start time comes *)
(* after all that have one.                                                *)
Newer(j, k) ==
  \/ Started(j) > Started(k)
  \/ Started(j) = Started(k) /\ j > k

RunsAt(r) == {k \in DOMAIN runs : runs[k].rev = r}

(* Fault: the latest run of any revision.                                  *)
LatestRunFault(r) ==
  {k \in DOMAIN runs : \A j \in DOMAIN runs \ {k} : Newer(k, j)}

(* latest_evidence_run, as a set of at most one run.                       *)
LatestRun(r) == {k \in RunsAt(r) : \A j \in RunsAt(r) \ {k} : Newer(k, j)}

(* latest_outcome: the order is by start time or, where there is none, by  *)
(* run id.                                                                 *)
Key(k) == IF Timed(k) THEN 2 * Started(k) ELSE 2 * Place[k] + 1
Later(j, k) == Key(j) > Key(k) \/ (Key(j) = Key(k) /\ j > k)

LatestOutcome(t) ==
  LET of == {k \in DOMAIN runs : t \in runs[k].ran}
  IN {k \in of : \A j \in of \ {k} : Later(k, j)}

(* execution_edges_for, of all runs together: the tests, or the suite,     *)
(* that executed an implementation.                                        *)
ExecutionEdgesFor(m) ==
  {x \in UNION {runs[k].execs : k \in DOMAIN runs} : x[2] = m}

ProofLevel(t, m) ==
  IF <<t, m>> \in ExecutionEdgesFor(m) THEN 2
  ELSE IF <<Suite, m>> \in ExecutionEdgesFor(m) THEN 1 ELSE 0

-----------------------------------------------------------------------------
(* The rules, over the artifacts S in scope.                               *)

From(K, i) == {e.from : e \in {f \in edges : f.to = i /\ f.from \in K}}

TL002(S) == {e.from : e \in {f \in edges : nodes[f.to] = NoNode}}

TL010(S) == {m \in Impl \cap S : \A e \in edges : e.from = m => e.to \notin Req}

TL011(S) == {q \in Req \cap S : \E i \in From(Art, q) : Stale(i)}

(* A changed path that is still there, and that no active node claims, nor *)
(* a marker or an exemption for each of its boundaries.  P are the changed *)
(* paths: none where the whole repository is in scope.                     *)
TL012(P) ==
  {p \in P \cap Bare : tree[p] = {} /\ \A i \in Active : nodes[i].src # p}

(* A boundary that is not accounted for and is not as in HEAD.             *)
TL013(P) == {p \in P \cap Bare : tree[p] = {} /\ head[p] # {}}

TL020(S) == {q \in Req \cap S : From(Test, q) = {}}

TestPassed(t) == \E k \in LatestRun(rev) : Passed(k, t)

TL021(S) == {t \in UNION {From(Test, q) : q \in Req \cap S} : ~TestPassed(t)}

TL022(S) ==
  {m \in Impl \cap S : \E t \in From(Test, m) :
     \/ ProofLevel(t, m) < IF PerTest THEN 2 ELSE 1
     \/ LatestRun(rev) = {}}

TL030(S) ==
  {i \in S : nodes[i] # NoNode /\ ~nodes[i].active /\ From(Art, i) # {}}

TL050(S) == {k \in DOMAIN runs : runs[k].rev \notin {NoRev, rev}}

(* No command hands an audit result to the evaluation.                     *)
TL060(S) == {"audit"}

TL062(S) == RunsAt(NoRev)

TL061(S) == {w \in Waiver : w.expired}

TL110(S) == {i \in S : Stale(i)}

(* Every rule under its name, over artifacts S and changed paths P.        *)
Finding(rule, S, P) ==
  CASE rule = "TL002" -> TL002(S) [] rule = "TL010" -> TL010(S)
    [] rule = "TL011" -> TL011(S) [] rule = "TL012" -> TL012(P)
    [] rule = "TL013" -> TL013(P) [] rule = "TL020" -> TL020(S)
    [] rule = "TL021" -> TL021(S) [] rule = "TL022" -> TL022(S)
    [] rule = "TL030" -> TL030(S) [] rule = "TL050" -> TL050(S)
    [] rule = "TL061" -> TL061(S) [] rule = "TL062" -> TL062(S)
    [] rule = "TL110" -> TL110(S) [] rule = "TL060" -> TL060(S)

Profile == <<"minimal", "standard", "strict", "safety-critical">>
Lifecycle == <<"draft", "wip", "review", "merge", "release">>
MergePlus(l) == l \in {"merge", "release"}

(* profile_rules, of the rules modelled.                                   *)
ProfileRules(p, l) ==
  LET standard == {"TL002", "TL010", "TL011", "TL012", "TL013", "TL020", "TL021"}
      strict == standard \cup {"TL022", "TL030", "TL061"}
  IN (CASE p = "minimal" -> {"TL002"}
        [] p = "standard" -> standard
        [] p = "strict" -> strict
        [] p = "safety-critical" -> strict \cup {"TL050", "TL060", "TL062"})
       \cup IF p # "minimal" /\ MergePlus(l) THEN {"TL110"} ELSE {}

(* REQUIREMENT_GATES: the requirement each of these rules waits for.       *)
Gate ==
  [TL010 |-> "work_ancestry", TL011 |-> "requirement_for_changed_behavior",
   TL020 |-> "verifying_test", TL021 |-> "test_pass",
   TL022 |-> "execution_evidence", TL060 |-> "semantic_audit",
   TL110 |-> "block_stale"]

(* Fault: a release is not held to what a merge is.                        *)
RequirementsFault(p, l) ==
  (IF p # "minimal" /\ l = "merge"
   THEN {"work_ancestry", "requirement_for_changed_behavior", "verifying_test",
         "test_pass", "block_stale"} ELSE {})
    \cup (IF p = "safety-critical" \/ (p = "strict" /\ MergePlus(l))
          THEN {"execution_evidence"} ELSE {})
    \cup (IF p \in {"strict", "safety-critical"} /\ l = "release"
          THEN {"semantic_audit"} ELSE {})

(* profile_default_requirements, of the requirements that gate a rule.     *)
Requirements(p, l) ==
  (IF p # "minimal" /\ MergePlus(l)
   THEN {"work_ancestry", "requirement_for_changed_behavior", "verifying_test",
         "test_pass", "block_stale"} ELSE {})
    \cup (IF p = "safety-critical" \/ (p = "strict" /\ MergePlus(l))
          THEN {"execution_evidence"} ELSE {})
    \cup (IF p \in {"strict", "safety-critical"} /\ l = "release"
          THEN {"semantic_audit"} ELSE {})

(* effective_requirements: what the policy says for a lifecycle wins over  *)
(* what the profile says.                                                  *)
Effective(p, l) == (Requirements(p, l) \cup Override[l].on) \ Override[l].off

(* verify --require-evidence, over the policy, too.                        *)
Forced(reqs) == reqs \cup {"verifying_test", "test_pass", "execution_evidence"}

Enabled(p, l, forced) ==
  LET reqs == IF forced THEN Forced(Effective(p, l)) ELSE Effective(p, l)
  IN (ProfileRules(p, l) \ DOMAIN Gate) \cup {r \in DOMAIN Gate : Gate[r] \in reqs}

(* What is found in a path has no trace id.                                *)
PathRule == {"TL012", "TL013"}

(* Waiver.matches; every artifact has a file of its own.                   *)
Matches(w, rule, x) ==
  /\ w.rule = rule
  /\ w.path \in {Any, x}
  /\ w.id = Any \/ (w.id = x /\ rule \notin PathRule)

Waived(rule, x) ==
  rule # "TL061" /\ \E w \in Waiver : ~w.expired /\ Matches(w, rule, x)

Rule == PathRule \cup {"TL002", "TL030", "TL050", "TL061", "TL062"} \cup DOMAIN Gate

(* evaluate: what a rule finds that is not waived, and the verdict.        *)
Errors(rule, S, P, waivers) ==
  {x \in Finding(rule, S, P) : ~(waivers /\ Waived(rule, x))}

Failing(S, P, waivers) == {r \in Rule : Errors(r, S, P, waivers) # {}}

Blocking(p, l, forced, S, P) ==
  Enabled(p, l, forced) \cap Failing(S, P, Override[l].waivers) # {}

(* The exit code of verify, with --require-evidence or not.                *)
Exit(forced, blocking) ==
  IF forced /\ graph.unread THEN 4 ELSE IF blocking THEN 1 ELSE 0

-----------------------------------------------------------------------------
Init ==
  /\ tree = Start
  /\ head = Start
  /\ base = Start
  /\ rev = 0
  /\ graph = [nodes |-> [i \in Art |-> NoNode], edges |-> {},
              versions |-> [i \in Art |-> {}], unread |-> FALSE]
  /\ runs = <<>>
  /\ ing = Done
  /\ stored = 0
  /\ judged = Unjudged

Next ==
  \/ \E p \in Art : \E c \in Draft[p] : Edit(p, c)
  \/ Commit
  \/ IndexAll
  \/ \E i \in Art : Review(i)
  \/ Verify
  \/ AddEvidenceRun
  \/ AddTestResults
  \/ AddExecutionEdges
  \/ InsertDiagnostics
  \/ Kill

Spec == Init /\ [][Next]_vars

-----------------------------------------------------------------------------
(* A run holds what the reports stored under its id say or, while one is   *)
(* not complete, less; no outcome or execution is of a run that is not     *)
(* there.                                                                  *)
TypeOK ==
  /\ rev \in Rev
  /\ DOMAIN graph.nodes = Art /\ \A e \in edges : {e.from, e.to} \subseteq Art
  /\ DOMAIN runs \subseteq RunId
  /\ \A k \in DOMAIN runs :
       /\ runs[k].rev \in At /\ runs[k].nth \in 1 .. stored
       /\ \A w \in runs[k].told : w.rev \in At /\ w.at \in At
       /\ runs[k].passed \subseteq runs[k].ran
       /\ runs[k].ran \subseteq UNION {w.of.ran : w \in runs[k].told}
       /\ runs[k].passed \subseteq UNION {w.of.passed : w \in runs[k].told}
       /\ runs[k].execs \subseteq
            (Test \cup {Suite}) \X UNION {w.of.hit : w \in runs[k].told}
  /\ ing.step \in {"none", "results", "edges", "diagnostics"}
  /\ ing.step # "none" => ing.id \in DOMAIN runs /\ ing.report \in Report
  /\ stored \in 0 .. MaxRuns
  /\ judged.ids \subseteq Art

Gated == {"standard", "strict", "safety-critical"}
Gating == {"merge", "release"}

(* All that was stored under the id says truly which committed text was    *)
(* tested.                                                                 *)
Honest(k) == \A w \in runs[k].told : w.rev = w.at /\ w.rev # NoRev

(* The id was given to a run of another revision before.                   *)
Moved(k) == \E w \in runs[k].told : w.rev # runs[k].rev

(* The artifacts the changed paths declare, by their text.                 *)
Declared == {d.id : d \in UNION {tree[p] : p \in ChangeSet}}

(* Where the policy does not switch them off.                              *)
TestsRequired(l) == {"verifying_test", "test_pass"} \cap Override[l].off = {}

(* A verification lets a commit through for merge only if each requirement *)
(* the changed paths declare is verified by some test, and each such test  *)
(* has passed on exactly that text.                                        *)
PassedHere ==
  \A p \in Gated, l \in {k \in Gating : TestsRequired(k)} :
    Blocking(p, l, FALSE, judged.ids, ChangeSet)
      \/ \A q \in Req \cap Declared :
           /\ Waived("TL020", q) \/ From(Test, q) # {}
           /\ \A t \in From(Test, q) :
                \/ Waived("TL021", t)
                \/ \E k \in DOMAIN runs : \E w \in runs[k].told :
                     t \in w.of.passed /\ w.at = rev

(* What a pass means, as far as the evidence says truly where it was       *)
(* gathered and no run id is given again at another commit: commits after  *)
(* the run, reports stored late, twice or in parts under one id, and       *)
(* ingests that stop halfway never add up to a pass (rules.py:530-598).    *)
PassIsEvidenced ==
  (judged.done /\ tree = head /\ \A k \in DOMAIN runs : Honest(k) /\ ~Moved(k))
    => PassedHere

(* "Observed truth is bound to a revision and an immutable run. It never   *)
(* gets edited to look current" (docs/concepts.md:68): where every report  *)
(* was stored under the commit it is of, what passed at one commit is no   *)
(* pass at another, whatever ids the runs were given.  (Stated of stores   *)
(* into which nothing is being ingested.)                                  *)
PassIsOfItsCommit ==
  (judged.done /\ tree = head /\ ing = Done /\ \A k \in DOMAIN runs : Honest(k))
    => PassedHere

(* What the evidence last stored for a commit says about a linked test     *)
(* decides: an older pass never hides a failure, and a run of which        *)
(* nothing is stored yet counts as one (_outcomes_for, rules.py:520).      *)
(* That is for runs whose ids ingest made up, where all tell when they     *)
(* started, and were stored in that order, or none does.  Ids given by     *)
(* --run-id decide by their order as strings, and an older run with a      *)
(* start time over a newer one without.                                    *)
LatestRunDecides ==
  (judged.done
     /\ \A j, k \in RunsAt(rev) :
          /\ ~runs[k].named
          /\ Timed(j) = Timed(k)
          /\ runs[j].nth < runs[k].nth => Started(j) <= Started(k)) =>
    \A k \in RunsAt(rev) : (\A j \in RunsAt(rev) : runs[j].nth <= runs[k].nth) =>
      \A q \in Req \cap Declared : \A t \in From(Test, q) :
        \/ Passed(k, t) \/ Waived("TL021", t)
        \/ \A p \in Gated, l \in {g \in Gating : TestsRequired(g)} :
             Blocking(p, l, FALSE, judged.ids, ChangeSet)

EnabledAt ==
  [p \in 1 .. 4 |-> [l \in 1 .. 5 |-> [f \in BOOLEAN |->
    Enabled(Profile[p], Lifecycle[l], f)]]]

FailingIn(S, P) ==
  [waived |-> Failing(S, P, TRUE), plain |-> Failing(S, P, FALSE)]

(* verify stops a change in which these rules fail.                        *)
Stops(p, l, f, failing) ==
  LET F == IF Override[Lifecycle[l]].waivers THEN failing.waived ELSE failing.plain
  IN Exit(f, EnabledAt[p][l][f] \cap F # {}) # 0

(* The policy takes nothing back that it demands at lifecycle k at the     *)
(* later lifecycle l.                                                      *)
Tightens(k, l) ==
  /\ Override[k].on \subseteq Override[l].on /\ Override[l].off \subseteq Override[k].off
  /\ Override[l].waivers => Override[k].waivers

(* What blocks goes on blocking under a stricter profile, with evidence    *)
(* required, or at the next lifecycle unless the policy takes something    *)
(* back there; and over the whole repository, where the rules that look at *)
(* changed paths find nothing (engine.py:1314), what another rule has      *)
(* stopped.  Nobody else gets a change through by asking for more          *)
(* (profiles.py:109-179, evaluator.py:37-55).                              *)
StricterBlocksMore ==
  judged.done =>
    LET some == FailingIn(judged.ids, ChangeSet)
        all == FailingIn(Art, {})
        apart == [waived |-> some.waived \ PathRule, plain |-> some.plain \ PathRule]
    IN \A p \in 1 .. 4, l \in 1 .. 5, f \in BOOLEAN :
         /\ Stops(p, l, f, some) =>
              /\ p < 4 => Stops(p + 1, l, f, some)
              /\ (l < 5 /\ Tightens(Lifecycle[l], Lifecycle[l + 1])) =>
                   Stops(p, l + 1, f, some)
              /\ Stops(p, l, TRUE, some)
         /\ Stops(p, l, f, apart) => Stops(p, l, f, all)

(* Once reviewed, an artifact does not await review again while neither it *)
(* nor what it depends on has changed: "Review state ... [is] preserved    *)
(* across re-indexes for unchanged nodes" (engine.py:789-791).             *)
Unchanged(i) ==
  /\ nodes'[i] # NoNode /\ nodes'[i].fp = nodes[i].fp
  /\ \A e \in edges' : e.from = i =>
       e \in edges /\ nodes[e.to] # NoNode /\ nodes'[e.to].fp = nodes[e.to].fp

ReviewSticks ==
  [][\A i \in Art :
       (nodes[i] # NoNode /\ nodes[i].status = "reviewed" /\ Unchanged(i)) =>
         nodes'[i].status # "stale"]_vars
=============================================================================
