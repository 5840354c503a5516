# A formal model of TraceLayer

TraceLayer (`src/src/tracelayer`) keeps code, requirements, tests and work items
linked by markers in the source. Coding agents run under it: before an edit, after
an edit, after a shell command and at a stop, the agent's harness runs a *hook*, a
process of its own that reads the repository, the graph store and the session
file, decides, and changes them; people and CI run the same engine from the
command line. This directory holds TLA+ modules of that machinery, the TLC
configurations that check them on small instances, and proofs for TLAPS. Paths
below are relative to `src/src/tracelayer`.

## 1. The system

### Components, their state and what makes them correct

| Component | State | Operations | Correct when |
|---|---|---|---|
| Session state (`hooks/session_state.py`) | one JSON file per session: contexts loaded, edits blocked, dirty nodes, work, requirements, pending bootstrap, pending contract updates, obligations | fourteen accessors; each reads the whole file, changes it, replaces it | each accessor is atomic; an obligation, once recorded, is there until the session is cleared |
| Authoring and context gates (`hooks/pre_mutation.py`) | none of their own | decide on a Write or Edit: approve, rewrite with markers, deny | no approved edit leaves a new or changed boundary unaccounted for |
| Post-mutation hook (`hooks/post_mutation.py`) | obligations, receipts, dirty marks | reconcile, scan after shell commands, record | an obligation ends only when the files show it met |
| Stop gate (`hooks/stop_gate.py`), `tasks.finish` | the decision in progress; `work.toml` status, `receipts.jsonl` | read, verify, reconcile, decide; verify, close, bind, clear | nothing is let go with something owed; what is accounted for under the ids that are owed is let go |
| Prompt hook and intake (`hooks/prompt_context.py`, `tasks.py`) | active work, requirements, pending contract changes | prompt, begin, activate, bootstrap, intake, end | a contract declared changed changes before code does; finished work is not taken up again while `work.toml` can be read |
| Work items on disk (`tasks.py`, `cli.py`) | `.trace/work.toml`, `docs/spec*.md`, `.trace/receipts/receipts.jsonl` | bootstrap, `trace new work`, set status, record and bind receipts | no entry, contract or receipt is lost; the file stays readable; done is done |
| Readiness (`work.py`) and the Beads mirror (`beads.py`) | task and question states; the beads, `.trace/beads-mirror.toml` | compute_readiness; mirror, reconcile | only people, questions and circles hold tasks up; one bead per task; no alarm about what the mirror did itself; the mapping is completed in the end |
| Boundary accounting (`discovery/boundaries.py`, `discovery/suggest.py`) | none | what is attached to a boundary, validity of inheritance, which boundaries changed | the gates, the obligations and the rules agree on it |
| Policy (`policy/`) | none; waivers and overridden requirements in the configuration | the rules TL001..., profiles, lifecycles, requirements, waivers, verdict | a verdict means what it says; asking for more blocks no less, but for the rules that look at changed paths |
| Engine and store (`engine.py`, `graph/`) | SQLite: nodes, edges, artifact versions, review states, diagnostics, evidence | index_all, index_changed, verify, review, ingest, hook | an incremental index says what a full one would; a change is noticed and stays noticed until it is reviewed; rules are judged on one commit |
| Evidence (`evidence/`) | runs, their results and executions, in the store | ingest of three formats, order of runs, proof level | only what passed on exactly this commit counts; a later failure is not hidden; a run is never edited |
| Queries (`work.py`, `query/`), pull request summary, audit package (`audit/package.py`) | none | fulfillment, context, why, impact, pr_summary, build_audit_package | they tell what the verdict tells |
| Git (`git/`) | none (HEAD, working tree) | changed_files, default_base, show | change set and baseline belong together |
| Protocol, artifacts, symbols, file discovery | none | parsing | (data conversion) |
| Planning, search, knowledge, facts, migration, release, web, MCP, install, doctor | none that the above depend on | reports and front ends | |

`PROJECT.json` lists every part with its files and with what is left out.

### How they interact

* Hooks are separate processes. They share the session file, the store, the
  working tree, `work.toml`, the specifications and `receipts.jsonl`; there are no
  messages and no locks but those of SQLite.
* An agent's tool call is *pre-mutation hook, tool, post-mutation hook*. The
  decision of the first is about the file as it was then; the tool runs later.
* The stop gate reads the obligations, then verifies for seconds, then decides;
  `finish` does the same again at the `merge` enforcement point, then rewrites
  `work.toml`, then `receipts.jsonl`, then clears the session.
* `verify` and the CLI rebuild the index; every gate and every query that reads the
  index then reads what somebody else's command left there.
* Reports of tests and coverage come from outside, at any time after the run.
* The mirror calls `bd`, another program with a state of its own.

### What is hard about it

Overlapping read-modify-writes of the session file and of `work.toml`; processes
killed by the harness's timeouts (`install.py:280-316`) or with a file open;
verdicts used after the files changed; an index rebuilt between two reads of one
gate; a HEAD that moves between two verifications; obligations that nothing can
meet any more; reports stored late, twice, half, for another commit than they
are of, or under the id of another run; two readers that order the same runs differently; calls of `bd` that time
out after they took effect. `PROJECT.json` lists the hazards with the line where
each bites and the properties about it, or why there is none.

## 2. The modules

| Module | What it is |
|---|---|
| `SessionOps` | the content of a session file and the effect of each accessor on it, as operators |
| `SessionStore` | **abstract**: the session every hook believes it has; one accessor per step |
| `SessionFile` | **detailed**: processes that read, stage a temporary file, replace, or are killed |
| `TraceTree` | files as boundaries with what is attached to them; `Traced`, `Settled`, TL012, TL013 |
| `HookGate` | the gates, the post hooks, the stop gate and `finish`, over one repository |
| `Intake` | prompts, task commands, and the gate that waits for a changed contract |
| `GraphIndex` | the graph store under full and incremental indexes, verifications and reviews by several processes |
| `WorkLedger` | **abstract**: work items and receipts as a ledger whose operations take effect at once |
| `WorkFiles` | **detailed**: `work.toml`, specifications and receipts under bootstrap, new, activate, resume and finish, step by step |
| `Readiness` | which tasks can be taken up, as operators |
| `BeadsMirror` | the mirror command against a tracker whose calls fail |
| `Verdict` | the rules over graph and evidence, profiles, waivers; edits, commits, indexes, reviews and ingests |
| `Queries` | the read-only commands over the state of `Verdict` |
| `Induction` | lemmas about the naturals and about functions defined by repetition, for the proofs |
| `SessionProofs`, `IntakeProofs`, `GraphIndexProofs`, `HookGateProofs`, `WorkFilesProofs`, `BeadsMirrorProofs`, `VerdictProofs` (of `Queries` too) | theorems |
| `SessionMC`, `HookGateMC`, `IntakeMC`, `GraphIndexMC`, `WorkFilesMC`, `BeadsMirrorMC`, `VerdictMC` | instances for TLC |

`HookGate` takes `SessionOps` for the session and `TraceTree` for the files;
`Intake` takes `SessionOps`; `Verdict` takes the operators of `GraphIndex` by
`INSTANCE`, so that the graph its rules judge is the one that module computes;
`BeadsMirror` extends `Readiness`, `Queries` extends `Verdict`. Operators named
`...Fault` are plausible mistakes in the operator after them; nothing uses them,
each serves to show that a property notices it (`PROJECT.json`, "mutants").

Each module cuts the system where its question needs steps. `HookGate` and `Intake`
treat one accessor, and one handler of a file hook, as a step: that accessors are
atomic until hooks of one session race is what `SessionFile` establishes.
`GraphIndex` splits an index at its transactions; `HookGate`, `WorkFiles` and
`Verdict`, which ask what others read from the result, take it as one step.
`HookGate.FinishClose` is one step, of which `WorkFiles` has nine. How far the nine can be
taken for one is what the refinement of `WorkLedger` says.

### SessionFile

`Read`, `Stage`, `Replace` are `_read`, the two halves of `_write` (temporary
file, `os.replace`); `Skip` is an accessor that returns without writing; `Kill`
is the harness's timeout. `owed` is a history variable: keys for which
`add_obligation` answered that it recorded them. `stale` marks a copy that
another process has overtaken, and `raced` that such a copy was written back since the
session was last cleared. Lists are sets (every writer removes duplicates),
`active_plan` and `active_requirement` go with `active_work`. The refinement maps
the file to the store as long as nobody raced; from then on the store is taken to
be cleared.

### TraceTree

A boundary is a path and a qualified name. Its source is a version number, and
its accounting is nothing, an exemption with a reason, a declaration of inheritance, or a
marker; a marker id is written as the boundary it is the canonical id of. `Inside`
gives for each boundary all those nested in it, at any depth, and a parent's source
contains their markers, as in the fingerprints. The index holds active nodes only.

Left out of it: placement by line, comment syntax, files without a parser,
boundaries that are configuration keys or headings,
`_resolve_obligations_in`'s fallback for a renamed slug beyond "the id is still
in the file", configuration that exempts paths (every path is governed).

### HookGate

`hook[s]` is where agent `s` stands between two of its steps:

```
Idle --Allow/Author--> approved --Execute--> edited --PostEdit--> Idle
Idle --RunShell--> shell --PostShell--> Idle
Idle --StopBegin--> stopping --StopVerify--> verified --StopDecide--> allowed | Idle
allowed --AutoFinish--> finishing --FinishVerify--> closing --FinishClose--> Idle
```

Other agents, the user, commits and index commands act between any two arrows.
`Author` is the whole authoring gate for a call with untraced boundaries: it
records obligations and then either rewrites and lets the call through, without
asking the context gate, or denies it. `Lost` is a hook whose answer the harness
did not wait for. `fresh` (history) is true while no file has changed since the
step that set it. Rules other than TL012/TL013 are a free verdict
(`OtherRules`), a changed file outside the model is `AuxDirty`. The session the
CLI uses is a parameter (`CliSession`). A receipt is work, path and commit. Every
active node is taken as protected, because the markers the gates mint carry a work
edge. Requirement nodes are always in the graph, so the check for an index of
another commit is `idxRev` against HEAD.

### Intake

`text` is what requirement documents say, `idx` what the index says they say.
`Changed` is `_req_fingerprint_changed`. `asked` and `moved` are history: the
contracts a session declared changed, and those of them that have been changed
since. `UserEdit` stands for any change no hook sees before it happens. HEAD is not
modelled: `IndexChanged` takes any set of documents. What a prompt resumes is
chosen by a score in the code and freely here. Each requirement is a document of
its own; what an edit writes to code is left out.

### GraphIndex

The working tree, HEAD and HEAD~1 say what each path declares: ids with a
fingerprint and the ids their edges point at, or, for `work.toml`, entries
without either. A process that indexes goes through

```
Idle --Run--> scanned --Merge--> merged --Replace--> recording --Record...--> Idle
Idle --Verify--> started --VerifyScan--> scanned ... --> verified --Evaluated--> Idle
Idle --Review--> reviewing --ReviewNode...--> Idle
```

`Run` and `VerifyScan` read git and the files, `Merge` reads the store and
computes what `replace_all` will write, `Replace` is that one transaction, and each
`Record` one `record_artifact_version`. A verification that must rebuild runs
`index_all` and then `index_changed`. Edits, commits, other processes and `Kill` come
anywhere between. `Source` is the order of `_dedupe_nodes`; `HasChanged`, `Carried`
and `Reviewed` are `_staleness_pass`; `ChangeSet` is `changed_files` against HEAD or,
on a clean tree of the default branch, HEAD~1.

History: `seen` is what each path declared when it was last indexed and `clash`
whether two paths declared one id; `over` holds the processes that merged with a
store which has been written to since, `rushed` the verifications during which HEAD
moved or another process replaced the graph.

Left out: diagnostics, structural `contains` edges (a function of the nodes'
line ranges, recomputed in full by every index), the search table, titles and other
metadata, the stub nodes (see section 5), renames and branches. The
second transaction of `set_node_meta` per edge is empty, because no code writes
the edge status it looks for.

### WorkFiles

Each session runs one command at a time:

```
bootstrap: minted -> specified -> entry -> entryOpen -> written -> indexed -> Idle
new work:  named -> bare -> (bareOpen) -> Idle
finish:    finishing -> passed -> status -> statusOpen -> closed
           -> bind -> bindOpen -> bound -> Idle
```

A file is rewritten with `Path.write_text`: opened, which empties it, and written;
`...Open` is the state in between, in which others read an empty file and a kill
leaves one. The copy read before (`toml`, `log`) is the process's own. An id is a
slug and a number, minted from the store, which knows only what was indexed.
`Mentions` is the substring test by which `_artifact_path` recognises a
specification as its own. `mishap` (history) names what went wrong around the
files: a copy was written back over a newer file (`overtaken`), a process died with
a file open (`torn`) or between writing an entry and indexing it (`half`), an index
read an open file (`glimpsed`), two processes minted one id (`twin`), an entry was added
that nobody indexed (`loose`). The properties say which of them it takes to lose what.

The refinement maps the ledger to what the process that has a file open is about to
write, or else to the file; once a stale copy was written back or a file torn, the ledger
is `damaged` and promises nothing more.

Left out: plans (written like specifications), the content of entries, the
score of `resolve` (free among `Resumable`), the verdict of `finish` (free, but for a
file that does not parse, which is TL100).

### BeadsMirror

`Start` reads readiness, task states and the mapping for the tasks of one work item, `List` is `bd list`, then each
task is adopted or created, closed when it is over, the beads are linked, and the
mapping is written in two halves. Every call may fail; `bd create` may also fail after the bead
was made. `Move` and `Answer` are people. The state of a task is text in a file that anybody may edit, so
`Move` has no guard but its bound: a task leaves a terminal state as easily as it enters one. `reopened` (history)
holds the tasks that left one when their bead was closed already, or while a command went by the old
state. `Needs` is over all active tasks and questions, of whichever work item, as `compute_readiness` looks
them up. Left out: titles, what a link does in Beads, beads closed by hand.

### Verdict and Queries

Every artifact is declared in a file of its own; indexes, reviews and verify are one
step each. A run of tests leaves a report of one of three kinds (JUnit with or without coverage,
coverage alone, normalized); `at` is the commit it is of, `rev` the one it is stored under, which are the same for
an honest run only. Ingest goes through `AddEvidenceRun`, `AddTestResults`, `AddExecutionEdges`, and
`InsertDiagnostics` for a report that cannot be read, and may be killed between them. `judged` (history) is the change set of a verification that has just returned.

`runs` is `evidence_runs` by run id. An id is one that ingest makes up, of the time and a hash, or any
that `--run-id` names (`GivenId`), one that is there already included: then the row is replaced and
moves to the new revision, while results and executions under the id stay, until a result
of the same test replaces one (`EvidenceRun`, `AddTestResults`). Ids are numbers in the order of their strings, and
`Place` says where an id falls among start times, with which `latest_outcome` compares it. History: `told` is every
report stored under an id, `nth` when the last one was, `named` that it was by `--run-id`.

TL012 and TL013 see whole paths: a path in `Bare` that declares nothing is still there with a boundary nobody
accounts for. `Override` is `policy.requirements`: by lifecycle, what is switched on and off whatever the profile says,
and whether waivers count.

Every rule is an operator that returns what it finds among the artifacts in scope.
`Fulfillment` abstracts from retired requirements and from the `state` property of
implementations. `Queries` adds no variable and no action.

## 3. What is checked

| Run | Instance | Checks |
|---|---|---|
| `session` | 2 processes, every accessor, 2 boundaries, 1 requirement, 1 work item; any of them killed at any point | `TypeOK`, `ObligationsAreDurable`, `ImplementsStore`, `LossNeedsOverlap` |
| `hook_gate_duo` | 2 agents and a user in one file with a class and a method; other rules free | `VerdictIsSound`, `NothingOwed`, `EditsAreAccounted` |
| `hook_gate_cli` | 1 agent, a marked file, shell commands that rewrite, re-mark and remove it, every task, context and index command, one commit, context required; fairness | `TypeOK`, `NothingOwed`, `VerdictIsSound`, `PendingSurvives`, `AccountedStopsAreAllowed` |
| `hook_gate_committed` | 1 agent, a user who commits | violated: `CommittedChangeIsAccounted` (finding 1) |
| `intake_duo` | 2 agents, 1 requirement, 1 work item that is bootstrapped | `TypeOK`, `UnmovedIsPending`, `ImplementationFollowsSpec` |
| `intake_gate` | 1 agent, 1 requirement | violated: `IndexingKeepsGateOpen` (finding 2) |
| `graph` | 2 processes, one verifies, rebuilds and indexes in full, the other indexes and reviews; 2 files and `work.toml`, 3 ids, one commit | `TypeOK`, `StoreMirrorsSeen`, `EdgesHaveActiveSource`, `VerifiedAtHead`, `ChangeIsNoticed`, `StaleWaits` |
| `work_files` | 2 sessions, 2 titles one of which begins the other, 2 tasks begun, 2 receipts, 1 commit | `TypeOK`, `EntriesSurvive`, `EntriesAreUnique`, `ContractsSurvive`, `ReceiptsSurvive`, `FinishedIsDone`, `ImplementsLedger` |
| `beads_mirror` | the command over and over for 2 work items with 3 tasks, two of which wait for each other, 1 question, 2 failures, 2 moves; fairness | `TypeOK`, `OneBeadPerTask`, `SomebodyCanMove`, `NoFalseAlarm`, `MappingConverges` |
| `verdict` | a requirement, its implementation and its test, which may lose its marker; 2 reports, a run id to name and 2 made up, 1 commit, 2 waivers, an overridden lifecycle | `TypeOK`, `PassIsEvidenced`, `LatestRunDecides`, `StricterBlocksMore`, `ReadersAgree` |
| `verdict_run_id` | the same | violated: `PassIsOfItsCommit` (finding 3) |
| `verdict_review` | the same without reports | violated: `ReviewSticks` (finding 4) |

In words:

* **ObligationsAreDurable / ImplementsStore** - until a process writes back a copy that
  another one had outdated, what `add_obligation` reported as recorded stays, and the
  file cannot be told from an atomic store, whoever is killed when.
* **LossNeedsOverlap** - at any time, only an overtaken process or `clear()` undoes an
  obligation.
* **VerdictIsSound** - from the verification to the stop or the closing of the
  work, if no file changed, no boundary changed since HEAD is unaccounted for.
  This depends on which index inheritance is checked against, on the change set
  and on the full rebuild when HEAD moved.
* **NothingOwed** - a stop is allowed, and `finish` clears a session, only with
  an empty pending list, although both read the list before they verify.
* **EditsAreAccounted** - an approved call executed on the file it was approved
  for leaves no new or changed boundary bare, rewritten or not.
* **PendingSurvives** - an obligation ends by being met in the files, by the
  agent's explicit confirmation or with its session.
* **AccountedStopsAreAllowed** - if from some moment on every boundary is
  accounted for, the obligations' files exist and none of their markers sits on another
  boundary (which the code takes for a rename and goes on asking about until the agent
  confirms it), an agent that keeps trying to stop is let go again and again.
* **UnmovedIsPending / ImplementationFollowsSpec** - whatever is edited,
  prompted or indexed, a contract declared changed stays in the gate's list
  until its text changes or the task is reclassified; code is let through only
  after all of them changed.
* **StoreMirrorsSeen** - unless an id is declared twice, the active nodes, their
  sources and fingerprints, and the edges are exactly what each path declared when
  it was last indexed; so incremental and full indexes agree, in any order, across
  kills and overtaking.
* **EdgesHaveActiveSource** - even with duplicate ids no edge outlives the marker
  that declared it.
* **VerifiedAtHead** - rules are evaluated on nodes of one commit, HEAD, whichever
  index commands, kills and commits came before. Verifications during which HEAD moves or
  somebody else replaces the graph are excepted: there it does not hold.
* **ChangeIsNoticed** - the transaction that brings a new fingerprint of a recorded
  artifact into the store marks every dependent stale, those in files that were not
  read included. Two cases are excepted, and are where it fails: an indexer that was overtaken, and one
  killed before it recorded the artifact's first fingerprint.
* **StaleWaits** - a stale node becomes current again only through a review, a clean
  rebuild, or a change of its own artifact; or through an overtaken indexer.
* **EntriesSurvive / ReceiptsSurvive** - no entry of `work.toml` and no receipt is lost,
  unless a process wrote back a copy another one had outdated or died with the file open.
* **EntriesAreUnique** - `work.toml` parses as long as none of the six mishaps of
  section 2 happens; each of them alone is enough to break it or to lead there.
* **ContractsSurvive** - a bootstrap takes no other work item's specification away,
  unless its id is a prefix of the other one's, or both wrote at once.
* **FinishedIsDone** - whatever is begun, finished, killed or indexed in between, a prompt takes up in
  another session what a `finish` closed only if `work.toml` tells nothing at that moment (another
  process has it open, or it has a table twice and does not parse), if an outdated copy was written back
  or a process died with the file open, or if the entry never had a status line.
* **ImplementsLedger** - until a process writes back a stale copy or dies with a file open,
  the commands on `work.toml` and `receipts.jsonl` are steps of `WorkLedger`: an entry is added
  once, a closed work item never becomes active again, no receipt is lost, and `finish` moves the
  receipts of its own work item, and no others, to a commit that is not earlier, after closing it.
* **OneBeadPerTask** - however often the command is repeated after whatever failure,
  a task gets a second bead only if `bd list` failed or two runs overlapped.
* **SomebodyCanMove** - whatever words people write for states, a work item in which something is left
  has a task that is ready, under way or parked, or waits for a state people set, for an open question, for a
  task of another item, or some of its tasks wait for each other in a circle, which nothing in the code refuses.
  Of all tasks together only a circle holds up the rest.
* **NoFalseAlarm** - the mirror closes beads by task states, and writes a mapping, that are old by
  then; still `trace beads reconcile` complains of one thing only: a task that was taken up again when its bead was
  closed already, or while a command went by its old state.
* **MappingConverges** - with finitely many failures and a command that is repeated,
  every task is mapped in the end.
* **PassIsEvidenced** - a verification that lets a committed change through for merge means
  that each requirement which the changed paths declare has a test, and each of its tests a passing result on exactly
  the committed text, or a waiver; commits after the run, reports stored late, twice or
  halfway never add up to a pass. Excepted are runs that name another
  commit than the one tested, and ids that are given again at another commit (finding 3).
* **LatestRunDecides** - what was last stored for a commit decides about each test of a
  requirement that the changed paths declare: an older pass never hides a failure, and a run of which no result is stored counts as one.
  Excepted are runs of which only some tell when they started, late reports of earlier
  runs, which go by start time, and ids given by `--run-id`, which go by their order as strings.
* **StricterBlocksMore** - what blocks goes on blocking under a stricter profile, with evidence required, and at the next
  lifecycle unless the policy takes a requirement back there or begins to allow waivers. Over the whole repository what any
  rule but TL012 and TL013 blocks goes on blocking; these two look at changed paths, of which
  that scope has none (`engine.py:1314`), so there `--all` does let a change through.
* **ReadersAgree** - what fulfillment, `context`, the pull request summary, `why` and the audit
  package show as verified, current, passed, explained or free of drift, the gate has no
  reason to block. What is said of test results is so where all evidence is of HEAD, complete
  and in one format (`Comparable`); otherwise the readers order the runs in another way.

### Bounds

`MaxVer = 2` versions of a boundary's source make "changed and changed back" possible;
a class with one method is the smallest tree in which inheritance, and a parent
whose fingerprint contains a child's marker, occur. One commit
gives the two situations the code tells apart, index built at HEAD or before it.
Two processes or sessions are what a lost update and a release of another
session's gate need. Requirement texts are two, the declared and the changed one. `ListCap` and `ScanCap` are the
code's 20, which no instance reaches. The Write, Edit, shell and user inputs are
small sets listed in `HookGateMC`, chosen to contain a bare class, a method that
inherits, a method with a marker of its own, an Edit whose signature line is in
the replacement, and a removal. In `GraphIndexMC` two files and `work.toml` are the least
in which an edge crosses files, an id moves or is declared in two of them, and a target
is an entry without a fingerprint. `WorkFilesMC` has two slugs one of which is a
prefix of the other, the case the substring test of `_artifact_path` is about, and room for
the second id of each. Two receipts are what it takes for one to be appended
while `_bind_receipts` holds a copy in which it has moved the other. In `BeadsMirrorMC` two tasks of one item wait for
each other and for a question, and the task of another item for one of them; two failures are enough to fail in
two calls of one command or in the same call of two, with two moves a task can be finished and taken up again,
and seven beads cannot be used up. In `VerdictMC`
two reports are what an order of runs, or the second use of an id, needs; the two waivers differ in rule, in what they
name and in being expired; the lifecycle that is overridden switches one requirement on, one off, and waivers off. Every action of the next-state relations fires in these runs.
Deadlock is checked throughout.

Three state constraints cut instances off, and say where:

* `Overlaps` (`session`): calls that overlap are those of the obligation list, in a
  session that holds nothing else; any other call runs alone, and before a race. All accessors
  share the three steps of reading, staging and replacing and differ in the effect only.
* `FewMishaps` (`work_files`): nothing is explored after a first mishap but what
  the mishap itself leads to. The properties except whole runs with a mishap, and the
  theorems of section 4 need no such cut.
* `Ordinary` (`verdict`, `verdict_run_id`): at most one thing is out of the ordinary about the evidence (a run stored
  under another commit, without coverage or unreadable, cut short, named, or timed among runs that are not) or about the
  graph (a file without its marker, a requirement not indexed when evidence comes in), and at most one artifact differs
  from what it was at first. The theorems need no such cut.

Symmetry is used among processes and boundaries in `session`, among agents
in `hook_gate_duo` and among agents and texts in `intake_duo`, and never with liveness.

### Fairness

`HookGate!FairSpec` has weak fairness of `PostHook(s)` and `StopHook(s)`, the steps of a
hook that has been started: the harness waits for it, and nothing the others do
disables it. Agents, users and git are under no obligation; `AccountedStopsAreAllowed`
speaks of an agent that goes on trying. `Lost` is off in this run: a hook that always
times out never answers.

`BeadsMirror!FairSpec` has weak fairness of a command's next step, and strong fairness of starting it for each work
item, since it cannot start while it runs for another one: a process that is not killed comes to its end, and somebody
repeats the command for every item. How often a call
fails is bounded by `MaxFailures`; a tracker that never answers maps nothing.

## 4. What is proved

For any processes, calls, sessions, boundaries, requirements, work items, files, ids,
edits, tasks, reports, waivers and bounds:

| Theorem | States |
|---|---|
| `SessionProofs!TypeCorrect` | `Spec => []TypeOK` |
| `SessionProofs!OverlapOnly` | `Spec => LossNeedsOverlap` |
| `SessionProofs!DurableUntilRaced` | `Spec => []ObligationsAreDurable` |
| `SessionProofs!Refinement` | `Spec => ImplementsStore` |
| `IntakeProofs!TypeCorrect` | `Spec => []TypeOK` |
| `IntakeProofs!UnmovedStaysPending` | `Spec => []UnmovedIsPending` |
| `IntakeProofs!SpecBeforeImplementation` | `Spec => ImplementationFollowsSpec` |
| `GraphIndexProofs!TypeCorrect` | `Spec => []TypeOK` |
| `GraphIndexProofs!StoreMirrors` | `Spec => []StoreMirrorsSeen` |
| `GraphIndexProofs!EdgesRooted` | `Spec => []EdgesHaveActiveSource` |
| `GraphIndexProofs!IncrementalMirrors` | one incremental index preserves the correspondence of store and paths |
| `GraphIndexProofs!ChangesNoticed` | `Spec => ChangeIsNoticed` |
| `GraphIndexProofs!StaleStays` | `Spec => StaleWaits` |
| `GraphIndexProofs!VerifiedHead` | `Spec => []VerifiedAtHead` |
| `HookGateProofs!TypeCorrect` | `Spec => []TypeOK` |
| `HookGateProofs!VerdictSound` | `Spec => []VerdictIsSound` |
| `HookGateProofs!OwesNothing` | `Spec => []NothingOwed` |
| `HookGateProofs!PendingStays` | `Spec => PendingSurvives` |
| `HookGateProofs!EditsAccounted` | `Spec => EditsAreAccounted` |
| `WorkFilesProofs!TypeCorrect` | `Spec => []TypeOK` |
| `WorkFilesProofs!EntriesStay` | `Spec => []EntriesSurvive` |
| `WorkFilesProofs!EntriesStayUnique` | `Spec => []EntriesAreUnique` |
| `WorkFilesProofs!ContractsStay` | `Spec => []ContractsSurvive` |
| `WorkFilesProofs!ReceiptsStay` | `Spec => []ReceiptsSurvive` |
| `WorkFilesProofs!FinishedStaysDone` | `Spec => FinishedIsDone` |
| `WorkFilesProofs!FilesImplementLedger` | `Spec => ImplementsLedger` |
| `BeadsMirrorProofs!TypeCorrect` | `Spec => []TypeOK` |
| `BeadsMirrorProofs!OneBead` | `Spec => []OneBeadPerTask` |
| `BeadsMirrorProofs!CanMove` | `Spec => []SomebodyCanMove` |
| `BeadsMirrorProofs!NoAlarm` | `Spec => []NoFalseAlarm` |
| `VerdictProofs!TypeCorrect` | `Spec => []TypeOK` |
| `VerdictProofs!PassEvidenced` | `Spec => []PassIsEvidenced` |
| `VerdictProofs!LatestDecides` | `Spec => []LatestRunDecides` |
| `VerdictProofs!StricterMore` | `Spec => []StricterBlocksMore` |
| `VerdictProofs!ReadersTellTheSame` | `Spec => []ReadersAgree` |
| `Induction!RepeatExists` | what a definition by repetition defines exists |

The assumptions are those the modules declare on their constants, and TLC checks them
in every instance. `SessionFile`: requests are requests of the store. `TraceTree`: a boundary and
those nested in it are in one file, and nothing is nested in itself. `HookGate`: inputs are within
their sets, an edit's hunk lies in its file and holds the signatures it rewrites, caps are naturals.
`Intake`: `Gone` is no text, the work items known at first are work items, each with a set of
requirements. `GraphIndex`: a path declares an id once, only `work.toml` declares ids without
a fingerprint, and files are ranked by numbers in discovery order. `WorkFiles`: jobs are
the six commands, bounds are naturals. `Readiness`: tasks need tasks and questions, in whatever way. `BeadsMirror`: items are sets of
tasks, links are between tasks, moves go from a state to any word. `Verdict`: requirements, implementations and tests are apart,
the working tree has the paths of the artifacts and an empty `work.toml`, files are ranked by numbers, a waiver names an
artifact or any, the policy may override each of the five lifecycles, bounds are naturals; run ids have an order, of which start times
are part, and those that ingest makes up, which begin with `run-`, come after every time. In each, the value for "none" is not
one of the things it is none of. `OwesNothing` assumes `OwnSessions` besides, `CliSession[s] = s`: that the
command line of an agent uses the session of its own hooks. Where it uses another agent's, that agent's hooks may add to the
list between the reading and the clearing.

*Induction.* The library's induction theorems take a predicate as a parameter, which the provers
cannot instantiate. `Induction` goes another way: `<` on the naturals is well-founded *as a set*, so that
every set of numbers has a least element (`LeastNumber`) and a set that holds 0 and with each number up
to `n` the next holds them all (`UpTo`). A recursive function is a choice among the functions that satisfy its
equation, about which nothing follows until there is one: `RepeatExists` gives it by induction on
the length. `GraphIndex`'s first declaration of an id and the paths of `why` rest on these.

*Session.* `LossNeedsOverlap` is not inductive on `TypeOK` alone: that a process
which was not overtaken writes what it read with one accessor applied needs
`Fresh`, namely that the copy of a process that is not stale is the file (or the
accessor's effect on it, once staged). `EffectKeeps` says that no accessor but
`clear` removes or revives an obligation. Until the first race no stale copy is ever
written, so `CleanStep`: `Replace` is the accessor's effect on the file and every other step
leaves the file alone; that is durability and, under the mapping, the refinement. After a race
the mapping shows the store cleared, and a `clear()` of the file brings both together again.

*Intake.* The invariant is `TypeOK /\ UnmovedIsPending`. The second conjunct is
inductive because it also says that the index holds an active or inactive node
with *the very text* of the document: so a full or incremental index changes
nothing for such a contract, and a reconciliation drops only what has moved.
There is a lemma per group of actions; `ImplementationFollowsSpec` then follows
from the guard of `Submit`.

*GraphIndex.* `StoreMirrorsSeen` is not inductive: `Replace` only copies what a process
computed earlier from a store that may be gone. `IInv` adds that what a process is about
to write is `Sound` and `Rooted` already, and that a full index read every path.
`Sound` also carries that no id is declared twice while `clash` is false, which is what
lets `IncrementalMirrors` tell whose node an id is. `ScannedIs`, `FullNodesIs`,
`MergedNodesIs` and `ReviewedIs` say what the operators return for any argument; the
staleness pass touches nothing but review states, so it drops out of the argument.

*Staleness.* On top of that, `Aware` says of a process that has merged, as long as the store has not been
written to since: what it is about to write keeps stale nodes stale, unless it is a clean
rebuild (`Keeps`), and marks the dependents of each recorded artifact with a new fingerprint
(`Notes`). `ChangeIsNoticed` and `StaleWaits` are that, at the step that writes. `VerifiedAtHead`
needs `Steady`: from its start to its evaluation, an undisturbed verification finds the
graph of HEAD in the store, or is itself about to write it.

*HookGate.* Every step that changes a file makes every waiting hook stale (`fresh`
false), so a verdict need only be carried across steps that change sessions, the index or
HEAD. `VerdictSound` carries `Founded`: while a session holds a verdict in its favour that no
file change has outdated, the index of all boundaries in changed files is what the files say
*now*, and TL013 finds nothing with it. That does not depend on who indexes next, since an
index of the same files says the same. `OwesNothing` carries `Owed`, for every phase of a stop
or finish: what was read as pending before the verification is all that is pending still,
because only the session's own hooks add to the list, and those do not run while it waits.
`EditsAccounted` carries `Approvals`: an approved call that nobody outdated, carried out,
leaves what it changes accounted for; by the transitivity of `Inside`, writing the marker of a
boundary leaves those that enclose it accounted for. `PendingStays` is a case per action.

*WorkFiles.* `Copies`: until a copy that is out of date is written back or a process dies with the file open
(`Clean`), at most one process has `work.toml` open, everybody else's copy is stale, and the
file, or the open process's copy, and every copy that is not stale says all entries
and marks of completion there ever were. `StepKinds` sorts all actions by what they do to the file and to copies:
nothing, take a copy, open, write. `Shares` is the same for the receipts, to which
others also append, so that the file *and* the copy about to be written hold them together.
`Contracts` says of each process that has chosen a path that nothing is lost by
writing it. `Accounts` holds while there was no mishap: the index knows every
entry but those just written, nobody is about to write an entry that is there or that
another one is about to write. `FinishedStaysDone` is `Copies` again: what the file says of
finished work, as long as it says anything, is that it is done.
The refinement of `WorkLedger` takes two more invariants: every copy of `work.toml` that is not stale
says what the ledger says (`Current`), and a copy of the receipts that is not stale is the log
with the receipts of its work item moved to a commit no earlier than theirs, the log being empty
while it is written back (`Rebound`). Opening a file then leaves the ledger as it is, or, for the receipts, is the step that
moves them; writing `work.toml` adds or closes; `Copies` says that what is bound is closed.

*BeadsMirror.* Four invariants carry the two properties. `Numbered`: the beads are finitely
many, their numbers unique and at most their count, so the next one is new. `Mapped`:
whatever the file, a process's copy or what it has seen notes as the bead of a task is one.
`Informed`: while nothing went wrong at most one process is at work, and it has seen every
bead of the tasks it has yet to look at; `OneBead` follows. `OverClosed`: only beads of tasks
that are over, or were when a command read them and have left that state since (`Ended`), are closed or about
to be; no step takes a task out of `Ended` (`EndedStays`), and with `Mapped` that is `NoAlarm`. `CanMove` is about
`Readiness` alone: if nobody in an item can go on, each task that is left is held up by one that is left, and if those are
all of the item, what is left is the circle.

*Verdict.* `IInv` says that what is in the store under a run id is no more than the reports told (`Sound`), that the ids
which ingest made up are in the order of storing (`RunsOrdered`), that every edge in the store comes from an active node, and that what is judged is exactly what the changed paths
declare, by their text (`JudgedTyped`). The last takes the whole index: `ScannedIs` (what is read is what is declared),
`ReviewedIs` (the staleness pass changes review states only), `IndexedAllIs` and `IndexedChangedIs` (whatever was in the
store, the active nodes of the changed paths are those they declare now). `StricterBlocksMore` is about the rules: a
rule outside `PathRule` finds in the whole repository what it finds in a part of it (`FindingGrows`, `FailingGrows`), what
fails with waivers fails without (`UnwaivedFails`),
and stricter profiles and later lifecycles enable every rule, and gate it by every requirement, that laxer
ones do (`EnabledGrows`, `StricterProfile`, `LaterLifecycle`), as far as the policy does not take one back (`Tightens`). `PassIsEvidenced` unfolds what it
means that none of the rules at merge found anything about a declared requirement (`PassMeans`), and `Sound` takes the pass that
TL021 saw back to a report; where no id has moved and every report names its commit, to one of this commit (`PassedTest`).
For `LatestRunDecides`, once the runs are ordered by start time as by arrival, the one stored last is the latest
by every criterion of `Newer` (`LastDecides`).

*Queries.* Where all evidence is comparable the two orders of runs are one (`SameRun`), and with them
the outcomes that the gate and the readers see (`SameOutcome`). For `why`, every path ends with a hop along an
edge (`PathHops`), whose source is active by `IInv`, and the direct hop to a requirement, which has no causes, stays
among the paths (`DirectPath`): so some path ends at a requirement just if an implementation has an edge
to it.

*Model-checked only.* The liveness properties `AccountedStopsAreAllowed` and `MappingConverges`, and the findings.
Liveness under fairness and `ENABLED` are beyond the prover, as are `RECURSIVE` operators (no module here
declares any).

## 5. Where the code and its documentation part

Four runs violate one property each, which a comment, a message or a docstring states:

1. **Committed changes are compared with themselves** (`hook_gate_committed`,
   `policy/rules.py:329`). On a clean tree `verify` takes the change set against
   `default_base()`, but TL013 compares every file with HEAD, which is the same text, and
   finds no boundary changed. "[...] the committed change set vs the merge base [...],
   not nothing", `engine.py:1301-1303`.
2. **Indexing closes the contract gate again** (`intake_gate`, `tasks.py:893`). Whether a
   contract has changed is asked of the document against the index, so indexing the changed
   document, as the gate's message advises (`hooks/pre_mutation.py:554`), makes it
   unchanged. A reconciliation between the two, as after an Edit of the document, prevents it.
3. **A run id used again takes its passes along** (`verdict_run_id`, `graph/store.py:395`). `trace evidence ingest`
   accepts any `--run-id` (`cli.py:2352`). If a run of that id is there, its row is replaced, and with it the revision; its test
   results stay. In the run, the tests pass at one commit, the requirement is changed and committed, and a coverage
   report of the new commit, of which no test result is part, is stored under the same id: the old pass is a pass of the new
   commit, and `verify` lets it through, although no run names a commit it was not at. "Observed truth is bound to a
   revision and an immutable run. It never gets edited to look current", `docs/concepts.md:68-69`; "Editing an old
   evidence record to match a new revision is prohibited", `docs/evidence.md:128-129`.
4. **A review does not last** (`verdict_review`, `engine.py:805`). `_staleness_pass` takes an
   artifact for changed when any other version of it was ever recorded. Once an artifact has
   changed, every later index makes its dependents stale, those that were reviewed
   since included. "Review state [...] preserved across re-indexes for unchanged nodes",
   `engine.py:789-791`.

Modelled as they are, seen while modelling, and without a run of their own:

*Hooks.*
* Reconciliation skips an obligation whose file cannot be read (`hooks/post_mutation.py:628`). One recorded for a denied Write of
  a file that is then never created, or for a file deleted since, stays pending and blocks every stop, although verification
  passes; so does one whose marker was moved to another boundary, as a rename. `trace task resolve-obligation` or `trace
  task end` is the way out.
* `add_obligation` reads, appends and replaces without a lock: overlapping hooks of one
  session lose an entry (`hooks/session_state.py:235`). `LossNeedsOverlap` is what remains.
* `_resolve_obligations_in` knows no inheritance: a boundary that verification accepts as
  inheriting stays owed (`Settled` against `Traced`).
* The scan after a shell command owes boundaries that are as in HEAD.
* A call that is rewritten with markers is not put to the context gate.
* `suggest_marker` looks for `id=...` among bare ids and can mint an id that exists.
* `finish` at a stop with uncommitted changes binds receipts to a HEAD without them.
* The command line records a loaded context for `TRACE_SESSION` or `default`; a hook of another
  session goes on asking for it.
* `intake` of a new feature sets no pending bootstrap; `activate` keeps the requirements of the
  work before when the new work has none.

*Index.*
* `index_changed` lets an entry of `work.toml` replace a marker with the same id in a file it
  did not read, and drops that marker's edges; the comment says the marker wins. Ids declared
  both in changed and unchanged files belong to whichever was read last.
* Inactive nodes of a changed path are dropped by `index_changed` and kept by `index_all`.
* An edit that was indexed and then reverted leaves its nodes: the file is no longer in the
  change set, and `verify --changed` judges what is not there.
* After two commits `trace index --changed` leaves the paths of the first unread.
* A kill between `replace_all` and `record_artifact_version` loses the first version of an
  artifact, and its next change goes unnoticed.
* The stub nodes of `index_changed` (`engine.py:1090`) are never made: edge targets are node
  ids, from which no type can be inferred.
* `git diff --name-status -z` gives a rename's old path first; `changed_files` takes it for the
  new one.
* While another process has `work.toml` open, an index sees an empty file and forgets the work items.

*Work items and beads.*
* A bootstrap whose id is a prefix of another work item's id takes that one's specification
  for its own and overwrites it (`tasks.py:1033`).
* A crash between writing an entry and indexing it, an entry made by `trace new work`, or two
  bootstraps at once lead to the same id minted twice. `work.toml` then has a table twice and
  no longer parses: the work nodes vanish from the index, and `resolve`, which then knows of no done work (`tasks.py:942-956`),
  takes up finished work: "completed work is not resumable" (`tasks.py:790`) holds while the file can be read.
* `work.toml` and the receipts are rewritten in place, not "written atomically" (`tasks.py:3-5`).
* An entry without a status line is never done: `_set_work_status` replaces such a line only.
* The mirror "closes beads whose task is DONE/CANCELLED" only for beads it has just
  created. After a failed `bd create` the links of that task end the command with a `KeyError` before
  the mapping is written (`beads.py:183`). When `bd list` fails, or two runs overlap, tasks
  get second beads. The bead of a task that is taken up again after the command read it as done is closed all the same, and
  `reconcile` then complains.
* Tasks that need each other in a circle wait for ever; no command refuses or reports it.

*Rules and evidence.*
* TL030 never fires in the changed scope; TL060 is always missing; TL050 under
  safety-critical cannot be cleared; TL022 accepts coverage edges of any old revision; an
  ingest of coverage alone makes TL021 fire.
* TL051 is in no profile, yet one unreadable report makes `verify --require-evidence` exit
  with 4 until the next full index. TL100 persists likewise unless `work.toml` changes,
  and the minimal profile does not have it.
* `latest_evidence_run` puts runs without a start time last, `latest_outcome` does not. Ids given by `--run-id` are
  compared as strings: `ci-9` counts as later than `ci-10`.
* Evidence is stored for HEAD also when the tree was dirty; the `run_id` of a normalized report
  is ignored without `--run-id`; nothing writes verification bindings.
* `verify --all` judges the index as it is, and has no changed paths, so TL012 and TL013 find nothing: a change that the
  changed scope stops may pass over the whole repository.
* `_work_owners_for_paths` follows edges in the wrong direction and finds no owner; the audit
  package looks results up by trace id, under which none is stored; `why` keeps the
  paths of one hop which its docstring says it drops.

## 6. What is not modelled, and what is left

*Rules.* TL014 (plans), TL070 (facts), and TL001, TL003 and TL100, which re-emit what the parsers
stored: each is a function of texts.

*Data conversions.* Marker syntax, symbol parsers, file selection, configuration, rendering for each
harness, placement of markers by line. The models start from what these yield.

*No state another part depends on.* Planning, impact, search, knowledge and facts, the generated documents,
`doctor`, the other findings of an audit package, installers, the MCP and web front ends. The adapter for coverage
per test is called by no command.

*One person on a quiet tree.* Migration and release tools.

*Left for later.* `HookGate` with two files, or with more boundaries than `ListCap`; renames and branches other
than the default one.
