----------------------------- MODULE WorkFiles -----------------------------
(***************************************************************************)
(* The files behind a task: .trace/work.toml, the specifications under     *)
(* docs/, .trace/receipts/receipts.jsonl and the graph store, as           *)
(* tasks.bootstrap, activate, resolve and finish, record_receipt and the   *)
(* command `trace new work` use them.  Every session is one process at a   *)
(* time; sessions overlap, nothing locks the files, and a process may be   *)
(* killed between any two steps.                                           *)
(*                                                                         *)
(* A file is rewritten with Path.write_text: opened, which empties it, and *)
(* written.  An id WORK-<slug>-<n> is the pair <<slug, n>> (n = 1 has no   *)
(* suffix).  A bundle has one requirement, named like its work item, and   *)
(* its specification is known by that item; plans, which are written the   *)
(* same way, are left out.  The verdict of verify is free, but for a       *)
(* work.toml that does not parse: TL100, in every profile but minimal.     *)
(***************************************************************************)
EXTENDS Naturals, FiniteSets

CONSTANTS
  Session,
  Job,          \* the commands each session runs
  Slug,         \* slugs of titles
  Starts,       \* <<a, b>>: the slug a is a proper prefix of the slug b
  NoWork,
  MaxCopies,    \* bounds: ids of a slug, tasks begun or created,
  MaxBegun,     \*         receipts and commits
  MaxReceipts,
  MaxCommits

ASSUME WorkFilesAssumption ==
  /\ Job \in [Session ->
       SUBSET {"bootstrap", "new", "index", "activate", "prompt", "finish"}]
  /\ Starts \subseteq Slug \X Slug
  /\ MaxCopies \in Nat \ {0}
  /\ MaxBegun \in Nat
  /\ MaxReceipts \in Nat
  /\ MaxCommits \in Nat
  /\ NoWork \notin Slug \X (1..MaxCopies)

VARIABLES
  toml,      \* work.toml
  spec,      \* the work item each specification file is for
  log,       \* receipts.jsonl
  graph,     \* what the graph store says of work items
  sess,      \* the active work of each session
  proc,      \* what each session's process is in the middle of
  dirty,     \* files that differ from HEAD
  last,      \* files of the last commit
  head,      \* the current commit
  begun,     \* bound: tasks begun or created
  written,   \* bound and history: receipts ever recorded
  added,     \* history: work items whose entry was written
  covered,   \* history: work items whose specification was written
  finished,  \* history: work items whose finish came to its end
  mishap     \* history: what went wrong around the files

vars == <<toml, spec, log, graph, sess, proc, dirty, last, head, begun,
          written, added, covered, finished, mishap>>
git == <<dirty, last, head>>
counts == <<begun, written, added, covered, finished>>
history == <<counts, mishap>>

Id == Slug \X (1..MaxCopies)
Work == Id \cup {NoWork}

(* work.toml: the status line of the first block of each id ("none": a     *)
(* block without one), and the ids with more than one block.               *)
Status == {"absent", "none", "active", "done"}
Toml == [status : [Id -> Status], twice : SUBSET Id]
Empty == [status |-> [i \in Id |-> "absent"], twice |-> {}]

Listed(t) == {i \in Id : t.status[i] # "absent"}

(* A table given twice is a TOML error, and then no entry is read.         *)
Parses(t) == t.twice = {}
Declared(t) == IF Parses(t) THEN Listed(t) ELSE {}

(* Specifications are named after a work item, but docs/spec.md.           *)
DefaultPath == NoWork
Path == {DefaultPath} \cup Id

Receipt == [n : 1..MaxReceipts, work : Id, commit : 0..MaxCommits]

File == {"work.toml", "code", "specs"}

Phase ==
  {"idle", "minted", "specified", "entry", "entryOpen", "written", "indexed",
   "named", "bare", "bareOpen",
   "finishing", "passed", "status", "statusOpen", "closed", "bind", "bindOpen",
   "bound"}

(* stale: another process has rewritten what this one has a copy of        *)
(* (history).                                                              *)
Process ==
  [phase : Phase, work : Work, path : Path, toml : Toml,
   log : SUBSET Receipt, stale : BOOLEAN]

Idle ==
  [phase |-> "idle", work |-> NoWork, path |-> DefaultPath, toml |-> Empty,
   log |-> {}, stale |-> FALSE]

Graph ==
  [known : SUBSET Id,      \* work nodes, inactive ones too
   live  : SUBSET Id,      \* the active ones
   broken : BOOLEAN,       \* TL100 for work.toml is stored
   rev   : 0..MaxCommits]

(* What can go wrong around the files: a process rewrites what another one *)
(* has a copy of, or dies with a file open; an index reads a file that is  *)
(* open; a bootstrap dies before its index; two processes mint the same    *)
(* id; `trace new` adds an entry nobody indexes.                           *)
Mishap == {"overtaken", "torn", "glimpsed", "half", "twin", "loose"}

TypeOK ==
  /\ toml \in Toml
  /\ spec \in [Path -> Work]
  /\ log \in SUBSET Receipt
  /\ graph \in Graph
  /\ sess \in [Session -> Work]
  /\ proc \in [Session -> Process]
  /\ dirty \in SUBSET File /\ last \in SUBSET File
  /\ head \in 0..MaxCommits
  /\ begun \in 0..MaxBegun
  /\ written \in 0..MaxReceipts
  /\ {added, covered, finished} \subseteq SUBSET Id
  /\ mishap \in SUBSET Mishap

Init ==
  /\ toml = Empty
  /\ spec = [p \in Path |-> NoWork]
  /\ log = {}
  /\ graph = [known |-> {}, live |-> {}, broken |-> FALSE, rev |-> 0]
  /\ sess = [s \in Session |-> NoWork]
  /\ proc = [s \in Session |-> Idle]
  /\ dirty = {} /\ last = {}
  /\ head = 0
  /\ begun = 0
  /\ written = 0
  /\ added = {} /\ covered = {} /\ finished = {}
  /\ mishap = {}

-----------------------------------------------------------------------------
(* Ids and paths.                                                          *)

(* get_node finds inactive nodes, too.                                     *)
Taken(g) == g.known

(* Fault: the slug, taken or not.                                          *)
MintedFault(g, c) == {<<c, 1>>}

(* The slug, or the first of slug-2, slug-3, ... that is not taken.        *)
Minted(g, c) ==
  {<<c, n>> : n \in {m \in 1..MaxCopies :
      /\ <<c, m>> \notin Taken(g)
      /\ \A k \in 1..(m - 1) : <<c, k>> \in Taken(g)}}

(* Another process has minted the same id.                                 *)
Twin(i) ==
  IF \E q \in Session : proc[q].phase # "idle" /\ proc[q].work = i
  THEN {"twin"} ELSE {}

(* "work=<j>" is a substring of a specification written for i.             *)
Mentions(i, j) ==
  \/ i = j
  \/ i # NoWork /\ j[2] = 1 /\ (i[1] = j[1] \/ <<j[1], i[1]>> \in Starts)

(* Fault: the default path is used whenever the file is there.             *)
SpecPathFault(i) == DefaultPath

(* _artifact_path.                                                         *)
SpecPath(i) ==
  IF spec[DefaultPath] = NoWork \/ Mentions(spec[DefaultPath], i)
  THEN DefaultPath ELSE i

-----------------------------------------------------------------------------
(* Reading and rewriting work.toml.                                        *)

Held == {"entry", "entryOpen", "bare", "bareOpen", "status", "statusOpen"}
OpenPhase == {"entryOpen", "bareOpen", "statusOpen"}
OpenBy(q) == proc[q].phase \in OpenPhase

Goto(s, ph) == proc' = [proc EXCEPT ![s].phase = ph]

(* The processes with a copy of work.toml, but s, after s changed the file. *)
Outdated(P, s) ==
  [q \in Session |->
     IF q # s /\ P[q].phase \in Held THEN [P[q] EXCEPT !.stale = TRUE]
     ELSE P[q]]

(* read_text; a file another process has opened for writing reads empty.   *)
ReadToml(s, from, to) ==
  /\ proc[s].phase = from
  /\ proc' = [proc EXCEPT ![s].phase = to, ![s].toml = toml,
                          ![s].stale = \E q \in Session : OpenBy(q)]
  /\ UNCHANGED <<toml, spec, log, graph, sess, git, history>>

Overtaken(s) == IF proc[s].stale THEN {"overtaken"} ELSE {}

(* write_text, first half.                                                 *)
OpenToml(s, from, to) ==
  /\ proc[s].phase = from
  /\ toml' = Empty
  /\ proc' = Outdated([proc EXCEPT ![s].phase = to], s)
  /\ dirty' = dirty \cup {"work.toml"}
  /\ mishap' = mishap \cup Overtaken(s)
  /\ UNCHANGED <<spec, log, graph, sess, last, head, counts>>

(* write_text, second half: t is the content, P the processes after it.    *)
WriteToml(s, t, P) ==
  /\ toml' = t
  /\ proc' = Outdated(P, s)
  /\ mishap' = mishap \cup Overtaken(s)
  /\ UNCHANGED <<spec, log, graph, sess, git, begun, written, covered, finished>>

(* Fault: the file becomes the new block.                                  *)
AppendedFault(t, i, st) == [Empty EXCEPT !.status[i] = st]

(* A block is appended, whether the id has one or not.                     *)
Appended(t, i, st) ==
  IF t.status[i] = "absent"
  THEN [t EXCEPT !.status[i] = st]
  ELSE [t EXCEPT !.twice = @ \cup {i}]

-----------------------------------------------------------------------------
(* bootstrap.                                                              *)

(* Validate the bundle, mint the id from the store, choose the path of the *)
(* specification.                                                          *)
Bootstrap(s, c) ==
  /\ "bootstrap" \in Job[s]
  /\ proc[s].phase = "idle"
  /\ begun < MaxBegun
  /\ begun' = begun + 1
  /\ \E i \in Minted(graph, c) :
       /\ proc' = [proc EXCEPT ![s] =
            [Idle EXCEPT !.phase = "minted", !.work = i, !.path = SpecPath(i)]]
       /\ mishap' = mishap \cup Twin(i)
  /\ UNCHANGED <<toml, spec, log, graph, sess, git, written, added, covered,
                 finished>>

(* spec_file.write_text; a process that chose the same path is overtaken.  *)
WriteSpec(s) ==
  /\ proc[s].phase = "minted"
  /\ spec' = [spec EXCEPT ![proc[s].path] = proc[s].work]
  /\ covered' = covered \cup {proc[s].work}
  /\ dirty' = dirty \cup {"specs"}
  /\ proc' = [q \in Session |->
       IF q = s THEN [proc[s] EXCEPT !.phase = "specified", !.stale = FALSE]
       ELSE IF proc[q].phase = "minted" /\ proc[q].path = proc[s].path
            THEN [proc[q] EXCEPT !.stale = TRUE] ELSE proc[q]]
  /\ mishap' = mishap \cup Overtaken(s)
  /\ UNCHANGED <<toml, log, graph, sess, last, head, begun, written, added,
                 finished>>

BootstrapRead(s) == ReadToml(s, "specified", "entry")
BootstrapOpen(s) == OpenToml(s, "entry", "entryOpen")

(* Append the entry, with its title, status and origin.                    *)
BootstrapWrite(s) ==
  /\ proc[s].phase = "entryOpen"
  /\ WriteToml(s, Appended(proc[s].toml, proc[s].work, "active"),
       [proc EXCEPT ![s] =
          [Idle EXCEPT !.phase = "written", !.work = proc[s].work]])
  /\ added' = added \cup {proc[s].work}

-----------------------------------------------------------------------------
(* The index, as far as work items go.                                     *)

(* index_all: what is no longer declared stays as an inactive node.        *)
FullIndex(g) ==
  [known |-> g.known \cup Declared(toml), live |-> Declared(toml),
   broken |-> ~Parses(toml), rev |-> head]

Changed == IF dirty # {} THEN dirty ELSE last

(* index_changed: work.toml is read again, and its nodes that are gone     *)
(* become inactive, or vanish if they were, when it is among the changed   *)
(* files.                                                                  *)
ChangedIndex(g) ==
  IF Changed = {} THEN g
  ELSE LET kept == IF "work.toml" \in Changed THEN g.live ELSE g.known
           stay == IF "work.toml" \in Changed THEN {} ELSE g.live IN
       [known |-> kept \cup Declared(toml), live |-> stay \cup Declared(toml),
        broken |-> ~Parses(toml) \/ (g.broken /\ "work.toml" \notin Changed),
        rev |-> head]

(* verify(scope = "changed") brings the index up to date first.            *)
Refreshed(g) ==
  IF g.known = {} THEN FullIndex(g)
  ELSE IF g.rev # head THEN ChangedIndex(FullIndex(g)) ELSE ChangedIndex(g)

(* An index reads work.toml when it pleases, even while it is open.        *)
Glimpsed == IF \E q \in Session : OpenBy(q) THEN {"glimpsed"} ELSE {}

(* engine.index_all() of bootstrap.                                        *)
BootstrapIndex(s) ==
  /\ proc[s].phase = "written"
  /\ graph' = FullIndex(graph)
  /\ Goto(s, "indexed")
  /\ mishap' = mishap \cup Glimpsed
  /\ UNCHANGED <<toml, spec, log, sess, git, counts>>

(* The session's accessors; SessionFile has their steps.                   *)
BootstrapActivate(s) ==
  /\ proc[s].phase = "indexed"
  /\ sess' = [sess EXCEPT ![s] = proc[s].work]
  /\ proc' = [proc EXCEPT ![s] = Idle]
  /\ UNCHANGED <<toml, spec, log, graph, git, history>>

(* `trace index`.                                                          *)
Index(s) ==
  /\ "index" \in Job[s]
  /\ proc[s].phase = "idle"
  /\ graph' = FullIndex(graph)
  /\ mishap' = mishap \cup Glimpsed
  /\ UNCHANGED <<toml, spec, log, sess, proc, git, counts>>

(* activate: only an active work node.                                     *)
Activate(s, i) ==
  /\ "activate" \in Job[s]
  /\ proc[s].phase = "idle"
  /\ i \in graph.live
  /\ sess' = [sess EXCEPT ![s] = i]
  /\ UNCHANGED <<toml, spec, log, graph, proc, git, history>>

(* _open_work_statuses: a block without a status counts as active, and of  *)
(* a file that does not parse nothing is known.                            *)
KnownDone(t) == {i \in Declared(t) : t.status[i] = "done"}

(* resolve: the work items a prompt may be found to continue, by what they *)
(* are scored on; the active one goes without the score.                   *)
Resumable(s) == {sess[s]} \cup (graph.live \ KnownDone(toml))

(* The prompt hook, of a prompt that names no work item; activate refuses  *)
(* one that is not live, and the session goes on as it was.                *)
Resume(s, i) ==
  /\ "prompt" \in Job[s]
  /\ proc[s].phase = "idle"
  /\ i \in Resumable(s) \cap graph.live
  /\ sess' = [sess EXCEPT ![s] = i]
  /\ UNCHANGED <<toml, spec, log, graph, proc, git, history>>

-----------------------------------------------------------------------------
(* `trace new work`: mint an id and append a block with a title only,      *)
(* unless its header is in the file.                                       *)

NewWork(s, c) ==
  /\ "new" \in Job[s]
  /\ proc[s].phase = "idle"
  /\ begun < MaxBegun
  /\ begun' = begun + 1
  /\ \E i \in Minted(graph, c) :
       /\ proc' = [proc EXCEPT ![s] =
            [Idle EXCEPT !.phase = "named", !.work = i]]
       /\ mishap' = mishap \cup Twin(i)
  /\ UNCHANGED <<toml, spec, log, graph, sess, git, written, added, covered,
                 finished>>

NewRead(s) == ReadToml(s, "named", "bare")

NewSkip(s) ==
  /\ proc[s].phase = "bare"
  /\ proc[s].work \in Listed(proc[s].toml)
  /\ proc' = [proc EXCEPT ![s] = Idle]
  /\ UNCHANGED <<toml, spec, log, graph, sess, git, history>>

NewOpen(s) ==
  /\ proc[s].work \notin Listed(proc[s].toml)
  /\ OpenToml(s, "bare", "bareOpen")

NewWrite(s) ==
  /\ proc[s].phase = "bareOpen"
  /\ toml' = Appended(proc[s].toml, proc[s].work, "none")
  /\ proc' = Outdated([proc EXCEPT ![s] = Idle], s)
  /\ mishap' = mishap \cup Overtaken(s) \cup {"loose"}
  /\ added' = added \cup {proc[s].work}
  /\ UNCHANGED <<spec, log, graph, sess, git, begun, written, covered, finished>>

-----------------------------------------------------------------------------
(* Receipts.                                                               *)

(* The processes with a copy of the receipts, but s, after s changed them. *)
Behind(P, s) ==
  [q \in Session |->
     IF q # s /\ P[q].phase \in {"bind", "bindOpen"}
     THEN [P[q] EXCEPT !.stale = TRUE] ELSE P[q]]

(* record_receipt appends a line with the commit of the moment, for an     *)
(* edit of the code.                                                       *)
RecordReceipt(s) ==
  /\ proc[s].phase = "idle"
  /\ sess[s] # NoWork
  /\ written < MaxReceipts
  /\ written' = written + 1
  /\ log' = log \cup {[n |-> written + 1, work |-> sess[s], commit |-> head]}
  /\ proc' = Behind(proc, s)
  /\ dirty' = dirty \cup {"code"}
  /\ UNCHANGED <<toml, spec, graph, sess, last, head, begun, added, covered,
                 finished, mishap>>

(* Faults: of a file that is written, only the receipts of the work are    *)
(* kept; they get the commit to come.                                      *)
RebindNextFault(R, i) ==
  {IF r.work = i THEN [r EXCEPT !.commit = head + 1] ELSE r : r \in R}
RebindFault(R, i) ==
  IF \A r \in R : r.work = i => r.commit = head THEN R
  ELSE {[r EXCEPT !.commit = head] : r \in {q \in R : q.work = i}}

(* Every receipt of the work gets the current commit.                      *)
Rebind(R, i) ==
  {IF r.work = i THEN [r EXCEPT !.commit = head] ELSE r : r \in R}

(* _bind_receipts: rev(), read_text.  The file is written only when a      *)
(* receipt changes.                                                        *)
BindRead(s) ==
  /\ proc[s].phase = "closed"
  /\ LET R == Rebind(log, proc[s].work) IN
       proc' = [proc EXCEPT
         ![s].phase = IF R = log THEN "bound" ELSE "bind",
         ![s].log = IF R = log THEN {} ELSE R,
         ![s].stale = \E q \in Session : proc[q].phase = "bindOpen"]
  /\ UNCHANGED <<toml, spec, log, graph, sess, git, history>>

BindOpen(s) ==
  /\ proc[s].phase = "bind"
  /\ log' = {}
  /\ proc' = Behind([proc EXCEPT ![s].phase = "bindOpen"], s)
  /\ mishap' = mishap \cup Overtaken(s)
  /\ UNCHANGED <<toml, spec, graph, sess, git, counts>>

BindWrite(s) ==
  /\ proc[s].phase = "bindOpen"
  /\ log' = proc[s].log
  /\ proc' = Behind([proc EXCEPT ![s] =
       [Idle EXCEPT !.phase = "bound", !.work = proc[s].work]], s)
  /\ mishap' = mishap \cup Overtaken(s)
  /\ UNCHANGED <<toml, spec, graph, sess, git, counts>>

-----------------------------------------------------------------------------
(* finish.                                                                 *)

Finish(s) ==
  /\ "finish" \in Job[s]
  /\ proc[s].phase = "idle"
  /\ sess[s] # NoWork
  /\ proc' = [proc EXCEPT ![s] =
       [Idle EXCEPT !.phase = "finishing", !.work = sess[s]]]
  /\ UNCHANGED <<toml, spec, log, graph, sess, git, history>>

(* verify, on what the refreshed index holds; a blocked finish returns.    *)
FinishVerify(s, pass) ==
  /\ proc[s].phase = "finishing"
  /\ graph' = Refreshed(graph)
  /\ pass => ~graph'.broken
  /\ proc' = IF pass THEN [proc EXCEPT ![s].phase = "passed"]
             ELSE [proc EXCEPT ![s] = Idle]
  /\ mishap' = mishap \cup Glimpsed
  /\ UNCHANGED <<toml, spec, log, sess, git, counts>>

StatusRead(s) == ReadToml(s, "passed", "status")
StatusOpen(s) == OpenToml(s, "status", "statusOpen")

(* Fault: the search ends at the first block.                              *)
ClosedFault(t, i) ==
  IF Listed(t) = {i} THEN [t EXCEPT !.status[i] = "done"] ELSE t

(* Fault: the status lines of all blocks.                                  *)
ClosedAllFault(t, i) ==
  [t EXCEPT !.status = [j \in Id |-> IF @[j] = "active" THEN "done" ELSE @[j]]]

(* _set_work_status: the status line of the block becomes done; a block    *)
(* without one stays as it is; a missing block is added.                   *)
Closed(t, i) ==
  IF t.status[i] = "none" THEN t ELSE [t EXCEPT !.status[i] = "done"]

StatusWrite(s) ==
  /\ proc[s].phase = "statusOpen"
  /\ WriteToml(s, Closed(proc[s].toml, proc[s].work),
       [proc EXCEPT ![s] =
          [Idle EXCEPT !.phase = "closed", !.work = proc[s].work]])
  /\ added' = added \cup {proc[s].work}

(* state.clear.                                                            *)
FinishClear(s) ==
  /\ proc[s].phase = "bound"
  /\ finished' = finished \cup {proc[s].work}
  /\ sess' = [sess EXCEPT ![s] = NoWork]
  /\ proc' = [proc EXCEPT ![s] = Idle]
  /\ UNCHANGED <<toml, spec, log, graph, git, begun, written, added, covered,
                 mishap>>

-----------------------------------------------------------------------------
Commit ==
  /\ dirty # {}
  /\ head < MaxCommits
  /\ head' = head + 1
  /\ last' = dirty
  /\ dirty' = {}
  /\ UNCHANGED <<toml, spec, log, graph, sess, proc, history>>

(* A process is killed; a file it has open stays empty.                    *)
Kill(s) ==
  /\ proc[s].phase # "idle"
  /\ proc' = [proc EXCEPT ![s] = Idle]
  /\ mishap' = mishap
       \cup (IF proc[s].phase \in OpenPhase \cup {"bindOpen"}
             THEN {"torn"} ELSE {})
       \cup (IF proc[s].phase = "written" THEN {"half"} ELSE {})
  /\ UNCHANGED <<toml, spec, log, graph, sess, git, counts>>

Next ==
  \/ Commit
  \/ \E s \in Session :
       \/ \E c \in Slug : Bootstrap(s, c) \/ NewWork(s, c)
       \/ WriteSpec(s)
       \/ BootstrapRead(s)
       \/ BootstrapOpen(s)
       \/ BootstrapWrite(s)
       \/ BootstrapIndex(s)
       \/ BootstrapActivate(s)
       \/ Index(s)
       \/ \E i \in Id : Activate(s, i) \/ Resume(s, i)
       \/ NewRead(s)
       \/ NewSkip(s)
       \/ NewOpen(s)
       \/ NewWrite(s)
       \/ RecordReceipt(s)
       \/ Finish(s)
       \/ \E pass \in BOOLEAN : FinishVerify(s, pass)
       \/ StatusRead(s)
       \/ StatusOpen(s)
       \/ StatusWrite(s)
       \/ BindRead(s)
       \/ BindOpen(s)
       \/ BindWrite(s)
       \/ FinishClear(s)
       \/ Kill(s)

Spec == Init /\ [][Next]_vars

-----------------------------------------------------------------------------
(* Properties.                                                             *)

(* No process wrote back a copy that another one had outdated, or died     *)
(* with a file open.                                                       *)
Clean == mishap \cap {"overtaken", "torn"} = {}

(* Rewriting work.toml loses no entry, unless a process wrote back a copy  *)
(* another one had outdated or died with the file open.                    *)
EntriesSurvive ==
  Clean =>
    \A i \in added :
      \/ i \in Listed(toml)
      \/ \E s \in Session : OpenBy(s) /\ i \in Listed(proc[s].toml)

(* work.toml stays readable, whoever overlaps, finishes or dies, as long   *)
(* as none of the named mishaps happens.                                   *)
EntriesAreUnique ==
  mishap = {} => Parses(toml)

(* No bootstrap takes the specification of another work item away ("a      *)
(* repeated bootstrap never overwrites a prior work's artifacts",          *)
(* tasks.py:1027), unless the new id is a prefix of the old one or both    *)
(* wrote at once.                                                          *)
ContractsSurvive ==
  "overtaken" \notin mishap =>
    \A i \in covered :
      \/ \E p \in Path : spec[p] = i
      \/ \E j \in covered : j # i /\ Mentions(i, j)

(* A receipt stays in receipts.jsonl, unless a finish wrote back an old    *)
(* copy or died with the file open.                                        *)
ReceiptsSurvive ==
  Clean =>
    \A n \in 1..written :
      \/ \E r \in log : r.n = n
      \/ \E s \in Session :
           proc[s].phase = "bindOpen" /\ \E r \in proc[s].log : r.n = n

(* A prompt takes up a work item that was finished ("mark the work item    *)
(* done", tasks.py:424; "not resumable", tasks.py:790) only if its block   *)
(* has no status line, or work.toml tells nothing at that moment: it is    *)
(* open in another process, or has a table twice, or a process wrote back  *)
(* a copy another one had outdated or died with the file open.  Whatever   *)
(* else is begun, finished, killed or indexed in between, nothing brings   *)
(* it back while the file can be read.                                     *)
FinishedIsDone ==
  [][ \A s \in Session, i \in finished :
        Resume(s, i) /\ sess[s] # i =>
          \/ toml.status[i] = "none"
          \/ ~ Parses(toml)
          \/ \E q \in Session : OpenBy(q)
          \/ ~ Clean ]_vars

(* The process that has work.toml open has in memory what the file will    *)
(* say; it is the same with receipts.jsonl, to which others append.        *)
Ledger ==
  IF \E s \in Session : OpenBy(s)
  THEN proc[CHOOSE s \in Session : OpenBy(s)].toml.status ELSE toml.status
Logged ==
  log \cup UNION {proc[s].log : s \in {q \in Session : proc[q].phase = "bindOpen"}}

WL == INSTANCE WorkLedger
       WITH Commits <- 0..MaxCommits,
            status <- Ledger, receipts <- Logged, damaged <- ~Clean

(* The commands that read, empty and rewrite these two files without a     *)
(* lock are steps of one ledger: an entry is added once, a closed work     *)
(* item stays closed, no receipt is lost, and finish moves the receipts of *)
(* its work item, and no others, to a later commit and after the work item *)
(* is closed, until a copy that is out of date is written back or a        *)
(* process dies with a file open.                                          *)
ImplementsLedger == WL!Spec
=============================================================================
