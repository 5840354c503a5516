------------------------------ MODULE HookGate ------------------------------
(***************************************************************************)
(* The hooks around one repository: the authoring and context gates before *)
(* an edit (hooks/pre_mutation.py), the obligations that record what they  *)
(* asked for and what satisfies them after an edit or a shell command      *)
(* (hooks/post_mutation.py), the stop gate (hooks/stop_gate.py), and the   *)
(* finalization it attempts (tasks.finish).                                *)
(*                                                                         *)
(* Sessions are coding agents in one working tree.  An agent does one      *)
(* thing at a time: a tool call is a hook, the tool itself and another     *)
(* hook; a stop is a hook that reads the session, verifies, decides and    *)
(* may finalize.  Between any two of these steps the other sessions, the   *)
(* user and git may act.  The spec-update gate at the head of the          *)
(* authoring gate is the subject of Intake.tla.                            *)
(***************************************************************************)
EXTENDS TraceTree

CONSTANTS
  Session,
  Req, Work, NoWork,
  Start,           \* the trees the repository may start from
  CliSession,      \* the session the CLI uses when an agent calls it
  Call,            \* the Write and Edit calls agents make
  Shell, UserEdit, \* what shell commands and the user do to files
  Commands,        \* which CLI and git commands are in use
  AuxDirty,        \* may a file outside Path be changed?  A set of BOOLEANs
  OtherRules,      \* may the rules other than TL012 and TL013 block?  Likewise
  RequireContext,  \* pre_edit_require_context and pre_edit_block_once
  OnBranch,        \* the commits are on a branch off an unmoving main branch
  ListCap,         \* obligations recorded per blocked edit (20 in the code)
  ScanCap,         \* files scanned after a shell command (20 in the code)
  ScanSkips,       \* paths that scan takes for tests or CLI code
  MaxCommits       \* bound: commits made

INSTANCE SessionOps

Calls ==
  [kind : {"write", "edit"}, path : Path, text : [Boundary -> Item],
   hunk : SUBSET Boundary, sigs : SUBSET Boundary]
Effects == [kind : {"write", "delete"}, path : Path, text : [Boundary -> Item]]
AllCommands ==
  {"begin", "end", "confirm", "status", "context", "index", "commit", "finish",
   "timeout"}

ASSUME WorkAssumption == NoWork \notin Work
ASSUME InputAssumption ==
  /\ Start \subseteq Tree
  /\ Call \subseteq Calls
  /\ \A c \in Call : c.hunk \subseteq In(c.path) /\ c.sigs \subseteq c.hunk
  /\ Shell \subseteq Effects /\ UserEdit \subseteq Effects
  /\ Commands \subseteq AllCommands
  /\ CliSession \in [Session -> Session]
ASSUME SwitchAssumption ==
  /\ AuxDirty \subseteq BOOLEAN /\ OtherRules \subseteq BOOLEAN
  /\ RequireContext \in BOOLEAN /\ OnBranch \in BOOLEAN
ASSUME CapAssumption ==
  /\ ListCap \in Nat /\ ScanCap \in Nat /\ MaxCommits \in Nat
  /\ ScanSkips \subseteq Path

VARIABLES
  tree,      \* the working tree
  head,      \* the tree of HEAD
  base,      \* the tree of default_base()
  commits,   \* how many commits were made: names HEAD
  idx,       \* the active nodes of the store
  idxRev,    \* the commit of the last full index
  sess,      \* the session files
  hook,      \* what each agent is in the middle of
  done,      \* work items with status "done" in work.toml
  receipts   \* receipts.jsonl

vars == <<tree, head, base, commits, idx, idxRev, sess, hook, done, receipts>>

files == <<tree, head, base, commits>>
store == <<idx, idxRev>>
tasks == <<done, receipts>>

Receipt == [work : Work, path : Path, commit : 0 .. MaxCommits]

(* fresh: no file has changed since the step that set it (history).        *)
Idle == [phase |-> "idle"]
Hook ==
  {Idle}
    \cup [phase : {"approved"}, call : Calls, old : [Boundary -> Item],
          fresh : BOOLEAN]
    \cup [phase : {"edited"}, path : Path]
    \cup [phase : {"shell"}]
    \cup [phase : {"stopping"}, pend : SUBSET Boundary]
    \cup [phase : {"verified"}, pend : SUBSET Boundary, blocking : BOOLEAN,
          fresh : BOOLEAN]
    \cup [phase : {"allowed"}, fresh : BOOLEAN]
    \cup [phase : {"finishing"}, sid : Session, work : Work \cup {NoWork},
          pend : SUBSET Boundary]
    \cup [phase : {"closing"}, sid : Session, work : Work \cup {NoWork},
          blocking : BOOLEAN, fresh : BOOLEAN]

TypeOK ==
  /\ tree \in Tree /\ head \in Tree /\ base \in Tree
  /\ commits \in 0 .. MaxCommits
  /\ idx \in [Boundary -> Item]
  /\ idxRev \in 0 .. MaxCommits
  /\ sess \in [Session -> SessionData]
  /\ hook \in [Session -> Hook]
  /\ done \in SUBSET Work
  /\ receipts \in SUBSET Receipt

(* A repository as the tool finds it: committed, indexed, no session yet.  *)
Init ==
  /\ tree \in Start
  /\ head = tree
  /\ base = tree
  /\ commits = 0
  /\ idx = [b \in Boundary |-> Indexed(tree.item[b])]
  /\ idxRev = 0
  /\ sess = [s \in Session |-> Blank]
  /\ hook = [s \in Session |-> Idle]
  /\ done = {}
  /\ receipts = {}

-----------------------------------------------------------------------------
(* Edits.                                                                  *)

Scope(c) == IF c.kind = "edit" THEN c.hunk ELSE In(c.path)

Overlay(t, p, B, text) ==
  [files |-> t.files \cup {p},
   item  |-> [b \in Boundary |-> IF b \in B THEN text[b] ELSE t.item[b]]]

(* _proposed_text: the file as the call would leave it.                    *)
Proposed(t, c) == Overlay(t, c.path, Scope(c), c.text)

(* Fault: only Writes are gated.                                           *)
GatedFault(c) == c.kind = "write"

(* An Edit of a missing file proposes nothing and is not gated.            *)
Gated(c) == c.kind = "write" \/ c.path \in tree.files

(* _classify_boundaries: NEW or MODIFIED, and not traced.                  *)
Untraced(c) ==
  LET p == Proposed(tree, c)
  IN {b \in In(c.path) :
        Present(p, b) /\ ~Same(p, tree, b) /\ ~Traced(p, idx, b)}

HasCause(d) == d.work # NoWork \/ Cardinality(d.reqs) = 1

(* The call with a marker put above every untraced boundary: a Write with  *)
(* one active requirement, an Edit with one untraced boundary whose        *)
(* signature line is in the replacement text.  suggest_marker compares     *)
(* "id=..." with bare ids, so an id already in the file is minted again.   *)
CanRewrite(c, d, U) ==
  \/ c.kind = "write" /\ Cardinality(d.reqs) = 1
  \/ c.kind = "edit" /\ \E b \in c.hunk \cap c.sigs : U = {b}

Rewrite(c, U) ==
  [c EXCEPT !.text =
     [b \in Boundary |-> IF b \in U THEN [@[b] EXCEPT !.acc = b] ELSE @[b]]]

Approve(s, c) ==
  hook' = [hook EXCEPT ![s] =
    [phase |-> "approved", call |-> c, fresh |-> TRUE,
     old |-> [b \in Boundary |-> IF b \in c.hunk THEN tree.item[b] ELSE Gone]]]

(* The hooks that wait for an answer lose freshness when a file changes.   *)
Stale(h) == IF "fresh" \in DOMAIN h THEN [h EXCEPT !.fresh = FALSE] ELSE h

(* A step of session s, now at h, that changes files.                      *)
Disturb(s, h) ==
  hook' = [z \in Session |-> IF z = s THEN h ELSE Stale(hook[z])]

(* The first n of a list, in an order the model does not keep.             *)
Capped(S, n) ==
  {L \in SUBSET S :
     Cardinality(L) = IF Cardinality(S) < n THEN Cardinality(S) ELSE n}

(* pre_mutation, authoring gate: untraced boundaries, and the session has  *)
(* a cause to link them to.  They become obligations, and the call is      *)
(* rewritten and let through or else denied.  Without a cause the call is  *)
(* denied and nothing is recorded.                                         *)
Author(s, c) ==
  LET U == Untraced(c)
  IN /\ hook[s] = Idle
     /\ Gated(c) /\ U # {} /\ HasCause(sess[s])
     /\ \E L \in Capped(U, ListCap) :
          sess' = [sess EXCEPT ![s] = AddObligations(@, L)]
     /\ IF CanRewrite(c, sess[s], U)
        THEN Approve(s, Rewrite(c, U))
        ELSE UNCHANGED hook
     /\ UNCHANGED <<files, store, tasks>>

PassesAuthoring(c) == Gated(c) => Untraced(c) = {}

(* pre_mutation, context gate: the first edit of a protected node whose    *)
(* context the session has not loaded is blocked, once.  The payload's     *)
(* line selects the node.  Markers carry work edges, so every active node  *)
(* is protected.                                                           *)
Open(d, n) == n \in d.loaded \/ n \in d.blocked

BlockContext(s, c, n) ==
  /\ hook[s] = Idle
  /\ PassesAuthoring(c)
  /\ RequireContext
  /\ n \in ActiveIn(idx, c.path)
  /\ ~Open(sess[s], n)
  /\ sess' = [sess EXCEPT ![s] = BlockEdit(@, n)]
  /\ UNCHANGED <<files, store, hook, tasks>>

Allow(s, c) ==
  /\ hook[s] = Idle
  /\ PassesAuthoring(c)
  /\ RequireContext /\ ActiveIn(idx, c.path) # {} =>
       \E n \in ActiveIn(idx, c.path) : Open(sess[s], n)
  /\ Approve(s, c)
  /\ UNCHANGED <<files, store, sess, tasks>>

(* The harness runs an approved call.  An Edit finds its old text or       *)
(* fails; no hook follows a failure.                                       *)
Matches(h) ==
  h.call.kind = "edit" =>
    /\ h.call.path \in tree.files
    /\ \A b \in h.call.hunk : tree.item[b] = h.old[b]

Execute(s) ==
  /\ hook[s].phase = "approved"
  /\ Matches(hook[s])
  /\ tree' = Proposed(tree, hook[s].call)
  /\ Disturb(s, [phase |-> "edited", path |-> hook[s].call.path])
  /\ UNCHANGED <<head, base, commits, store, sess, tasks>>

Fail(s) ==
  /\ hook[s].phase = "approved"
  /\ hook' = [hook EXCEPT ![s] = Idle]
  /\ UNCHANGED <<files, store, sess, tasks>>

-----------------------------------------------------------------------------
(* After an edit, and after a shell command.                               *)

(* reconcile_pending_obligations.                                          *)
Settle(d) ==
  ResolveObligations(d, {b \in Pending(d) : Settled(tree, base, b)})

(* record_receipt, at the HEAD the edit was made on.                       *)
Receipts(d, p) ==
  IF d.work = NoWork THEN {}
  ELSE {[work |-> d.work, path |-> p, commit |-> commits]}

(* post_mutation with a path: pending obligations are reconciled, a        *)
(* receipt is written unless the file is gone again.                       *)
PostEdit(s) ==
  /\ hook[s].phase = "edited"
  /\ sess' = [sess EXCEPT ![s] = Settle(@)]
  /\ receipts' = IF hook[s].path \in tree.files
                 THEN receipts \cup Receipts(sess[s], hook[s].path)
                 ELSE receipts
  /\ hook' = [hook EXCEPT ![s] = Idle]
  /\ UNCHANGED <<files, store, done>>

Apply(e) ==
  IF e.kind = "write" THEN Overlay(tree, e.path, In(e.path), e.text)
  ELSE [files |-> tree.files \ {e.path},
        item  |-> [b \in Boundary |->
                     IF PathOf[b] = e.path THEN Gone ELSE tree.item[b]]]

RunShell(s, e) ==
  /\ hook[s] = Idle
  /\ tree' = Apply(e)
  /\ Disturb(s, [phase |-> "shell"])
  /\ UNCHANGED <<head, base, commits, store, sess, tasks>>

(* _scan_changed_files: reconcile, then an obligation for every untraced   *)
(* boundary of the changed files it looks at.                              *)
Scanned(F) ==
  {b \in Boundary : /\ PathOf[b] \in F \ ScanSkips
                    /\ Present(tree, b)
                    /\ ~Traced(tree, idx, b)}

PostShell(s) ==
  /\ hook[s].phase = "shell"
  /\ \E F \in Capped(DiffPaths(tree, head), ScanCap) :
       sess' = [sess EXCEPT ![s] = AddObligations(Settle(@), Scanned(F))]
  /\ hook' = [hook EXCEPT ![s] = Idle]
  /\ UNCHANGED <<files, store, tasks>>

(* A hook that ran into its timeout: the harness goes on without it.       *)
Lost(s) ==
  /\ "timeout" \in Commands
  /\ hook[s] # Idle /\ hook[s].phase # "approved"
  /\ hook' = [hook EXCEPT ![s] = Idle]
  /\ UNCHANGED <<files, store, sess, tasks>>

(* Everyone and everything that changes files without a hook.              *)
UserChange(e) ==
  /\ tree' = Apply(e)
  /\ hook' = [z \in Session |-> Stale(hook[z])]
  /\ UNCHANGED <<head, base, commits, store, sess, tasks>>

(* A commit of everything.  default_base() is the main branch while there  *)
(* are commits off it, else the parent of HEAD.                            *)
Commit ==
  /\ "commit" \in Commands
  /\ commits < MaxCommits
  /\ DiffPaths(tree, head) # {}
  /\ head' = tree
  /\ base' = IF OnBranch /\ commits > 0 THEN base ELSE head
  /\ commits' = commits + 1
  /\ hook' = [z \in Session |-> Stale(hook[z])]
  /\ UNCHANGED <<tree, store, sess, tasks>>

-----------------------------------------------------------------------------
(* The index and verification.                                             *)

(* Fault: uncommitted changes are left out.                                *)
ChangedPathsFault(aux) == DiffPaths(head, base)

(* The change set: what git status reports, or on a clean tree the last    *)
(* commits against default_base().  aux: some other file is changed.       *)
ChangedPaths(aux) ==
  IF DiffPaths(tree, head) # {} \/ aux THEN DiffPaths(tree, head)
  ELSE DiffPaths(head, base)

Reindex(P) ==
  [b \in Boundary |-> IF PathOf[b] \in P THEN Indexed(tree.item[b]) ELSE idx[b]]

(* verify with scope "changed" rebuilds the index when HEAD is no longer   *)
(* the commit it was built at, and refreshes the change set in any case.   *)
VerifyIndex(aux) ==
  Reindex(IF idxRev = commits THEN ChangedPaths(aux) ELSE Path)

(* Fault: a file with an active node counts as accounted for.              *)
BlocksFault(ix, P) == TL012(tree, ix, P)

(* Scopes "changed" and "all" together: the second has no change set, so   *)
(* TL012 and TL013 add nothing.                                            *)
Blocks(ix, P) == TL012(tree, ix, P) \/ TL013(tree, ix, head, P)

(* TL012 and TL013; the other rules may block as well.                     *)
Refresh(aux) == idx' = VerifyIndex(aux) /\ idxRev' = commits
Verdict(aux, other) == other \/ Blocks(VerifyIndex(aux), ChangedPaths(aux))

IndexAll ==
  /\ "index" \in Commands
  /\ idx' = Reindex(Path)
  /\ idxRev' = commits
  /\ UNCHANGED <<files, sess, hook, tasks>>

IndexChanged ==
  /\ "index" \in Commands
  /\ \E aux \in AuxDirty : idx' = Reindex(ChangedPaths(aux))
  /\ UNCHANGED <<files, idxRev, sess, hook, tasks>>

-----------------------------------------------------------------------------
(* The stop gate.                                                          *)

(* stop_gate.handle reads the pending obligations ...                      *)
StopBegin(s) ==
  /\ hook[s] = Idle
  /\ hook' = [hook EXCEPT ![s] =
       [phase |-> "stopping", pend |-> Pending(sess[s])]]
  /\ UNCHANGED <<files, store, sess, tasks>>

(* ... verifies ...                                                        *)
StopVerify(s) ==
  /\ hook[s].phase = "stopping"
  /\ \E aux \in AuxDirty, other \in OtherRules :
       /\ Refresh(aux)
       /\ hook' = [hook EXCEPT ![s] =
            [phase |-> "verified", pend |-> hook[s].pend,
             blocking |-> Verdict(aux, other), fresh |-> TRUE]]
  /\ UNCHANGED <<files, sess, tasks>>

(* Faults: obligations are not reconciled; the verification alone decides. *)
ReconcilesFault(h) == FALSE

StopDecideFault(s) ==
  /\ hook[s].phase = "verified"
  /\ hook' = [hook EXCEPT ![s] =
       IF hook[s].blocking THEN Idle
       ELSE [phase |-> "allowed", fresh |-> hook[s].fresh]]
  /\ UNCHANGED <<files, store, sess, tasks>>

(* ... and when only obligations are in the way reconciles them.           *)
Reconciles(h) == ~h.blocking /\ h.pend # {}

StopDecide(s) ==
  LET d == IF Reconciles(hook[s]) THEN Settle(sess[s]) ELSE sess[s]
      pend == IF Reconciles(hook[s]) THEN Pending(d) ELSE hook[s].pend
  IN /\ hook[s].phase = "verified"
     /\ sess' = [sess EXCEPT ![s] = d]
     /\ hook' = [hook EXCEPT ![s] =
          IF hook[s].blocking \/ pend # {} THEN Idle
          ELSE [phase |-> "allowed", fresh |-> hook[s].fresh]]
     /\ UNCHANGED <<files, store, tasks>>

(* finish: read the session's work, reconcile ...                          *)
FinishFrom(s, sid) ==
  /\ sess' = [sess EXCEPT ![sid] = Settle(@)]
  /\ hook' = [hook EXCEPT ![s] =
       [phase |-> "finishing", sid |-> sid, work |-> sess[sid].work,
        pend |-> Pending(Settle(sess[sid]))]]
  /\ UNCHANGED <<files, store, tasks>>

(* _auto_finalize, for a session with work; without, the stop is over.     *)
Conclude(s) ==
  /\ hook[s].phase = "allowed"
  /\ sess[s].work = NoWork
  /\ hook' = [hook EXCEPT ![s] = Idle]
  /\ UNCHANGED <<files, store, sess, tasks>>

AutoFinish(s) ==
  /\ hook[s].phase = "allowed"
  /\ sess[s].work # NoWork
  /\ FinishFrom(s, s)

(* trace task finish, idle unless there is something to finish.            *)
FinishTask(s) ==
  /\ "finish" \in Commands
  /\ hook[s] = Idle
  /\ \/ sess[CliSession[s]].work # NoWork
     \/ Pending(sess[CliSession[s]]) # {}
  /\ FinishFrom(s, CliSession[s])

(* Fault: the obligations left over are forgotten.                         *)
FinishVerifyFault(s) ==
  /\ hook[s].phase = "finishing"
  /\ \E aux \in AuxDirty, other \in OtherRules :
       /\ Refresh(aux)
       /\ hook' = [hook EXCEPT ![s] =
            [phase |-> "closing", sid |-> hook[s].sid, work |-> hook[s].work,
             blocking |-> Verdict(aux, other), fresh |-> TRUE]]
  /\ UNCHANGED <<files, sess, tasks>>

(* ... verify at merge ...                                                 *)
FinishVerify(s) ==
  /\ hook[s].phase = "finishing"
  /\ \E aux \in AuxDirty, other \in OtherRules :
       /\ Refresh(aux)
       /\ hook' = [hook EXCEPT ![s] =
            [phase |-> "closing", sid |-> hook[s].sid, work |-> hook[s].work,
             blocking |-> Verdict(aux, other) \/ hook[s].pend # {},
             fresh |-> TRUE]]
  /\ UNCHANGED <<files, sess, tasks>>

(* Fault: bound to the commit still to be made.                            *)
BoundFault(R, w) ==
  {IF r.work = w THEN [r EXCEPT !.commit = commits + 1] ELSE r : r \in R}

(* ... and, if that passed, set the work done, bind its receipts to HEAD   *)
(* (_bind_receipts) and clear the session.                                 *)
Bound(R, w) ==
  {IF r.work = w THEN [r EXCEPT !.commit = commits] ELSE r : r \in R}

FinishClose(s) ==
  /\ hook[s].phase = "closing"
  /\ IF hook[s].blocking THEN UNCHANGED <<sess, tasks>>
     ELSE /\ done' = done \cup ({hook[s].work} \ {NoWork})
          /\ receipts' = Bound(receipts, hook[s].work)
          /\ sess' = [sess EXCEPT ![hook[s].sid] = Blank]
  /\ hook' = [hook EXCEPT ![s] = Idle]
  /\ UNCHANGED <<files, store>>

-----------------------------------------------------------------------------
(* CLI commands an agent runs between its tool calls.  They change the     *)
(* session named by --session or TRACE_SESSION, else "default".            *)

Command(s, name, d) ==
  /\ name \in Commands
  /\ hook[s] = Idle
  /\ sess' = [sess EXCEPT ![CliSession[s]] = d]
  /\ UNCHANGED <<files, store, hook, tasks>>

(* Fault: new work starts with an empty list of obligations.               *)
BeginTaskFault(s, w, R) ==
  LET d == SetWork(sess[CliSession[s]], w)
  IN /\ Cardinality(R) <= 1
     /\ Command(s, "begin", [d EXCEPT !.reqs = @ \cup R, !.obl = Blank.obl])

BeginTask(s, w, R) ==
  LET d == SetWork(sess[CliSession[s]], w)
  IN /\ Cardinality(R) <= 1
     /\ Command(s, "begin", [d EXCEPT !.reqs = @ \cup R])

EndTask(s) == Command(s, "end", Blank)

(* trace task resolve-obligation                                           *)
Confirm(s, b) ==
  /\ b \in Pending(sess[CliSession[s]])
  /\ Command(s, "confirm", ResolveObligations(sess[CliSession[s]], {b}))

(* trace task context                                                      *)
ShowTask(s) ==
  Command(s, "status", Settle(sess[CliSession[s]]))

(* trace context                                                           *)
ShowContext(s, n) ==
  /\ \E p \in Path : n \in ActiveIn(idx, p)
  /\ Command(s, "context", LoadContext(sess[CliSession[s]], n))

-----------------------------------------------------------------------------
Agent(s) ==
  \/ \E c \in Call : \/ Author(s, c)
                     \/ \E n \in Boundary : BlockContext(s, c, n)
                     \/ Allow(s, c)
  \/ Execute(s)
  \/ Fail(s)
  \/ \E e \in Shell : RunShell(s, e)
  \/ StopBegin(s)
  \/ FinishTask(s)
  \/ \E w \in Work, R \in SUBSET Req : BeginTask(s, w, R)
  \/ EndTask(s)
  \/ \E b \in Boundary : Confirm(s, b)
  \/ ShowTask(s)
  \/ \E n \in Boundary : ShowContext(s, n)

PostHook(s) == PostEdit(s) \/ PostShell(s)

StopHook(s) ==
  \/ StopVerify(s)
  \/ StopDecide(s)
  \/ Conclude(s)
  \/ AutoFinish(s)
  \/ FinishVerify(s)
  \/ FinishClose(s)

Next ==
  \/ \E s \in Session : Agent(s) \/ PostHook(s) \/ StopHook(s) \/ Lost(s)
  \/ \E e \in UserEdit : UserChange(e)
  \/ Commit
  \/ IndexAll
  \/ IndexChanged

Spec == Init /\ [][Next]_vars

(* The harness runs a hook it has started to its end.  Nothing obliges an  *)
(* agent to act.                                                           *)
FairSpec ==
  Spec /\ \A s \in Session : WF_vars(PostHook(s)) /\ WF_vars(StopHook(s))

-----------------------------------------------------------------------------
(* Properties.                                                             *)

Passed(h) ==
  \/ h.phase = "allowed"
  \/ h.phase \in {"verified", "closing"} /\ ~h.blocking

(* A verdict in a session's favour, from the verification to the stop or   *)
(* to the closing of the work, means what it says as long as no file has   *)
(* changed: every boundary changed since HEAD is accounted for.            *)
VerdictIsSound ==
  \A s \in Session :
    Passed(hook[s]) /\ hook[s].fresh =>
      ~TL013(tree, idx, head, DiffPaths(tree, head))

(* A session is let go, and cleared by finish, only when it owes nothing:  *)
(* no obligation is dropped unmet.                                         *)
NothingOwed ==
  \A s \in Session :
    /\ hook[s].phase = "allowed" => Pending(sess[s]) = {}
    /\ hook[s].phase = "closing" /\ ~hook[s].blocking =>
         Pending(sess[hook[s].sid]) = {}

(* "New code cannot exist before tracing is considered"                    *)
(* (pre_mutation.py:9): unless the files changed under it, an approved     *)
(* call leaves no boundary it adds or changes without a marker, an         *)
(* exemption or a declaration of inheritance.                              *)
EditsAreAccounted ==
  [][ \A s \in Session :
        Execute(s) /\ hook[s].fresh =>
          \A b \in In(hook[s].call.path) :
            Present(tree', b) /\ ~Same(tree', tree, b) =>
              tree'.item[b].acc # "none" ]_vars

(* A pending obligation ends in three ways only: the files show it met,    *)
(* the agent confirms it, or its session is cleared.                       *)
PendingSurvives ==
  [][ \A s \in Session, b \in Boundary :
        b \in Pending(sess[s]) /\ b \notin Pending(sess'[s]) =>
          \/ Settled(tree, base, b)
          \/ \E z \in Session : CliSession[z] = s /\ Confirm(z, b)
          \/ sess'[s] = Blank ]_vars

(* An obligation whose boundary is gone while its marker is on another one *)
(* is left for the agent to confirm, as a rename (post_mutation.py:601).   *)
Renamed(b) ==
  /\ ~Present(tree, b)
  /\ \E c \in BoundariesOf(tree, PathOf[b]) : tree.item[c].acc = b

(* Once every boundary is accounted for, and for no obligation the file is *)
(* missing or the boundary renamed, an agent that keeps trying to stop is  *)
(* let go: a stale list "must not block completion forever"                *)
(* (stop_gate.py:36).                                                      *)
Accounted(b) == Present(tree, b) => Attached(tree, b)
Reachable ==
  \A s \in Session, b \in Boundary :
    b \in Pending(sess[s]) => PathOf[b] \in tree.files /\ ~Renamed(b)

AccountedStopsAreAllowed ==
  <>[]((\A b \in Boundary : Accounted(b)) /\ Reachable) =>
    \A s \in Session :
      []<>(hook[s].phase = "stopping") => []<>(hook[s].phase = "allowed")

-----------------------------------------------------------------------------
(* What comments and docs say, and the code does not do.                   *)

(* On a clean tree verify is to "evaluate the committed change set vs the  *)
(* merge base [...], not nothing" (engine.py:1301-1303): a verdict in a    *)
(* session's favour means that every boundary the commits changed is       *)
(* accounted for.                                                          *)
CommittedChangeIsAccounted ==
  \A s \in Session :
    Passed(hook[s]) /\ hook[s].fresh /\ tree = head =>
      ~TL013(tree, idx, base, DiffPaths(head, base))

=============================================================================
