------------------------------- MODULE Intake -------------------------------
(***************************************************************************)
(* How a session comes by its cause, and the gate that makes a changed     *)
(* contract come before its implementation: the prompt hook                *)
(* (hooks/prompt_context.py), the task commands begin, activate, bootstrap *)
(* and intake (tasks.py, cli.py), and the spec-update gate at the head of  *)
(* the authoring gate (hooks/pre_mutation.py).                             *)
(*                                                                         *)
(* The gate compares a requirement's text in its document with the text    *)
(* the index holds.  Between the declaration of a change and an edit the   *)
(* document is edited by agents and users, the index is rebuilt by anyone, *)
(* and the task is reclassified.  What the gates after this one decide is  *)
(* the subject of HookGate.tla.                                            *)
(***************************************************************************)
EXTENDS SessionOps

CONSTANTS
  Session,
  Text,     \* what a requirement may say: equal text, equal fingerprint
  Gone,     \* its block is not in its document
  Known,    \* work items in the graph from the start
  ReqsOf    \* requirements whose marker names a work item

ASSUME GoneAssumption == Gone \notin Text
ASSUME WorkAssumption == Known \subseteq Work /\ ReqsOf \in [Work -> SUBSET Req]

VARIABLES
  text,    \* what each requirement says in its document
  idx,     \* the node the index holds for each requirement
  works,   \* work items in the graph
  sess,    \* the session files
  tool,    \* the Write or Edit each agent is in the middle of
  asked,   \* history: contracts each session declared changed, and has not
           \* reclassified since
  moved    \* history: those of them whose text differed from the index when
           \* they were declared, or has been changed since

vars == <<text, idx, works, sess, tool, asked, moved>>
docs == <<text, idx, works>>
history == <<asked, moved>>

(* A requirement whose marker disappeared keeps an inactive node with the  *)
(* text last indexed.                                                      *)
NoNode == [kind |-> "none"]
Node == [kind : {"node"}, text : Text, active : BOOLEAN]

Code == [kind |-> "code"]
Doc(r) == [kind |-> "doc", req |-> r]
File == {Code} \cup [kind : {"doc"}, req : Req]

Idle == [phase |-> "idle"]
Tool == {Idle}
          \cup [phase : {"approved"}, file : File, text : Text \cup {Gone}]
          \cup [phase : {"edited"}, file : File]

TypeOK ==
  /\ text \in [Req -> Text \cup {Gone}]
  /\ idx \in [Req -> {NoNode} \cup Node]
  /\ works \in SUBSET Work
  /\ sess \in [Session -> SessionData]
  /\ tool \in [Session -> Tool]
  /\ asked \in [Session -> SUBSET Req]
  /\ moved \in [Session -> SUBSET Req]

Indexed(t) == [kind |-> "node", text |-> t, active |-> TRUE]

Init ==
  /\ text \in [Req -> Text \cup {Gone}]
  /\ idx = [r \in Req |-> IF text[r] = Gone THEN NoNode ELSE Indexed(text[r])]
  /\ works = Known
  /\ sess = [s \in Session |-> Blank]
  /\ tool = [s \in Session |-> Idle]
  /\ asked = [s \in Session |-> {}]
  /\ moved = [s \in Session |-> {}]

-----------------------------------------------------------------------------
(* The documents and the index.                                            *)

(* _req_fingerprint_changed: the document against the index, and unchanged *)
(* when the index has no such requirement.                                 *)
Changed(r) ==
  idx[r] # NoNode /\ (text[r] = Gone \/ text[r] # idx[r].text)

Say(r, t) ==
  /\ text' = [text EXCEPT ![r] = t]
  /\ moved' = [s \in Session |->
       IF t # text[r] THEN moved[s] \cup {r} ELSE moved[s]]

(* Edits no hook sees before they happen: the user's, git's, and those of  *)
(* shell commands.                                                         *)
UserEdit(r, t) ==
  /\ t # text[r]
  /\ Say(r, t)
  /\ UNCHANGED <<idx, works, sess, tool, asked>>

Removed(n) == IF n = NoNode THEN n ELSE [n EXCEPT !.active = FALSE]

(* Fault: a requirement without a text is indexed.                         *)
FullIndexFault(t) == [r \in Req |-> Indexed(t[r])]

(* index_all.                                                              *)
FullIndex(t) ==
  [r \in Req |-> IF t[r] = Gone THEN Removed(idx[r]) ELSE Indexed(t[r])]

IndexAll ==
  /\ idx' = FullIndex(text)
  /\ UNCHANGED <<text, works, sess, tool, history>>

(* index_changed, which verify runs too: documents that git reports as     *)
(* changed.  HEAD is not modelled: any set may be.  A node that is already *)
(* inactive is not carried over.                                           *)
IndexChanged(R) ==
  /\ idx' = [r \in Req |->
       IF r \notin R THEN idx[r]
       ELSE IF text[r] # Gone THEN Indexed(text[r])
       ELSE IF idx[r] # NoNode /\ idx[r].active THEN Removed(idx[r])
       ELSE NoNode]
  /\ UNCHANGED <<text, works, sess, tool, history>>

-----------------------------------------------------------------------------
(* Prompts and task commands.                                              *)

Update(s, d) ==
  /\ sess' = [sess EXCEPT ![s] = d]
  /\ UNCHANGED <<docs, tool, history>>

(* A prompt that names a work item, a requirement or both.  The ids are    *)
(* taken as they are.                                                      *)
PromptIds(s, W, R) ==
  /\ W \cup R # {}
  /\ Update(s, [sess[s] EXCEPT
       !.work = IF W = {} THEN @ ELSE CHOOSE w \in W : TRUE,
       !.reqs = @ \cup R])

(* A prompt for something new.                                             *)
PromptNew(s) ==
  /\ sess[s].work = NoWork /\ ~sess[s].boot
  /\ Update(s, SetBootstrap(sess[s]))

(* Fault: activation forgets the pending contracts.                        *)
ActivatedFault(d, w) ==
  ClearSpecUpdate(ClearBootstrap(SetWork(d, w)))

(* tasks.activate, from the command line or by a prompt that resumes a     *)
(* work item.  A requirement's marker declares its work item.              *)
RequirementsFor(w) == {r \in ReqsOf[w] : idx[r] # NoNode /\ idx[r].active}

Activated(d, w) ==
  SetRequirements(ClearBootstrap(SetWork(d, w)), RequirementsFor(w))

Activate(s, w) ==
  /\ w \in works
  /\ Update(s, Activated(sess[s], w))

Begin(s, w, R) ==
  /\ w \in works
  /\ Update(s, [SetWork(sess[s], w) EXCEPT !.reqs = @ \cup R])

Forget(s) ==
  /\ asked' = [asked EXCEPT ![s] = {}]
  /\ moved' = [moved EXCEPT ![s] = {}]

End(s) ==
  /\ sess' = [sess EXCEPT ![s] = Blank]
  /\ Forget(s)
  /\ UNCHANGED <<docs, tool>>

(* tasks.bootstrap: write the spec, add the work item, index all, activate. *)
(* The ids are new to the index.                                           *)
Bootstrapped(d, w) ==
  ClearSpecUpdate(ClearBootstrap(SetRequirements(SetWork(d, w), ReqsOf[w])))

Bootstrap(s, w, t) ==
  /\ w \notin works
  /\ \A r \in ReqsOf[w] : idx[r] = NoNode /\ text[r] = Gone
  /\ text' = [r \in Req |-> IF r \in ReqsOf[w] THEN t ELSE text[r]]
  /\ idx' = FullIndex(text')
  /\ works' = works \cup {w}
  /\ sess' = [sess EXCEPT ![s] = Bootstrapped(@, w)]
  /\ asked' = [asked EXCEPT ![s] = {}]
  /\ moved' = [z \in Session |-> IF z = s THEN {} ELSE moved[z] \cup ReqsOf[w]]
  /\ UNCHANGED tool

(* tasks.intake, by the kind declared.  BEHAVIOR_CHANGE concerns the       *)
(* requirements named, else those of the work item named.                  *)
Named(d, W, R) ==
  SetRequirements(IF W = {} THEN d ELSE SetWork(d, CHOOSE w \in W : TRUE), R)

Concerns(W, R) == IF R # {} THEN R ELSE UNION {RequirementsFor(w) : w \in W}

MayName(W, R) == W \subseteq works /\ \A r \in R : idx[r] # NoNode

(* An unknown requirement is an error, found after the work item was set.  *)
IntakeFails(s, w) ==
  /\ w \in works
  /\ \E r \in Req : idx[r] = NoNode
  /\ Update(s, SetWork(sess[s], w))

DeclareChange(s, W, R) ==
  LET d == ClearBootstrap(Named(sess[s], W, R))
  IN /\ MayName(W, R)
     /\ sess' = [sess EXCEPT ![s] = SetSpecUpdate(d, Concerns(W, R))]
     /\ asked' = [asked EXCEPT ![s] = @ \cup Concerns(W, R)]
     /\ moved' = [moved EXCEPT ![s] =
          (@ \ Concerns(W, R)) \cup {r \in Concerns(W, R) : Changed(r)}]
     /\ UNCHANGED <<docs, tool>>

(* Fault: every reclassification clears the pending contracts.             *)
DeclareFeatureFault(s, W, R) ==
  /\ MayName(W, R)
  /\ Update(s, ClearSpecUpdate(ClearBootstrap(Named(sess[s], W, R))))

(* GREENFIELD_PROJECT, NEW_FEATURE, FEATURE_EXTENSION and                  *)
(* BUG_CONTRACT_BACKFILL.                                                  *)
DeclareFeature(s, W, R) ==
  /\ MayName(W, R)
  /\ Update(s, ClearBootstrap(Named(sess[s], W, R)))

(* REFACTOR, MAINTENANCE and NON_BEHAVIORAL_EDIT.                          *)
DeclareMaintenance(s, W, R) ==
  /\ MayName(W, R)
  /\ sess' = [sess EXCEPT ![s] =
       ClearSpecUpdate(ClearBootstrap(Named(@, W, R)))]
  /\ Forget(s)
  /\ UNCHANGED <<docs, tool>>

-----------------------------------------------------------------------------
(* The gate.                                                               *)

(* _reconcile_spec_updates.                                                *)
Reconciled(d) == DropSpecUpdate(d, {r \in d.spec : Changed(r)})

(* With contracts still to change, only a document of one of them may be   *)
(* edited.                                                                 *)
Admits(d, F) ==
  d.spec = {} \/ \E r \in d.spec : F = Doc(r) /\ idx[r].kind = "node" /\ idx[r].active

HasCause(d) == d.work # NoWork \/ Cardinality(d.reqs) = 1

(* untraced: the call adds or changes a boundary without a trace.  What a  *)
(* call writes to code is left out.                                        *)
Passes(d, F, untraced) ==
  Admits(d, F) /\ (F = Code /\ untraced => HasCause(d))

Submit(s, F, t, untraced) ==
  LET d == Reconciled(sess[s])
  IN /\ tool[s] = Idle
     /\ F = Code => t = Gone
     /\ sess' = [sess EXCEPT ![s] = d]
     /\ tool' = IF Passes(d, F, untraced)
                THEN [tool EXCEPT ![s] =
                        [phase |-> "approved", file |-> F, text |-> t]]
                ELSE tool
     /\ UNCHANGED <<docs, history>>

Execute(s) ==
  /\ tool[s].phase = "approved"
  /\ tool' = [tool EXCEPT ![s] = [phase |-> "edited", file |-> @.file]]
  /\ IF tool[s].file = Code THEN UNCHANGED <<text, moved>>
     ELSE Say(tool[s].file.req, tool[s].text)
  /\ UNCHANGED <<idx, works, sess, asked>>

Fail(s) ==
  /\ tool[s].phase = "approved"
  /\ tool' = [tool EXCEPT ![s] = Idle]
  /\ UNCHANGED <<docs, sess, history>>

(* The hook after an edit reconciles, unless the file is missing or the    *)
(* hook runs into its timeout.                                             *)
PostEdit(s) ==
  /\ tool[s].phase = "edited"
  /\ tool' = [tool EXCEPT ![s] = Idle]
  /\ sess' = [sess EXCEPT ![s] = Reconciled(@)] \/ UNCHANGED sess
  /\ UNCHANGED <<docs, history>>

-----------------------------------------------------------------------------
AtMostOne(S) == {{}} \cup {{x} : x \in S}

Agent(s) ==
  \/ \E W \in AtMostOne(Work), R \in AtMostOne(Req) : PromptIds(s, W, R)
  \/ PromptNew(s)
  \/ \E w \in Work : \/ Activate(s, w)
                     \/ \E R \in AtMostOne(Req) : Begin(s, w, R)
                     \/ \E t \in Text : Bootstrap(s, w, t)
                     \/ IntakeFails(s, w)
  \/ End(s)
  \/ \E W \in AtMostOne(Work), R \in SUBSET Req :
        \/ DeclareChange(s, W, R)
        \/ DeclareFeature(s, W, R)
        \/ DeclareMaintenance(s, W, R)
  \/ \E F \in File, t \in Text \cup {Gone}, untraced \in BOOLEAN :
        Submit(s, F, t, untraced)
  \/ Execute(s)
  \/ Fail(s)
  \/ PostEdit(s)

Next ==
  \/ \E s \in Session : Agent(s)
  \/ \E r \in Req, t \in Text \cup {Gone} : UserEdit(r, t)
  \/ IndexAll
  \/ \E R \in SUBSET Req : IndexChanged(R)

Spec == Init /\ [][Next]_vars

-----------------------------------------------------------------------------
(* A contract that was declared changed and still says what it said stays  *)
(* in the session's list, and the index holds that very text, so that no   *)
(* reconciliation drops it: whatever is indexed, edited or prompted in     *)
(* between, only the text or a reclassification opens the gate             *)
(* (tasks.py:534-535).                                                     *)
UnmovedIsPending ==
  \A s \in Session :
    \A r \in asked[s] \ moved[s] :
      r \in sess[s].spec /\ idx[r] # NoNode /\ ~Changed(r)

(* "The requirement must change BEFORE the implementation does"            *)
(* (pre_mutation.py:547): when an edit of code is let through, the text of *)
(* every contract the session declared changed has been changed.           *)
ImplementationFollowsSpec ==
  [][ \A s \in Session :
        /\ tool[s] = Idle /\ tool'[s] # Idle /\ tool'[s].file = Code
        => asked[s] \subseteq moved[s] ]_vars

-----------------------------------------------------------------------------
(* What comments say, and the code does not do.                            *)

(* The denied agent is told to edit the requirement and then to "Re-run    *)
(* `trace index --changed`" (pre_mutation.py:554): a gate that a changed   *)
(* text has opened is not closed again by indexing that text.              *)
GateOpen(s) == Admits(Reconciled(sess[s]), Code)

IndexingKeepsGateOpen ==
  [][ \A s \in Session :
        GateOpen(s) /\ UNCHANGED <<text, sess>> => GateOpen(s)' ]_vars

=============================================================================
