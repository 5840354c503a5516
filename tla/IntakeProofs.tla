---------------------------- MODULE IntakeProofs ----------------------------
(* Proofs about the intake gate (Intake.tla), for any sessions,            *)
(* requirements, texts and work items.                                     *)
EXTENDS Intake, TLAPS

(* How a step of a session may change the list of pending contracts.       *)
LEMMA SessionTypes ==
  ASSUME NEW d \in SessionData, NEW w \in Work, NEW R \in SUBSET Req
  PROVE  /\ SetWork(d, w) \in SessionData /\ SetWork(d, w).spec = d.spec
         /\ SetRequirements(d, R) \in SessionData
         /\ SetRequirements(d, R).spec = d.spec
         /\ [d EXCEPT !.reqs = @ \cup R] \in SessionData
         /\ [d EXCEPT !.reqs = @ \cup R].spec = d.spec
         /\ SetBootstrap(d) \in SessionData /\ SetBootstrap(d).spec = d.spec
         /\ ClearBootstrap(d) \in SessionData /\ ClearBootstrap(d).spec = d.spec
         /\ SetSpecUpdate(d, R) \in SessionData
         /\ SetSpecUpdate(d, R).spec = d.spec \cup R
         /\ DropSpecUpdate(d, R) \in SessionData
         /\ DropSpecUpdate(d, R).spec = d.spec \ R
         /\ ClearSpecUpdate(d) \in SessionData
BY DEF SessionData, SetWork, SetRequirements, SetBootstrap, ClearBootstrap,
   SetSpecUpdate, DropSpecUpdate, ClearSpecUpdate

LEMMA BlankType == Blank \in SessionData
BY DEF Blank, SessionData, OblState

(* Reconciling drops nothing but changed contracts.                        *)
LEMMA ReconciledType ==
  ASSUME TypeOK, NEW d \in SessionData
  PROVE  /\ Reconciled(d) \in SessionData
         /\ Reconciled(d).spec = {r \in d.spec : ~Changed(r)}
<1> DEFINE R == {r \in d.spec : Changed(r)}
<1>1. R \in SUBSET Req
  BY DEF SessionData
<1>2. Reconciled(d) = DropSpecUpdate(d, R)
  BY DEF Reconciled
<1>3. DropSpecUpdate(d, R) = [d EXCEPT !.spec = @ \ R]
  BY DEF DropSpecUpdate
<1> HIDE DEF R
<1>4. Reconciled(d) \in SessionData /\ Reconciled(d).spec = d.spec \ R
  BY <1>1, <1>2, <1>3 DEF SessionData
<1> QED
  BY <1>4 DEF R

LEMMA NamedType ==
  ASSUME TypeOK, NEW d \in SessionData, NEW W \in AtMostOne(Work),
         NEW R \in SUBSET Req
  PROVE  Named(d, W, R) \in SessionData /\ Named(d, W, R).spec = d.spec
<1>1. CASE W = {}
  BY <1>1 DEF Named, SessionData, SetRequirements
<1>2. CASE W # {}
  <2>1. PICK w \in Work : W = {w}
    BY <1>2 DEF AtMostOne
  <2>2. (CHOOSE x \in W : TRUE) = w
    BY <2>1
  <2>3. Named(d, W, R) = SetRequirements(SetWork(d, w), R)
    BY <1>2, <2>2 DEF Named
  <2> QED
    BY <2>3 DEF SessionData, SetRequirements, SetWork
<1> QED
  BY <1>1, <1>2

LEMMA TextInit == Init => TypeOK /\ UnmovedIsPending
<1> SUFFICES ASSUME Init PROVE TypeOK /\ UnmovedIsPending
  OBVIOUS
<1>1. \A r \in Req : idx[r] \in {NoNode} \cup Node
  BY DEF Init, Node, NoNode, Indexed
<1> QED
  BY <1>1, BlankType, WorkAssumption
     DEF Init, TypeOK, UnmovedIsPending, Tool

-----------------------------------------------------------------------------
Inv == TypeOK /\ UnmovedIsPending

(* A step that only changes one session's file, and takes no contract off  *)
(* its list.                                                               *)
LEMMA UpdateStep ==
  ASSUME Inv, NEW s \in Session, NEW d \in SessionData,
         Update(s, d), sess[s].spec \subseteq d.spec
  PROVE  Inv'
<1>1. TypeOK'
  BY DEF Inv, TypeOK, Update, docs, history
<1>2. UnmovedIsPending'
  BY DEF Inv, TypeOK, UnmovedIsPending, Update, docs, history, Changed
<1> QED
  BY <1>1, <1>2 DEF Inv

LEMMA PromptSteps ==
  ASSUME Inv, NEW s \in Session, NEW W \in AtMostOne(Work),
         NEW R \in AtMostOne(Req), PromptIds(s, W, R) \/ PromptNew(s)
  PROVE  Inv'
<1>1. sess[s] \in SessionData /\ R \in SUBSET Req
  BY DEF Inv, TypeOK, AtMostOne
<1>2. CASE PromptNew(s)
  <2>1. SetBootstrap(sess[s]) \in SessionData
        /\ SetBootstrap(sess[s]).spec = sess[s].spec
    BY <1>1 DEF SetBootstrap, SessionData
  <2> QED
    BY <1>2, <2>1, UpdateStep DEF PromptNew
<1>3. CASE PromptIds(s, W, R)
  <2> DEFINE w == IF W = {} THEN sess[s].work ELSE CHOOSE x \in W : TRUE
             d == [sess[s] EXCEPT !.work = w, !.reqs = @ \cup R]
  <2>1. w \in Work \cup {NoWork}
    BY <1>1 DEF AtMostOne, SessionData
  <2>2. Update(s, d)
    BY <1>3 DEF PromptIds
  <2> HIDE DEF w
  <2>3. d \in SessionData /\ d.spec = sess[s].spec
    BY <1>1, <2>1 DEF SessionData
  <2> HIDE DEF d
  <2> QED
    BY <2>2, <2>3, UpdateStep
<1> QED
  BY <1>2, <1>3

LEMMA ActivationSteps ==
  ASSUME Inv, NEW s \in Session, NEW w \in Work, NEW R \in AtMostOne(Req),
         Activate(s, w) \/ Begin(s, w, R) \/ IntakeFails(s, w)
  PROVE  Inv'
<1>1. sess[s] \in SessionData /\ R \in SUBSET Req
  BY DEF Inv, TypeOK, AtMostOne
<1>2. CASE Activate(s, w)
  <2>1. RequirementsFor(w) \in SUBSET Req
    BY WorkAssumption DEF RequirementsFor
  <2>2. Activated(sess[s], w) \in SessionData
        /\ Activated(sess[s], w).spec = sess[s].spec
    BY <1>1, <2>1
       DEF Activated, SessionData, SetWork, SetRequirements, ClearBootstrap
  <2> QED
    BY <1>2, <2>2, UpdateStep DEF Activate
<1>3. CASE Begin(s, w, R)
  <2> DEFINE d == [SetWork(sess[s], w) EXCEPT !.reqs = @ \cup R]
  <2>1. d \in SessionData /\ d.spec = sess[s].spec
    BY <1>1 DEF SessionData, SetWork
  <2>2. Update(s, d)
    BY <1>3 DEF Begin
  <2> HIDE DEF d
  <2> QED
    BY <2>1, <2>2, UpdateStep
<1>4. CASE IntakeFails(s, w)
  <2>1. SetWork(sess[s], w) \in SessionData /\ SetWork(sess[s], w).spec = sess[s].spec
    BY <1>1 DEF SessionData, SetWork
  <2> QED
    BY <1>4, <2>1, UpdateStep DEF IntakeFails
<1> QED
  BY <1>2, <1>3, <1>4

LEMMA FeatureStep ==
  ASSUME Inv, NEW s \in Session, NEW W \in AtMostOne(Work),
         NEW R \in SUBSET Req, DeclareFeature(s, W, R)
  PROVE  Inv'
<1> DEFINE d == ClearBootstrap(Named(sess[s], W, R))
<1>1. Named(sess[s], W, R) \in SessionData
      /\ Named(sess[s], W, R).spec = sess[s].spec
  BY NamedType DEF Inv, TypeOK
<1>2. d \in SessionData /\ d.spec = sess[s].spec
  BY <1>1 DEF ClearBootstrap, SessionData
<1>3. Update(s, d)
  BY DEF DeclareFeature
<1> HIDE DEF d
<1> QED
  BY <1>2, <1>3, UpdateStep

(* End and the non-behavioural kinds: the session asks for nothing more.   *)
LEMMA ForgetSteps ==
  ASSUME Inv, NEW s \in Session, NEW d \in SessionData,
         sess' = [sess EXCEPT ![s] = d], Forget(s), UNCHANGED <<docs, tool>>
  PROVE  Inv'
<1>1. TypeOK'
  BY DEF Inv, TypeOK, Forget, docs
<1>2. UnmovedIsPending'
  BY DEF Inv, TypeOK, UnmovedIsPending, Forget, docs, Changed
<1> QED
  BY <1>1, <1>2 DEF Inv

LEMMA ChangeStep ==
  ASSUME Inv, NEW s \in Session, NEW W \in AtMostOne(Work),
         NEW R \in SUBSET Req, DeclareChange(s, W, R)
  PROVE  Inv'
<1> DEFINE C == Concerns(W, R)
           d == ClearBootstrap(Named(sess[s], W, R))
<1>1. C \in SUBSET Req /\ \A r \in C : idx[r] # NoNode
  BY WorkAssumption DEF DeclareChange, MayName, Concerns, RequirementsFor, AtMostOne
<1>2. Named(sess[s], W, R) \in SessionData
      /\ Named(sess[s], W, R).spec = sess[s].spec
  BY NamedType DEF Inv, TypeOK
<1>3. d \in SessionData /\ d.spec = sess[s].spec
  BY <1>2 DEF ClearBootstrap, SessionData
<1>4. /\ sess' = [sess EXCEPT ![s] = SetSpecUpdate(d, C)]
      /\ asked' = [asked EXCEPT ![s] = @ \cup C]
      /\ moved' = [moved EXCEPT ![s] = (@ \ C) \cup {r \in C : Changed(r)}]
      /\ UNCHANGED <<docs, tool>>
  BY DEF DeclareChange
<1> HIDE DEF d, C
<1>5. SetSpecUpdate(d, C) \in SessionData
      /\ SetSpecUpdate(d, C).spec = sess[s].spec \cup C
  BY <1>1, <1>3 DEF SetSpecUpdate, SessionData
<1>6. TypeOK'
  BY <1>1, <1>4, <1>5 DEF Inv, TypeOK, docs
<1>7. UnmovedIsPending'
  BY <1>1, <1>4, <1>5 DEF Inv, TypeOK, UnmovedIsPending, docs, Changed
<1> QED
  BY <1>6, <1>7 DEF Inv

-----------------------------------------------------------------------------
(* Steps that reconcile drop changed contracts only, and leave the         *)
(* documents and the index alone.                                          *)
LEMMA ReconcileStep ==
  ASSUME Inv, NEW s \in Session, tool' \in [Session -> Tool],
         \/ sess' = [sess EXCEPT ![s] = Reconciled(@)]
         \/ UNCHANGED sess,
         UNCHANGED <<docs, history>>
  PROVE  Inv'
<1>1. /\ Reconciled(sess[s]) \in SessionData
      /\ Reconciled(sess[s]).spec = {r \in sess[s].spec : ~Changed(r)}
  BY ReconciledType DEF Inv, TypeOK
<1>2. TypeOK'
  BY <1>1 DEF Inv, TypeOK, docs, history
<1>3. UnmovedIsPending'
  BY <1>1 DEF Inv, TypeOK, UnmovedIsPending, docs, history, Changed
<1> QED
  BY <1>2, <1>3 DEF Inv

LEMMA ToolSteps ==
  ASSUME Inv, NEW s \in Session, NEW F \in File, NEW t \in Text \cup {Gone},
         NEW untraced \in BOOLEAN,
         Submit(s, F, t, untraced) \/ Fail(s) \/ PostEdit(s)
  PROVE  Inv'
<1>1. tool' \in [Session -> Tool]
  BY DEF Inv, TypeOK, Submit, Fail, PostEdit, Tool
<1> QED
  BY <1>1, ReconcileStep DEF Submit, Fail, PostEdit

(* A text that changes is moved; the rest is as it was.                    *)
LEMMA SayStep ==
  ASSUME Inv, NEW r \in Req, NEW t \in Text \cup {Gone}, Say(r, t),
         tool' \in [Session -> Tool], UNCHANGED <<idx, works, sess, asked>>
  PROVE  Inv'
<1>1. TypeOK'
  BY DEF Inv, TypeOK, Say
<1>2. UnmovedIsPending'
  <2> SUFFICES ASSUME NEW s \in Session, NEW q \in asked'[s] \ moved'[s]
               PROVE  (q \in sess[s].spec /\ idx[q] # NoNode /\ ~Changed(q))'
    BY DEF UnmovedIsPending
  <2>1. q \in asked[s] \ moved[s] /\ q \in Req
    BY DEF Inv, TypeOK, Say
  <2>2. text'[q] = text[q]
    BY <2>1 DEF Inv, TypeOK, Say
  <2> QED
    BY <2>1, <2>2 DEF Inv, UnmovedIsPending, Changed
<1> QED
  BY <1>1, <1>2 DEF Inv

LEMMA ExecuteStep ==
  ASSUME Inv, NEW s \in Session, Execute(s)
  PROVE  Inv'
<1>1. tool[s] \in [phase : {"approved"}, file : File, text : Text \cup {Gone}]
  BY DEF Inv, TypeOK, Execute, Tool, Idle
<1>2. tool' \in [Session -> Tool]
  BY <1>1 DEF Inv, TypeOK, Execute, Tool
<1>3. CASE tool[s].file = Code
  BY <1>2, <1>3, ReconcileStep DEF Execute, docs, history
<1>4. CASE tool[s].file # Code
  <2>1. tool[s].file.req \in Req /\ tool[s].text \in Text \cup {Gone}
    BY <1>1, <1>4 DEF File
  <2> QED
    BY <1>2, <1>4, <2>1, SayStep DEF Execute
<1> QED
  BY <1>3, <1>4

(* Rebuilding the index records the text of the documents.                 *)
LEMMA RemovedType ==
  ASSUME NEW n \in {NoNode} \cup Node
  PROVE  Removed(n) \in {NoNode} \cup Node
BY DEF Removed, Node, NoNode

LEMMA IndexedType ==
  ASSUME NEW t \in Text
  PROVE  Indexed(t) \in Node /\ Indexed(t) # NoNode /\ Indexed(t).text = t
BY DEF Indexed, Node, NoNode

LEMMA IndexSteps ==
  ASSUME Inv, NEW R \in SUBSET Req, IndexAll \/ IndexChanged(R)
  PROVE  Inv'
<1>1. \A q \in Req : idx'[q] \in {NoNode} \cup Node
  BY RemovedType, IndexedType
     DEF Inv, TypeOK, IndexAll, IndexChanged, FullIndex
<1>2. idx' = [q \in Req |-> idx'[q]] /\ UNCHANGED <<text, works, sess, tool, history>>
  BY DEF IndexAll, IndexChanged, FullIndex
<1>3. idx' \in [Req -> {NoNode} \cup Node]
  BY <1>1, <1>2
<1>4. TypeOK'
  BY <1>2, <1>3 DEF Inv, TypeOK, history
<1>5. \A q \in Req : text[q] # Gone => idx'[q] \in {idx[q], Indexed(text[q])}
  BY DEF IndexAll, IndexChanged, FullIndex
<1>6. UnmovedIsPending'
  <2> SUFFICES ASSUME NEW s \in Session, NEW q \in asked'[s] \ moved'[s]
               PROVE  (q \in sess[s].spec /\ idx[q] # NoNode /\ ~Changed(q))'
    BY DEF UnmovedIsPending
  <2>1. q \in Req /\ q \in sess[s].spec /\ idx[q] # NoNode /\ ~Changed(q)
    BY <1>2 DEF Inv, TypeOK, UnmovedIsPending, history
  <2>2. text[q] \in Text /\ text[q] # Gone
    BY <2>1 DEF Changed, Inv, TypeOK
  <2>3. idx'[q] # NoNode /\ idx'[q].text = text[q]
    BY <1>5, <2>1, <2>2, IndexedType DEF Changed
  <2> QED
    BY <1>2, <2>1, <2>2, <2>3 DEF Changed
<1> QED
  BY <1>4, <1>6 DEF Inv

LEMMA BootstrapStep ==
  ASSUME Inv, NEW s \in Session, NEW w \in Work, NEW t \in Text,
         Bootstrap(s, w, t)
  PROVE  Inv'
<1> DEFINE d == Bootstrapped(sess[s], w)
<1>1. ReqsOf[w] \in SUBSET Req
  BY WorkAssumption
<1>2. d \in SessionData
  <2>1. sess[s] \in SessionData
    BY DEF Inv, TypeOK
  <2>2. SetRequirements(SetWork(sess[s], w), ReqsOf[w]) \in SessionData
    BY <1>1, <2>1 DEF SessionData, SetWork, SetRequirements
  <2> QED
    BY <2>2 DEF Bootstrapped, SessionData, ClearBootstrap, ClearSpecUpdate
<1>3. text' \in [Req -> Text \cup {Gone}]
  BY DEF Bootstrap, Inv, TypeOK
<1>4. \A q \in Req : FullIndex(text')[q] \in {NoNode} \cup Node
  BY <1>3, RemovedType, IndexedType DEF Inv, TypeOK, FullIndex
<1>5. idx' \in [Req -> {NoNode} \cup Node]
  BY <1>4 DEF Bootstrap, FullIndex
<1>6. sess' = [sess EXCEPT ![s] = d]
  BY DEF Bootstrap
<1>7. TypeOK'
  <2> HIDE DEF d
  <2> QED
    BY <1>1, <1>2, <1>3, <1>5, <1>6 DEF Bootstrap, Inv, TypeOK
<1>8. UnmovedIsPending'
  <2> SUFFICES ASSUME NEW z \in Session, NEW q \in asked'[z] \ moved'[z]
               PROVE  (q \in sess[z].spec /\ idx[q] # NoNode /\ ~Changed(q))'
    BY DEF UnmovedIsPending
  <2>1. z # s /\ q \in asked[z] \ moved[z] /\ q \notin ReqsOf[w] /\ q \in Req
    BY DEF Bootstrap, Inv, TypeOK
  <2>2. q \in sess[z].spec /\ idx[q] # NoNode /\ ~Changed(q)
    BY <2>1 DEF Inv, UnmovedIsPending
  <2>3. sess'[z] = sess[z] /\ text'[q] = text[q]
    BY <2>1 DEF Bootstrap, Inv, TypeOK
  <2>4. text[q] \in Text /\ text[q] # Gone
    BY <2>1, <2>2 DEF Changed, Inv, TypeOK
  <2>5. idx'[q] = Indexed(text[q])
    BY <2>1, <2>3, <2>4 DEF Bootstrap, FullIndex
  <2> QED
    BY <2>2, <2>3, <2>4, <2>5, IndexedType DEF Changed
<1> QED
  BY <1>7, <1>8 DEF Inv

-----------------------------------------------------------------------------
LEMMA InvNext == Inv /\ [Next]_vars => Inv'
<1> SUFFICES ASSUME Inv, [Next]_vars PROVE Inv'
  OBVIOUS
<1>1. ASSUME NEW s \in Session, End(s) PROVE Inv'
  BY <1>1, BlankType, ForgetSteps DEF End
<1>2. ASSUME NEW s \in Session, NEW W \in AtMostOne(Work), NEW R \in SUBSET Req,
             DeclareMaintenance(s, W, R)
      PROVE  Inv'
  <2>1. Named(sess[s], W, R) \in SessionData
    BY NamedType DEF Inv, TypeOK
  <2>2. ClearSpecUpdate(ClearBootstrap(Named(sess[s], W, R))) \in SessionData
    BY <2>1 DEF ClearSpecUpdate, ClearBootstrap, SessionData
  <2> QED
    BY <1>2, <2>2, ForgetSteps DEF DeclareMaintenance
<1>3. ASSUME NEW s \in Session, Agent(s) PROVE Inv'
  <2>1. CASE \E W \in AtMostOne(Work), R \in AtMostOne(Req) :
               PromptIds(s, W, R)
    BY <2>1, PromptSteps
  <2>2. CASE PromptNew(s)
    <3>1. {} \in AtMostOne(Work) /\ {} \in AtMostOne(Req)
      BY DEF AtMostOne
    <3> QED
      BY <2>2, <3>1, PromptSteps
  <2>3. CASE \E w \in Work :
               \/ Activate(s, w)
               \/ \E R \in AtMostOne(Req) : Begin(s, w, R)
               \/ \E t \in Text : Bootstrap(s, w, t)
               \/ IntakeFails(s, w)
    <3>1. {} \in AtMostOne(Req)
      BY DEF AtMostOne
    <3> QED
      BY <2>3, <3>1, ActivationSteps, BootstrapStep
  <2>4. CASE \E W \in AtMostOne(Work), R \in SUBSET Req :
               \/ DeclareChange(s, W, R)
               \/ DeclareFeature(s, W, R)
               \/ DeclareMaintenance(s, W, R)
    BY <1>2, <2>4, ChangeStep, FeatureStep
  <2>5. CASE \E F \in File, t \in Text \cup {Gone}, untraced \in BOOLEAN :
               Submit(s, F, t, untraced)
    BY <2>5, ToolSteps
  <2>6. CASE Fail(s) \/ PostEdit(s)
    <3>1. Code \in File /\ Gone \in Text \cup {Gone} /\ TRUE \in BOOLEAN
      BY DEF File
    <3> QED
      BY <2>6, <3>1, ToolSteps
  <2> QED
    BY <1>1, <1>3, <2>1, <2>2, <2>3, <2>4, <2>5, <2>6, ExecuteStep DEF Agent
<1>4. ASSUME NEW r \in Req, NEW t \in Text \cup {Gone}, UserEdit(r, t)
      PROVE  Inv'
  <2>1. tool' \in [Session -> Tool]
    BY <1>4 DEF UserEdit, Inv, TypeOK
  <2> QED
    BY <1>4, <2>1, SayStep DEF UserEdit
<1>5. CASE UNCHANGED vars
  BY <1>5 DEF vars, Inv, TypeOK, UnmovedIsPending, Changed
<1> QED
  BY <1>3, <1>4, <1>5, IndexSteps DEF Next

(* Every variable of the intake gate keeps its type.                       *)
THEOREM TypeCorrect == Spec => []TypeOK
BY TextInit, InvNext, PTL DEF Spec, Inv

(* A contract declared changed is released by a change of its text or by a *)
(* reclassification, and by nothing else.                                  *)
THEOREM UnmovedStaysPending == Spec => []UnmovedIsPending
BY TextInit, InvNext, PTL DEF Spec, Inv

(* Code is let through only when every contract the session declared       *)
(* changed has been changed.                                               *)
THEOREM SpecBeforeImplementation == Spec => ImplementationFollowsSpec
<1>1. ASSUME Inv, [Next]_vars, NEW s \in Session, tool[s] = Idle,
             tool'[s] # Idle, tool'[s].file = Code
      PROVE  asked[s] \subseteq moved[s]
  <2>1. tool \in [Session -> Tool] /\ sess \in [Session -> SessionData]
    BY <1>1 DEF Inv, TypeOK
  <2>2. ASSUME NEW z \in Session, Agent(z)
        PROVE  \E F \in File, t \in Text \cup {Gone}, untraced \in BOOLEAN :
                 z = s /\ Submit(s, F, t, untraced)
    <3>1. CASE \E F \in File, t \in Text \cup {Gone}, untraced \in BOOLEAN :
                 Submit(z, F, t, untraced)
      BY <1>1, <2>1, <3>1 DEF Submit
    <3>2. CASE Execute(z) \/ Fail(z) \/ PostEdit(z)
      BY <1>1, <2>1, <3>2 DEF Execute, Fail, PostEdit, Idle
    <3>3. CASE UNCHANGED tool
      BY <1>1, <3>3
    <3> QED
      BY <2>2, <3>1, <3>2, <3>3
         DEF Agent, PromptIds, PromptNew, Activate, Begin, Bootstrap, End,
             DeclareChange, DeclareFeature, DeclareMaintenance, IntakeFails, Update
  <2>3. PICK F \in File, t \in Text \cup {Gone}, untraced \in BOOLEAN :
          Submit(s, F, t, untraced)
    BY <1>1, <2>2 DEF Next, UserEdit, IndexAll, IndexChanged, vars
  <2>4. F = Code /\ Admits(Reconciled(sess[s]), F)
    BY <1>1, <2>1, <2>3 DEF Submit, Passes
  <2>5. Reconciled(sess[s]).spec = {}
    BY <2>4 DEF Admits, Code, Doc
  <2>6. \A r \in sess[s].spec : Changed(r)
    BY <1>1, <2>1, <2>5, ReconciledType DEF Inv
  <2> QED
    BY <1>1, <2>6 DEF Inv, UnmovedIsPending
<1>2. Inv /\ [Next]_vars =>
        [ \A s \in Session :
            /\ tool[s] = Idle /\ tool'[s] # Idle /\ tool'[s].file = Code
            => asked[s] \subseteq moved[s] ]_vars
  BY <1>1
<1> QED
  BY <1>2, TextInit, InvNext, PTL DEF Spec, Inv, ImplementationFollowsSpec
=============================================================================
