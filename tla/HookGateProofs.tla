--------------------------- MODULE HookGateProofs ---------------------------
(* Proofs about the hooks (HookGate.tla), for any sessions, boundaries,    *)
(* calls, shell commands, caps and policies.                               *)
EXTENDS HookGate, TLAPS

-----------------------------------------------------------------------------
(* Sessions, trees and hooks keep their types.                             *)

LEMMA BlankType == Blank \in SessionData
BY DEF Blank, SessionData, OblState

LEMMA OblType ==
  ASSUME NEW d \in SessionData, NEW B \in SUBSET Boundary
  PROVE  /\ AddObligations(d, B) \in SessionData
         /\ ResolveObligations(d, B) \in SessionData
BY SMTT(60) DEF AddObligations, ResolveObligations, SessionData, OblState

LEMMA DataType ==
  ASSUME NEW d \in SessionData
  PROVE  /\ \A b \in Boundary : LoadContext(d, b) \in SessionData
         /\ \A b \in Boundary : BlockEdit(d, b) \in SessionData
         /\ \A w \in Work, R \in SUBSET Req :
              [SetWork(d, w) EXCEPT !.reqs = @ \cup R] \in SessionData
BY DEF LoadContext, BlockEdit, SetWork, SessionData

LEMMA SettleType == ASSUME NEW d \in SessionData PROVE Settle(d) \in SessionData
BY OblType DEF Settle, Pending

LEMMA GoneItem == Gone \in Item /\ \A i \in Item : Indexed(i) \in Item
BY DEF Item, Gone, Indexed

LEMMA OverlayType ==
  ASSUME NEW t \in Tree, NEW p \in Path, NEW B, NEW text \in [Boundary -> Item]
  PROVE  Overlay(t, p, B, text) \in Tree
BY DEF Overlay, Tree

LEMMA ProposedType ==
  ASSUME NEW t \in Tree, NEW c \in Calls
  PROVE  Proposed(t, c) \in Tree
BY OverlayType DEF Proposed, Calls

LEMMA ApplyType ==
  ASSUME tree \in Tree, NEW e \in Effects
  PROVE  Apply(e) \in Tree
<1>1. CASE e.kind = "write"
  BY <1>1, OverlayType DEF Apply, Effects
<1>2. CASE e.kind # "write"
  BY <1>2, GoneItem DEF Apply, Tree
<1> QED
  BY <1>1, <1>2

LEMMA ReindexType ==
  ASSUME idx \in [Boundary -> Item], tree \in Tree, NEW P
  PROVE  Reindex(P) \in [Boundary -> Item]
BY GoneItem DEF Reindex, Tree

(* A boundary that is untraced is in the text of the call, unless the call *)
(* cannot be rewritten.                                                    *)
LEMMA RewriteType ==
  ASSUME tree \in Tree, NEW c \in Call, NEW d, CanRewrite(c, d, Untraced(c))
  PROVE  Rewrite(c, Untraced(c)) \in Calls
<1>1. c \in Calls /\ c.hunk \subseteq In(c.path)
  BY InputAssumption
<1>2. ASSUME NEW b \in Untraced(c) PROVE c.text[b].ver \in 1 .. MaxVer
  <2>1. b \in Boundary /\ b \in In(c.path) /\ Present(Proposed(tree, c), b)
    BY DEF Untraced, In
  <2>2. b \in Scope(c)
    BY <1>1, <2>1, <1>2 DEF CanRewrite, Scope, Calls
  <2>3. Proposed(tree, c).item[b] = c.text[b]
    BY <2>1, <2>2 DEF Proposed, Overlay
  <2>4. c.text[b] \in Item /\ c.text[b].ver > 0
    BY <1>1, <2>1, <2>3 DEF Present, Calls
  <2> QED
    BY <2>4 DEF Item, Gone
<1>3. ASSUME NEW b \in Boundary
      PROVE  (IF b \in Untraced(c) THEN [c.text[b] EXCEPT !.acc = b] ELSE c.text[b]) \in Item
  <2>1. c.text[b] \in Item
    BY <1>1 DEF Calls
  <2>2. CASE b \in Untraced(c)
    BY <1>2, <2>1, <2>2 DEF Item, Acc, Gone
  <2> QED
    BY <2>1, <2>2
<1> QED
  BY <1>1, <1>3 DEF Rewrite, Calls

(* The hooks that wait with a verdict or an approval are the only ones to  *)
(* notice that a file has changed.                                         *)
Waiting == {"approved", "verified", "allowed", "closing"}

LEMMA HookParts ==
  ASSUME NEW h \in Hook
  PROVE  /\ h.phase = "approved" =>
              h.call \in Calls /\ h.old \in [Boundary -> Item] /\ h.fresh \in BOOLEAN
         /\ h.phase = "edited" => h.path \in Path
         /\ h.phase = "stopping" => h.pend \in SUBSET Boundary
         /\ h.phase = "verified" =>
              h.pend \in SUBSET Boundary /\ h.blocking \in BOOLEAN /\ h.fresh \in BOOLEAN
         /\ h.phase = "allowed" => h.fresh \in BOOLEAN
         /\ h.phase = "finishing" =>
              /\ h.sid \in Session /\ h.work \in Work \cup {NoWork}
              /\ h.pend \in SUBSET Boundary
         /\ h.phase = "closing" =>
              /\ h.sid \in Session /\ h.work \in Work \cup {NoWork}
              /\ h.blocking \in BOOLEAN /\ h.fresh \in BOOLEAN
BY DEF Hook, Idle

LEMMA StaleIs ==
  ASSUME NEW h \in Hook
  PROVE  /\ Stale(h) \in Hook
         /\ Stale(h) = IF h.phase \in Waiting THEN [h EXCEPT !.fresh = FALSE] ELSE h
<1>1. CASE h \in [phase : {"approved"}, call : Calls, old : [Boundary -> Item],
                  fresh : BOOLEAN]
  BY <1>1 DEF Hook, Stale, Waiting
<1>2. CASE h \in [phase : {"verified"}, pend : SUBSET Boundary, blocking : BOOLEAN,
                  fresh : BOOLEAN]
  BY <1>2 DEF Hook, Stale, Waiting
<1>3. CASE h \in [phase : {"allowed"}, fresh : BOOLEAN]
  BY <1>3 DEF Hook, Stale, Waiting
<1>4. CASE h \in [phase : {"closing"}, sid : Session, work : Work \cup {NoWork},
                  blocking : BOOLEAN, fresh : BOOLEAN]
  BY <1>4 DEF Hook, Stale, Waiting
<1>5. CASE h = Idle
  BY <1>5 DEF Hook, Stale, Waiting, Idle
<1>6. CASE h \in [phase : {"edited"}, path : Path]
  BY <1>6 DEF Hook, Stale, Waiting
<1>7. CASE h \in [phase : {"shell"}]
  BY <1>7 DEF Hook, Stale, Waiting
<1>8. CASE h \in [phase : {"stopping"}, pend : SUBSET Boundary]
  BY <1>8 DEF Hook, Stale, Waiting
<1>9. CASE h \in [phase : {"finishing"}, sid : Session, work : Work \cup {NoWork},
                  pend : SUBSET Boundary]
  BY <1>9 DEF Hook, Stale, Waiting
<1> QED
  BY <1>1, <1>2, <1>3, <1>4, <1>5, <1>6, <1>7, <1>8, <1>9 DEF Hook

LEMMA HooksType ==
  ASSUME hook \in [Session -> Hook], NEW s \in Session, NEW h \in Hook
  PROVE  /\ [hook EXCEPT ![s] = h] \in [Session -> Hook]
         /\ [z \in Session |-> IF z = s THEN h ELSE Stale(hook[z])] \in [Session -> Hook]
BY StaleIs

LEMMA IdleHook == Idle \in Hook
BY DEF Hook

-----------------------------------------------------------------------------
(* Type correctness.                                                       *)

LEMMA TypeInit == Init => TypeOK
<1> SUFFICES ASSUME Init PROVE TypeOK
  OBVIOUS
<1>1. tree \in Tree
  BY InputAssumption DEF Init
<1>2. idx \in [Boundary -> Item]
  BY <1>1, GoneItem DEF Init, Tree
<1> QED
  BY <1>1, <1>2, BlankType, IdleHook, CapAssumption DEF Init, TypeOK

LEMMA TypeApprove ==
  ASSUME TypeOK, NEW s \in Session, NEW c \in Calls, Approve(s, c)
  PROVE  hook' \in [Session -> Hook]
<1> DEFINE old == [b \in Boundary |-> IF b \in c.hunk THEN tree.item[b] ELSE Gone]
<1> DEFINE h == [phase |-> "approved", call |-> c, fresh |-> TRUE, old |-> old]
<1>1. old \in [Boundary -> Item]
  BY GoneItem DEF TypeOK, Tree
<1> HIDE DEF old
<1>2. h \in Hook
  BY <1>1 DEF Hook
<1>3. hook' = [hook EXCEPT ![s] = h]
  BY DEF Approve, old
<1> HIDE DEF h
<1> QED
  BY <1>2, <1>3, HooksType DEF TypeOK

LEMMA TypeEdits ==
  ASSUME TypeOK, NEW s \in Session, NEW c \in Call,
         Author(s, c) \/ Allow(s, c) \/ \E n \in Boundary : BlockContext(s, c, n)
  PROVE  TypeOK'
<1>0. c \in Calls
  BY InputAssumption
<1>1. UNCHANGED <<files, store, tasks>>
  BY DEF Author, Allow, BlockContext
<1> USE DEF files, store, tasks
<1>2. CASE Author(s, c)
  <2>1. PICK L \in Capped(Untraced(c), ListCap) :
          sess' = [sess EXCEPT ![s] = AddObligations(@, L)]
    BY <1>2 DEF Author
  <2>2. L \in SUBSET Boundary
    BY DEF Capped, Untraced, In
  <2>3. AddObligations(sess[s], L) \in SessionData
    BY <2>2, OblType DEF TypeOK
  <2>4. sess' \in [Session -> SessionData]
    BY <1>2, <2>1, <2>3 DEF Author, TypeOK
  <2>5. hook' \in [Session -> Hook]
    <3>1. CASE CanRewrite(c, sess[s], Untraced(c))
      <4>1. Rewrite(c, Untraced(c)) \in Calls
        BY <3>1, RewriteType DEF TypeOK
      <4> QED
        BY <1>2, <3>1, <4>1, TypeApprove DEF Author
    <3>2. CASE ~CanRewrite(c, sess[s], Untraced(c))
      BY <1>2, <3>2 DEF Author, TypeOK
    <3> QED
      BY <3>1, <3>2
  <2> QED
    BY <1>1, <2>4, <2>5 DEF TypeOK
<1>3. CASE Allow(s, c)
  <2>1. hook' \in [Session -> Hook]
    BY <1>0, <1>3, TypeApprove DEF Allow
  <2> QED
    BY <1>1, <1>3, <2>1 DEF Allow, TypeOK
<1>4. ASSUME NEW n \in Boundary, BlockContext(s, c, n) PROVE TypeOK'
  <2>1. BlockEdit(sess[s], n) \in SessionData
    BY DataType DEF TypeOK
  <2> QED
    BY <1>1, <1>4, <2>1 DEF BlockContext, TypeOK
<1> QED
  BY <1>2, <1>3, <1>4

LEMMA TypeTools ==
  ASSUME TypeOK, NEW s \in Session,
         \/ Execute(s) \/ Fail(s) \/ Lost(s)
         \/ \E e \in Shell : RunShell(s, e)
  PROVE  TypeOK'
<1>1. CASE Execute(s)
  <2> DEFINE h == [phase |-> "edited", path |-> hook[s].call.path]
  <2>1. hook[s].call \in Calls
    BY <1>1, HookParts DEF Execute, TypeOK
  <2>2. h \in Hook
    BY <2>1 DEF Hook, Calls
  <2>3. hook' = [z \in Session |-> IF z = s THEN h ELSE Stale(hook[z])]
    BY <1>1 DEF Execute, Disturb
  <2> HIDE DEF h
  <2>4. hook' \in [Session -> Hook]
    BY <2>2, <2>3, HooksType DEF TypeOK
  <2>5. tree' \in Tree
    BY <1>1, <2>1, ProposedType DEF Execute, TypeOK
  <2> QED
    BY <1>1, <2>4, <2>5 DEF Execute, TypeOK, store, tasks
<1>2. CASE Fail(s) \/ Lost(s)
  <2>1. hook' \in [Session -> Hook]
    BY <1>2, HooksType, IdleHook DEF Fail, Lost, TypeOK
  <2> QED
    BY <1>2, <2>1 DEF Fail, Lost, TypeOK, files, store, tasks
<1>3. ASSUME NEW e \in Shell, RunShell(s, e) PROVE TypeOK'
  <2> DEFINE h == [phase |-> "shell"]
  <2>1. h \in Hook
    BY DEF Hook
  <2>2. hook' = [z \in Session |-> IF z = s THEN h ELSE Stale(hook[z])]
    BY <1>3 DEF RunShell, Disturb
  <2> HIDE DEF h
  <2>3. hook' \in [Session -> Hook]
    BY <2>1, <2>2, HooksType DEF TypeOK
  <2>4. tree' \in Tree
    BY <1>3, ApplyType, InputAssumption DEF RunShell, TypeOK
  <2> QED
    BY <1>3, <2>3, <2>4 DEF RunShell, TypeOK, store, tasks
<1> QED
  BY <1>1, <1>2, <1>3

LEMMA TypePost ==
  ASSUME TypeOK, NEW s \in Session, PostHook(s)
  PROVE  TypeOK'
<1>1. hook' \in [Session -> Hook]
  BY HooksType, IdleHook DEF PostHook, PostEdit, PostShell, TypeOK
<1>2. CASE PostEdit(s)
  <2>1. hook[s].path \in Path
    BY <1>2, HookParts DEF PostEdit, TypeOK
  <2>2. sess[s].work \in Work \cup {NoWork}
    BY DEF TypeOK, SessionData
  <2>3. Receipts(sess[s], hook[s].path) \subseteq Receipt
    BY <2>1, <2>2 DEF Receipts, Receipt, TypeOK
  <2>4. Settle(sess[s]) \in SessionData
    BY SettleType DEF TypeOK
  <2> QED
    BY <1>1, <1>2, <2>3, <2>4 DEF PostEdit, TypeOK, files, store
<1>3. CASE PostShell(s)
  <2>1. PICK F : sess' = [sess EXCEPT ![s] = AddObligations(Settle(@), Scanned(F))]
    BY <1>3 DEF PostShell
  <2>2. Scanned(F) \in SUBSET Boundary
    BY DEF Scanned
  <2>3. AddObligations(Settle(sess[s]), Scanned(F)) \in SessionData
    BY <2>2, SettleType, OblType DEF TypeOK
  <2> QED
    BY <1>1, <1>3, <2>1, <2>3 DEF PostShell, TypeOK, files, store, tasks
<1> QED
  BY <1>2, <1>3 DEF PostHook

LEMMA TypeOthers ==
  ASSUME TypeOK,
         \/ \E e \in UserEdit : UserChange(e)
         \/ Commit \/ IndexAll \/ IndexChanged
  PROVE  TypeOK'
<1>1. ASSUME NEW e \in UserEdit, UserChange(e) PROVE TypeOK'
  <2>1. hook' \in [Session -> Hook]
    BY <1>1, StaleIs DEF UserChange, TypeOK
  <2>2. tree' \in Tree
    BY <1>1, ApplyType, InputAssumption DEF UserChange, TypeOK
  <2> QED
    BY <1>1, <2>1, <2>2 DEF UserChange, TypeOK, store, tasks
<1>2. CASE Commit
  <2>1. hook' \in [Session -> Hook]
    BY <1>2, StaleIs DEF Commit, TypeOK
  <2>2. base' \in Tree /\ commits' \in 0 .. MaxCommits
    BY <1>2, CapAssumption DEF Commit, TypeOK
  <2> QED
    BY <1>2, <2>1, <2>2 DEF Commit, TypeOK, store, tasks
<1>3. CASE IndexAll \/ IndexChanged
  <2>1. idx' \in [Boundary -> Item]
    BY <1>3, ReindexType DEF IndexAll, IndexChanged, TypeOK
  <2>2. idxRev' \in 0 .. MaxCommits
    BY <1>3 DEF IndexAll, IndexChanged, TypeOK
  <2> QED
    BY <1>3, <2>1, <2>2 DEF IndexAll, IndexChanged, TypeOK, files, tasks
<1> QED
  BY <1>1, <1>2, <1>3

LEMMA TypeVerify ==
  ASSUME TypeOK, NEW aux, Refresh(aux)
  PROVE  idx' \in [Boundary -> Item] /\ idxRev' \in 0 .. MaxCommits
BY ReindexType DEF Refresh, VerifyIndex, TypeOK

LEMMA VerdictType ==
  \A aux : \A other \in BOOLEAN : Verdict(aux, other) \in BOOLEAN
BY DEF Verdict, Blocks, TL012, TL013

LEMMA TypeFinish ==
  ASSUME TypeOK, NEW s \in Session, NEW sid \in Session, FinishFrom(s, sid)
  PROVE  TypeOK'
<1> DEFINE h == [phase |-> "finishing", sid |-> sid, work |-> sess[sid].work,
                 pend |-> Pending(Settle(sess[sid]))]
<1>1. sess[sid] \in SessionData /\ Settle(sess[sid]) \in SessionData
  BY SettleType DEF TypeOK
<1>2. h \in Hook
  BY <1>1 DEF Hook, Pending, SessionData
<1>3. hook' = [hook EXCEPT ![s] = h]
  BY DEF FinishFrom
<1> HIDE DEF h
<1>4. hook' \in [Session -> Hook]
  BY <1>2, <1>3, HooksType DEF TypeOK
<1> QED
  BY <1>1, <1>4 DEF FinishFrom, TypeOK, files, store, tasks

LEMMA TypeStop ==
  ASSUME TypeOK, NEW s \in Session, StopBegin(s) \/ StopHook(s)
  PROVE  TypeOK'
<1>1. CASE StopBegin(s)
  <2>1. [phase |-> "stopping", pend |-> Pending(sess[s])] \in Hook
    BY DEF Hook, Pending
  <2>2. hook' \in [Session -> Hook]
    BY <1>1, <2>1, HooksType DEF StopBegin, TypeOK
  <2> QED
    BY <1>1, <2>2 DEF StopBegin, TypeOK, files, store, tasks
<1>2. CASE StopVerify(s)
  <2>1. PICK aux \in AuxDirty, other \in OtherRules :
          /\ Refresh(aux)
          /\ hook' = [hook EXCEPT ![s] =
               [phase |-> "verified", pend |-> hook[s].pend,
                blocking |-> Verdict(aux, other), fresh |-> TRUE]]
    BY <1>2 DEF StopVerify
  <2>2. Verdict(aux, other) \in BOOLEAN
    BY VerdictType, SwitchAssumption
  <2>3. hook[s].pend \in SUBSET Boundary
    BY <1>2, HookParts DEF StopVerify, TypeOK
  <2>4. [phase |-> "verified", pend |-> hook[s].pend,
         blocking |-> Verdict(aux, other), fresh |-> TRUE] \in Hook
    BY <2>2, <2>3 DEF Hook
  <2>5. hook' \in [Session -> Hook]
    BY <2>1, <2>4, HooksType DEF TypeOK
  <2> QED
    BY <1>2, <2>1, <2>5, TypeVerify DEF StopVerify, TypeOK, files, tasks
<1>3. CASE StopDecide(s)
  <2> DEFINE d == IF Reconciles(hook[s]) THEN Settle(sess[s]) ELSE sess[s]
  <2> DEFINE h == [phase |-> "allowed", fresh |-> hook[s].fresh]
  <2>1. d \in SessionData
    BY SettleType DEF TypeOK
  <2>2. h \in Hook
    BY <1>3, HookParts DEF StopDecide, TypeOK, Hook
  <2>3. sess' = [sess EXCEPT ![s] = d]
    BY <1>3 DEF StopDecide
  <2>4. hook' = [hook EXCEPT ![s] = Idle] \/ hook' = [hook EXCEPT ![s] = h]
    BY <1>3 DEF StopDecide
  <2> HIDE DEF d, h
  <2>5. hook' \in [Session -> Hook]
    BY <2>2, <2>4, HooksType, IdleHook DEF TypeOK
  <2> QED
    BY <1>3, <2>1, <2>3, <2>5 DEF StopDecide, TypeOK, files, store, tasks
<1>4. CASE Conclude(s)
  <2>1. hook' \in [Session -> Hook]
    BY <1>4, HooksType, IdleHook DEF Conclude, TypeOK
  <2> QED
    BY <1>4, <2>1 DEF Conclude, TypeOK, files, store, tasks
<1>5. CASE AutoFinish(s)
  BY <1>5, TypeFinish DEF AutoFinish
<1>6. CASE FinishVerify(s)
  <2>1. PICK aux \in AuxDirty, other \in OtherRules :
          /\ Refresh(aux)
          /\ hook' = [hook EXCEPT ![s] =
               [phase |-> "closing", sid |-> hook[s].sid, work |-> hook[s].work,
                blocking |-> Verdict(aux, other) \/ hook[s].pend # {},
                fresh |-> TRUE]]
    BY <1>6 DEF FinishVerify
  <2> DEFINE bl == Verdict(aux, other) \/ hook[s].pend # {}
  <2>2. bl \in BOOLEAN
    BY VerdictType, SwitchAssumption
  <2>3. hook[s].sid \in Session /\ hook[s].work \in Work \cup {NoWork}
    BY <1>6, HookParts DEF FinishVerify, TypeOK
  <2> HIDE DEF bl
  <2>4. [phase |-> "closing", sid |-> hook[s].sid, work |-> hook[s].work,
         blocking |-> bl, fresh |-> TRUE] \in Hook
    BY <2>2, <2>3 DEF Hook
  <2>5. hook' \in [Session -> Hook]
    BY <2>1, <2>4, HooksType DEF TypeOK, bl
  <2> QED
    BY <1>6, <2>1, <2>5, TypeVerify DEF FinishVerify, TypeOK, files, tasks
<1>7. CASE FinishClose(s)
  <2>1. hook[s].sid \in Session /\ hook[s].work \in Work \cup {NoWork}
    BY <1>7, HookParts DEF FinishClose, TypeOK
  <2>2. Bound(receipts, hook[s].work) \in SUBSET Receipt
    BY DEF Bound, Receipt, TypeOK
  <2>3. done' \in SUBSET Work /\ receipts' \in SUBSET Receipt
    BY <1>7, <2>1, <2>2 DEF FinishClose, TypeOK, tasks
  <2>4. sess' \in [Session -> SessionData]
    BY <1>7, <2>1, BlankType DEF FinishClose, TypeOK, tasks
  <2>5. hook' \in [Session -> Hook]
    BY <1>7, HooksType, IdleHook DEF FinishClose, TypeOK
  <2> QED
    BY <1>7, <2>3, <2>4, <2>5 DEF FinishClose, TypeOK, files, store
<1> QED
  BY <1>1, <1>2, <1>3, <1>4, <1>5, <1>6, <1>7 DEF StopHook

LEMMA TypeCommand ==
  ASSUME TypeOK, NEW s \in Session,
         \/ FinishTask(s) \/ EndTask(s) \/ ShowTask(s)
         \/ \E w \in Work, R \in SUBSET Req : BeginTask(s, w, R)
         \/ \E b \in Boundary : Confirm(s, b) \/ ShowContext(s, b)
  PROVE  TypeOK'
<1>0. CliSession[s] \in Session
  BY InputAssumption
<1>1. ASSUME NEW name, NEW d \in SessionData, Command(s, name, d)
      PROVE  TypeOK'
  BY <1>0, <1>1 DEF Command, TypeOK, files, store, tasks
<1>2. sess[CliSession[s]] \in SessionData
  BY <1>0 DEF TypeOK
<1>3. CASE FinishTask(s)
  BY <1>0, <1>3, TypeFinish DEF FinishTask
<1>4. CASE EndTask(s)
  BY <1>0, <1>1, <1>4, BlankType DEF EndTask, TypeOK
<1>5. CASE ShowTask(s)
  BY <1>1, <1>2, <1>5, SettleType DEF ShowTask, TypeOK
<1>6. ASSUME NEW w \in Work, NEW R \in SUBSET Req, BeginTask(s, w, R) PROVE TypeOK'
  <2>1. [SetWork(sess[CliSession[s]], w) EXCEPT !.reqs = @ \cup R] \in SessionData
    BY <1>2, DataType
  <2> QED
    BY <1>1, <1>6, <2>1 DEF BeginTask, TypeOK
<1>7. ASSUME NEW b \in Boundary, Confirm(s, b) PROVE TypeOK'
  BY <1>1, <1>2, <1>7, OblType DEF Confirm, TypeOK
<1>8. ASSUME NEW b \in Boundary, ShowContext(s, b) PROVE TypeOK'
  BY <1>1, <1>2, <1>8, DataType DEF ShowContext, TypeOK
<1> QED
  BY <1>3, <1>4, <1>5, <1>6, <1>7, <1>8

LEMMA TypeNext == TypeOK /\ [Next]_vars => TypeOK'
<1> SUFFICES ASSUME TypeOK, [Next]_vars PROVE TypeOK'
  OBVIOUS
<1>1. ASSUME NEW s \in Session, Agent(s) \/ PostHook(s) \/ StopHook(s) \/ Lost(s)
      PROVE  TypeOK'
  BY <1>1, TypeEdits, TypeTools, TypePost, TypeStop, TypeCommand DEF Agent
<1>2. CASE UNCHANGED vars
  BY <1>2 DEF vars, files, store, tasks, TypeOK
<1> QED
  BY <1>1, <1>2, TypeOthers DEF Next

(* Files, index, sessions, hooks and records keep their types.             *)
THEOREM TypeCorrect == Spec => []TypeOK
BY TypeInit, TypeNext, PTL DEF Spec

-----------------------------------------------------------------------------
(* What a step does to the hooks.                                          *)

LEMMA StaleKeeps ==
  ASSUME NEW h \in Hook
  PROVE  /\ Stale(h).phase = h.phase
         /\ h.phase \in Waiting => Stale(h).fresh = FALSE
         /\ h.phase \in {"stopping", "verified", "finishing"} => Stale(h).pend = h.pend
         /\ h.phase \in {"finishing", "closing"} => Stale(h).sid = h.sid
         /\ h.phase \in {"verified", "closing"} => Stale(h).blocking = h.blocking
<1>1. CASE h \in [phase : {"approved"}, call : Calls, old : [Boundary -> Item],
                  fresh : BOOLEAN]
  BY <1>1, StaleIs DEF Waiting
<1>2. CASE h \in [phase : {"verified"}, pend : SUBSET Boundary, blocking : BOOLEAN,
                  fresh : BOOLEAN]
  BY <1>2, StaleIs DEF Waiting
<1>3. CASE h \in [phase : {"allowed"}, fresh : BOOLEAN]
  BY <1>3, StaleIs DEF Waiting
<1>4. CASE h \in [phase : {"closing"}, sid : Session, work : Work \cup {NoWork},
                  blocking : BOOLEAN, fresh : BOOLEAN]
  BY <1>4, StaleIs DEF Waiting
<1>5. CASE h.phase \notin Waiting
  BY <1>5, StaleIs DEF Waiting
<1>6. \/ h.phase \notin Waiting
      \/ h \in [phase : {"approved"}, call : Calls, old : [Boundary -> Item],
                fresh : BOOLEAN]
      \/ h \in [phase : {"verified"}, pend : SUBSET Boundary, blocking : BOOLEAN,
                fresh : BOOLEAN]
      \/ h \in [phase : {"allowed"}, fresh : BOOLEAN]
      \/ h \in [phase : {"closing"}, sid : Session, work : Work \cup {NoWork},
                blocking : BOOLEAN, fresh : BOOLEAN]
  BY DEF Hook, Idle, Waiting
<1> QED
  BY <1>1, <1>2, <1>3, <1>4, <1>5, <1>6

(* Once a file or HEAD has changed no hook is fresh but one that says so   *)
(* itself.                                                                 *)
FileStep ==
  \/ \E s \in Session : Execute(s) \/ \E e \in Shell : RunShell(s, e)
  \/ \E e \in UserEdit : UserChange(e)
  \/ Commit

LEMMA NobodyIsFresh ==
  ASSUME TypeOK, FileStep, NEW z \in Session
  PROVE  /\ hook'[z].phase \in Waiting => hook'[z].fresh = FALSE
         /\ hook'[z] = Stale(hook[z]) \/ hook'[z].phase \in {"edited", "shell"}
<1>1. ASSUME NEW s \in Session, NEW h, Disturb(s, h), h.phase \in {"edited", "shell"}
      PROVE  /\ hook'[z].phase \in Waiting => hook'[z].fresh = FALSE
             /\ hook'[z] = Stale(hook[z]) \/ hook'[z].phase \in {"edited", "shell"}
  <2>1. CASE z = s
    BY <1>1, <2>1 DEF Disturb, Waiting
  <2>2. CASE z # s
    BY <1>1, <2>2, StaleKeeps DEF Disturb, TypeOK
  <2> QED
    BY <2>1, <2>2
<1>2. ASSUME NEW s \in Session, Execute(s) \/ \E e \in Shell : RunShell(s, e)
      PROVE  /\ hook'[z].phase \in Waiting => hook'[z].fresh = FALSE
             /\ hook'[z] = Stale(hook[z]) \/ hook'[z].phase \in {"edited", "shell"}
  BY <1>1, <1>2 DEF Execute, RunShell
<1>3. CASE Commit \/ \E e \in UserEdit : UserChange(e)
  <2>1. hook'[z] = Stale(hook[z])
    BY <1>3 DEF Commit, UserChange
  <2>2. hook[z] \in Hook
    BY DEF TypeOK
  <2> QED
    BY <2>1, <2>2, StaleKeeps
<1> QED
  BY <1>2, <1>3 DEF FileStep

(* Every other step leaves the files alone and concerns one hook at most.  *)
LEMMA QuietStep ==
  ASSUME TypeOK, [Next]_vars, ~FileStep
  PROVE  /\ UNCHANGED <<tree, head, base, commits>>
         /\ \/ hook' = hook
            \/ \E s \in Session, h \in Hook : hook' = [hook EXCEPT ![s] = h]
<1> USE DEF files
<1>1. ASSUME NEW s \in Session, hook' = [hook EXCEPT ![s] = hook'[s]]
      PROVE  \E z \in Session, h \in Hook : hook' = [hook EXCEPT ![z] = h]
  BY <1>1, TypeNext DEF TypeOK
<1>2. ASSUME NEW s \in Session, NEW c \in Call,
             Author(s, c) \/ Allow(s, c) \/ \E n \in Boundary : BlockContext(s, c, n)
      PROVE  /\ UNCHANGED files
             /\ hook' = hook \/ hook' = [hook EXCEPT ![s] = hook'[s]]
  <2>1. hook' = hook \/ \E d : Approve(s, d)
    BY <1>2 DEF Author, Allow, BlockContext
  <2>2. ASSUME NEW d, Approve(s, d) PROVE hook' = [hook EXCEPT ![s] = hook'[s]]
    BY <2>2 DEF Approve, TypeOK
  <2>3. UNCHANGED files
    BY <1>2 DEF Author, Allow, BlockContext
  <2> QED
    BY <2>1, <2>2, <2>3
<1>3. ASSUME NEW s \in Session, Fail(s) \/ Lost(s) \/ PostHook(s) \/ StopBegin(s)
      PROVE  UNCHANGED files /\ hook' = [hook EXCEPT ![s] = hook'[s]]
  BY <1>3 DEF Fail, Lost, PostHook, PostEdit, PostShell, StopBegin, TypeOK
<1>4. ASSUME NEW s \in Session, StopHook(s) \/ FinishTask(s)
      PROVE  UNCHANGED files /\ hook' = [hook EXCEPT ![s] = hook'[s]]
  <2>1. CASE StopVerify(s)
    BY <2>1 DEF StopVerify, TypeOK
  <2>2. CASE StopDecide(s)
    BY <2>2 DEF StopDecide, TypeOK
  <2>3. CASE Conclude(s) \/ AutoFinish(s) \/ FinishTask(s)
    BY <2>3 DEF Conclude, AutoFinish, FinishTask, FinishFrom, TypeOK
  <2>4. CASE FinishVerify(s)
    BY <2>4 DEF FinishVerify, TypeOK
  <2>5. CASE FinishClose(s)
    BY <2>5 DEF FinishClose, TypeOK
  <2> QED
    BY <1>4, <2>1, <2>2, <2>3, <2>4, <2>5 DEF StopHook
<1>5. ASSUME NEW s \in Session,
             \/ EndTask(s) \/ ShowTask(s)
             \/ \E w \in Work, R \in SUBSET Req : BeginTask(s, w, R)
             \/ \E b \in Boundary : Confirm(s, b) \/ ShowContext(s, b)
      PROVE  UNCHANGED files /\ hook' = hook
  BY <1>5 DEF EndTask, ShowTask, BeginTask, Confirm, ShowContext, Command
<1>6. CASE IndexAll \/ IndexChanged \/ UNCHANGED vars
  BY <1>6 DEF IndexAll, IndexChanged, vars
<1> QED
  BY <1>1, <1>2, <1>3, <1>4, <1>5, <1>6 DEF Next, Agent, FileStep

-----------------------------------------------------------------------------
(* A verdict in a session's favour.                                        *)

Now == [b \in Boundary |-> Indexed(tree.item[b])]

(* All that a change touches is indexed as it is, and accounted for.       *)
Claim ==
  /\ \A b \in Boundary : PathOf[b] \in DiffPaths(tree, head) => idx[b] = Now[b]
  /\ ~TL013(tree, Now, head, DiffPaths(tree, head))

Favoured(h) == Passed(h) /\ h.fresh
Founded == (\E s \in Session : Favoured(hook[s])) => Claim

(* The rule looks at the index of the changed files only.                  *)
LEMMA RuleIsLocal ==
  ASSUME NEW ix, NEW iy, NEW P,
         \A b \in Boundary : PathOf[b] \in P => ix[b] = iy[b],
         TL013(tree, ix, head, P)
  PROVE  TL013(tree, iy, head, P)
<1>1. PICK b \in Boundary : /\ PathOf[b] \in P
                            /\ Present(tree, b)
                            /\ ~Same(tree, head, b)
                            /\ ~Traced(tree, ix, b)
  BY DEF TL013
<1>2. ActiveIn(ix, PathOf[b]) = ActiveIn(iy, PathOf[b])
  BY <1>1 DEF ActiveIn, In
<1>3. ~Traced(tree, iy, b)
  BY <1>1, <1>2 DEF Traced, Inherits
<1> QED
  BY <1>1, <1>3 DEF TL013

LEMMA ClaimMeansSound == Claim => ~TL013(tree, idx, head, DiffPaths(tree, head))
BY RuleIsLocal DEF Claim

(* A verification establishes the claim, and no index takes it back.       *)
LEMMA VerifyEstablishes ==
  ASSUME TypeOK, UNCHANGED <<tree, head>>, NEW aux \in AuxDirty, NEW other,
         Refresh(aux), ~Verdict(aux, other)
  PROVE  Claim'
<1> DEFINE D == DiffPaths(tree, head)
<1>1. D \subseteq ChangedPaths(aux)
  BY DEF ChangedPaths
<1>2. D \subseteq Path
  BY DEF DiffPaths
<1>3. \A b \in Boundary : PathOf[b] \in D => idx'[b] = Now[b]
  BY <1>1, <1>2 DEF Refresh, VerifyIndex, Reindex, Now
<1>4. ~TL013(tree, idx', head, ChangedPaths(aux))
  BY DEF Refresh, Verdict, Blocks
<1>5. ~TL013(tree, idx', head, D)
  BY <1>1, <1>4 DEF TL013
<1>6. ~TL013(tree, Now, head, D)
  BY <1>3, <1>5, RuleIsLocal
<1>7. Now' = Now /\ DiffPaths(tree, head)' = D
  BY DEF Now
<1>8. TL013(tree, Now, head, D)' <=> TL013(tree, Now, head, D)
  BY <1>7
<1> QED
  BY <1>3, <1>6, <1>7, <1>8 DEF Claim

LEMMA IndexSteps ==
  ASSUME [Next]_vars PROVE idx' = idx \/ \E P : idx' = Reindex(P)
<1> USE DEF store
<1>1. ASSUME NEW s \in Session, StopHook(s) PROVE idx' = idx \/ \E P : idx' = Reindex(P)
  BY <1>1
     DEF StopHook, StopVerify, StopDecide, Conclude, AutoFinish, FinishVerify,
         FinishClose, FinishFrom, Refresh, VerifyIndex
<1>2. ASSUME NEW s \in Session, NEW c \in Call,
             Author(s, c) \/ Allow(s, c) \/ \E n \in Boundary : BlockContext(s, c, n)
      PROVE  idx' = idx
  BY <1>2 DEF Author, Allow, BlockContext
<1>3. ASSUME NEW s \in Session,
             \/ Execute(s) \/ Fail(s) \/ Lost(s) \/ PostHook(s) \/ StopBegin(s)
             \/ FinishTask(s)
             \/ \E e \in Shell : RunShell(s, e)
      PROVE  idx' = idx
  BY <1>3
     DEF Execute, Fail, Lost, PostHook, PostEdit, PostShell, StopBegin, FinishTask,
         FinishFrom, RunShell
<1>4. ASSUME NEW s \in Session,
             \/ EndTask(s) \/ ShowTask(s)
             \/ \E w \in Work, R \in SUBSET Req : BeginTask(s, w, R)
             \/ \E b \in Boundary : Confirm(s, b) \/ ShowContext(s, b)
      PROVE  idx' = idx
  BY <1>4 DEF EndTask, ShowTask, BeginTask, Confirm, ShowContext, Command
<1>5. CASE \/ Commit \/ \E e \in UserEdit : UserChange(e)
           \/ UNCHANGED vars
  BY <1>5 DEF Commit, UserChange, vars
<1>6. CASE IndexAll \/ IndexChanged
  BY <1>6 DEF IndexAll, IndexChanged
<1> QED
  BY <1>1, <1>2, <1>3, <1>4, <1>5, <1>6 DEF Next, Agent

LEMMA ClaimStays ==
  ASSUME Claim, UNCHANGED <<tree, head>>, idx' = idx \/ \E P : idx' = Reindex(P)
  PROVE  Claim'
<1>1. \A b \in Boundary : idx'[b] \in {idx[b], Now[b]}
  BY DEF Reindex, Now
<1>2. Now' = Now /\ DiffPaths(tree, head)' = DiffPaths(tree, head)
  BY DEF Now
<1>3. TL013(tree, Now, head, DiffPaths(tree, head))'
        <=> TL013(tree, Now, head, DiffPaths(tree, head))
  BY <1>2
<1> QED
  BY <1>1, <1>2, <1>3 DEF Claim

LEMMA FavouredFrom ==
  ASSUME TypeOK, [Next]_vars, ~FileStep, NEW z \in Session, Favoured(hook'[z])
  PROVE  \/ Favoured(hook[z])
         \/ \E aux \in AuxDirty, other \in OtherRules :
              Refresh(aux) /\ ~Verdict(aux, other)
<1>1. CASE hook'[z] = hook[z]
  BY <1>1
<1> SUFFICES ASSUME hook'[z] # hook[z]
             PROVE  \/ Favoured(hook[z])
                    \/ \E aux \in AuxDirty, other \in OtherRules :
                         Refresh(aux) /\ ~Verdict(aux, other)
  BY <1>1
<1>2. ASSUME NEW s \in Session, NEW h, hook' = [hook EXCEPT ![s] = h]
      PROVE  s = z /\ hook'[z] = h /\ Favoured(h)
  BY <1>2 DEF TypeOK
<1> USE DEF Favoured, Passed
<1>3. ASSUME NEW s \in Session, NEW c \in Call,
             Author(s, c) \/ Allow(s, c) \/ \E n \in Boundary : BlockContext(s, c, n)
      PROVE  FALSE
  <2>1. \E d : Approve(s, d)
    BY <1>3 DEF Author, Allow, BlockContext
  <2> QED
    BY <1>2, <2>1 DEF Approve
<1>4. ASSUME NEW s \in Session,
             \/ Fail(s) \/ Lost(s) \/ PostHook(s) \/ StopBegin(s) \/ FinishTask(s)
             \/ Conclude(s) \/ AutoFinish(s) \/ FinishClose(s)
      PROVE  FALSE
  <2>1. PICK h : /\ hook' = [hook EXCEPT ![s] = h]
                 /\ h.phase \in {"idle", "stopping", "finishing"}
    <3>1. Idle.phase = "idle"
      BY DEF Idle
    <3> HIDE DEF Idle
    <3> QED
      BY <1>4, <3>1
         DEF Fail, Lost, PostHook, PostEdit, PostShell, StopBegin, FinishTask,
             FinishFrom, Conclude, AutoFinish, FinishClose
  <2> QED
    BY <1>2, <2>1
<1>5. ASSUME NEW s \in Session,
             \/ EndTask(s) \/ ShowTask(s)
             \/ \E w \in Work, R \in SUBSET Req : BeginTask(s, w, R)
             \/ \E b \in Boundary : Confirm(s, b) \/ ShowContext(s, b)
      PROVE  FALSE
  BY <1>5 DEF EndTask, ShowTask, BeginTask, Confirm, ShowContext, Command
<1>6. CASE IndexAll \/ IndexChanged \/ UNCHANGED vars
  BY <1>6 DEF IndexAll, IndexChanged, vars
<1>7. ASSUME NEW s \in Session, StopVerify(s)
      PROVE  \E aux \in AuxDirty, other \in OtherRules :
               Refresh(aux) /\ ~Verdict(aux, other)
  <2>1. PICK aux \in AuxDirty, other \in OtherRules :
          /\ Refresh(aux)
          /\ hook' = [hook EXCEPT ![s] =
               [phase |-> "verified", pend |-> hook[s].pend,
                blocking |-> Verdict(aux, other), fresh |-> TRUE]]
    BY <1>7 DEF StopVerify
  <2> DEFINE v == Verdict(aux, other)
  <2> HIDE DEF v
  <2>2. Favoured([phase |-> "verified", pend |-> hook[s].pend,
                  blocking |-> v, fresh |-> TRUE])
    BY <1>2, <2>1 DEF v
  <2>3. ~v
    BY <2>2
  <2> QED
    BY <2>1, <2>3 DEF v
<1>8. ASSUME NEW s \in Session, FinishVerify(s)
      PROVE  \E aux \in AuxDirty, other \in OtherRules :
               Refresh(aux) /\ ~Verdict(aux, other)
  <2>1. PICK aux \in AuxDirty, other \in OtherRules :
          /\ Refresh(aux)
          /\ hook' = [hook EXCEPT ![s] =
               [phase |-> "closing", sid |-> hook[s].sid, work |-> hook[s].work,
                blocking |-> Verdict(aux, other) \/ hook[s].pend # {},
                fresh |-> TRUE]]
    BY <1>8 DEF FinishVerify
  <2> DEFINE v == Verdict(aux, other) \/ hook[s].pend # {}
  <2> HIDE DEF v
  <2>2. Favoured([phase |-> "closing", sid |-> hook[s].sid, work |-> hook[s].work,
                  blocking |-> v, fresh |-> TRUE])
    BY <1>2, <2>1 DEF v
  <2>3. ~v
    BY <2>2
  <2> QED
    BY <2>1, <2>3 DEF v
<1>9. ASSUME NEW s \in Session, StopDecide(s) PROVE Favoured(hook[z])
  <2> DEFINE p == IF Reconciles(hook[s])
                  THEN Pending(Settle(sess[s])) ELSE hook[s].pend
  <2> DEFINE h == [phase |-> "allowed", fresh |-> hook[s].fresh]
  <2>1. /\ hook[s].phase = "verified"
        /\ hook' = [hook EXCEPT ![s] =
             IF hook[s].blocking \/ p # {} THEN Idle ELSE h]
    BY <1>9 DEF StopDecide
  <2>2. ~Favoured(Idle)
    BY DEF Idle
  <2> HIDE DEF p
  <2>3. ~hook[s].blocking /\ s = z /\ Favoured(h)
    BY <1>2, <2>1, <2>2
  <2> QED
    BY <2>1, <2>3
<1> QED
  BY <1>3, <1>4, <1>5, <1>6, <1>7, <1>8, <1>9 DEF Next, Agent, StopHook, FileStep

LEMMA FoundedNext == TypeOK /\ Founded /\ [Next]_vars => Founded'
<1> SUFFICES ASSUME TypeOK, Founded, [Next]_vars, NEW z \in Session, Favoured(hook'[z])
             PROVE  Claim'
  BY DEF Founded
<1>1. ~FileStep
  BY NobodyIsFresh DEF Favoured, Passed, Waiting
<1>2. UNCHANGED <<tree, head>>
  BY <1>1, QuietStep
<1>3. CASE Favoured(hook[z])
  BY <1>2, <1>3, IndexSteps, ClaimStays DEF Founded
<1>4. CASE ~Favoured(hook[z])
  BY <1>1, <1>2, <1>4, FavouredFrom, VerifyEstablishes
<1> QED
  BY <1>3, <1>4

LEMMA FoundedInit == Init => Founded
BY DEF Init, Founded, Favoured, Passed, Idle

(* A verdict that lets a session stop, or closes its work, is right as     *)
(* long as no file has changed: whatever the others do and however often   *)
(* the index is rebuilt, no boundary changed since HEAD is unaccounted for.*)
THEOREM VerdictSound == Spec => []VerdictIsSound
<1>1. Founded => VerdictIsSound
  BY ClaimMeansSound DEF Founded, Favoured, VerdictIsSound
<1>2. Spec => []Founded
  BY TypeInit, TypeNext, FoundedInit, FoundedNext, PTL DEF Spec
<1> QED
  BY <1>1, <1>2, PTL

-----------------------------------------------------------------------------
(* What a session owes, when the commands of every agent reach the         *)
(* session of its hooks (TRACE_SESSION is set).                            *)
OwnSessions == \A s \in Session : CliSession[s] = s

(* What a stop or a finish under way has read is still all there is to     *)
(* owe, since the agent itself waits for the answer.                       *)
OwesAtMost(h, d, s) ==
  /\ h.phase \in {"stopping", "verified"} => Pending(d) \subseteq h.pend
  /\ h.phase = "allowed" => Pending(d) = {}
  /\ h.phase = "finishing" => h.sid = s /\ Pending(d) \subseteq h.pend
  /\ h.phase = "closing" => h.sid = s /\ (~h.blocking => Pending(d) = {})

Owed == \A s \in Session : OwesAtMost(hook[s], sess[s], s)

LEMMA StaleOwes ==
  ASSUME NEW h \in Hook, NEW d, NEW s, OwesAtMost(h, d, s)
  PROVE  OwesAtMost(Stale(h), d, s)
BY StaleKeeps DEF OwesAtMost

(* A step of one agent changes no other agent's session.                   *)
LEMMA OwnStep ==
  ASSUME TypeOK, OwnSessions, Owed, NEW s \in Session,
         Agent(s) \/ PostHook(s) \/ StopHook(s) \/ Lost(s)
  PROVE  \A z \in Session \ {s} :
           /\ sess'[z] = sess[z]
           /\ hook'[z] \in {hook[z], Stale(hook[z])}
<1> SUFFICES ASSUME NEW z \in Session \ {s}
             PROVE  /\ sess'[z] = sess[z]
                    /\ hook'[z] \in {hook[z], Stale(hook[z])}
  OBVIOUS
<1> USE DEF files, store, tasks
<1>1. ASSUME NEW c \in Call,
             Author(s, c) \/ Allow(s, c) \/ \E n \in Boundary : BlockContext(s, c, n)
      PROVE  /\ sess'[z] = sess[z]
             /\ hook'[z] \in {hook[z], Stale(hook[z])}
  <2>1. hook' = hook \/ \E d : Approve(s, d)
    BY <1>1 DEF Author, Allow, BlockContext
  <2>2. hook'[z] = hook[z]
    BY <2>1 DEF Approve, TypeOK
  <2>3. sess'[z] = sess[z]
    BY <1>1 DEF Author, Allow, BlockContext, TypeOK
  <2> QED
    BY <2>2, <2>3
<1>2. CASE Execute(s) \/ \E e \in Shell : RunShell(s, e)
  BY <1>2 DEF Execute, RunShell, Disturb
<1>3. CASE Fail(s) \/ Lost(s) \/ PostHook(s) \/ StopBegin(s)
  BY <1>3 DEF Fail, Lost, PostHook, PostEdit, PostShell, StopBegin, TypeOK
<1>4. CASE FinishTask(s)
  BY <1>4 DEF FinishTask, FinishFrom, OwnSessions, TypeOK
<1>5. CASE \/ EndTask(s) \/ ShowTask(s)
           \/ \E w \in Work, R \in SUBSET Req : BeginTask(s, w, R)
           \/ \E b \in Boundary : Confirm(s, b) \/ ShowContext(s, b)
  BY <1>5
     DEF EndTask, ShowTask, BeginTask, Confirm, ShowContext, Command, OwnSessions,
         TypeOK
<1>6. CASE StopVerify(s) \/ FinishVerify(s)
  BY <1>6 DEF StopVerify, FinishVerify, TypeOK
<1>7. CASE StopDecide(s)
  BY <1>7 DEF StopDecide, TypeOK
<1>8. CASE Conclude(s) \/ AutoFinish(s)
  BY <1>8 DEF Conclude, AutoFinish, FinishFrom, TypeOK
<1>9. CASE FinishClose(s)
  <2>1. hook[s].sid = s
    BY <1>9 DEF FinishClose, Owed, OwesAtMost
  <2> QED
    BY <1>9, <2>1 DEF FinishClose, TypeOK
<1> QED
  BY <1>1, <1>2, <1>3, <1>4, <1>5, <1>6, <1>7, <1>8, <1>9 DEF Agent, StopHook

LEMMA OwedHere ==
  ASSUME TypeOK, OwnSessions, Owed, NEW s \in Session,
         Agent(s) \/ PostHook(s) \/ StopHook(s) \/ Lost(s)
  PROVE  OwesAtMost(hook'[s], sess'[s], s)
<1>0. sess[s] \in SessionData /\ OwesAtMost(hook[s], sess[s], s)
  BY DEF TypeOK, Owed
<1>1. ASSUME NEW h, hook'[s] = h,
             h.phase \in {"idle", "approved", "edited", "shell"}
      PROVE  OwesAtMost(hook'[s], sess'[s], s)
  BY <1>1 DEF OwesAtMost
<1>2. ASSUME NEW c \in Call,
             Author(s, c) \/ Allow(s, c) \/ \E n \in Boundary : BlockContext(s, c, n)
      PROVE  OwesAtMost(hook'[s], sess'[s], s)
  <2>1. (hook' = hook /\ hook[s] = Idle) \/ \E d : Approve(s, d)
    BY <1>2 DEF Author, Allow, BlockContext
  <2> QED
    BY <1>1, <2>1 DEF Approve, TypeOK, Idle
<1>3. CASE Execute(s) \/ \E e \in Shell : RunShell(s, e)
  BY <1>1, <1>3 DEF Execute, RunShell, Disturb
<1>4. CASE Fail(s) \/ Lost(s) \/ PostHook(s) \/ Conclude(s) \/ FinishClose(s)
  <2>1. hook'[s] = Idle
    BY <1>4
       DEF Fail, Lost, PostHook, PostEdit, PostShell, Conclude, FinishClose, TypeOK
  <2> QED
    BY <1>1, <2>1 DEF Idle
<1>5. CASE \/ EndTask(s) \/ ShowTask(s)
           \/ \E w \in Work, R \in SUBSET Req : BeginTask(s, w, R)
           \/ \E b \in Boundary : Confirm(s, b) \/ ShowContext(s, b)
  <2>1. hook'[s] = Idle
    BY <1>5 DEF EndTask, ShowTask, BeginTask, Confirm, ShowContext, Command
  <2> QED
    BY <1>1, <2>1 DEF Idle
<1>6. CASE StopBegin(s)
  <2>1. hook'[s] = [phase |-> "stopping", pend |-> Pending(sess[s])]
        /\ sess' = sess
    BY <1>6 DEF StopBegin, TypeOK
  <2> QED
    BY <2>1 DEF OwesAtMost
<1>7. CASE StopVerify(s)
  <2>1. PICK v : hook'[s] = [phase |-> "verified", pend |-> hook[s].pend,
                             blocking |-> v, fresh |-> TRUE]
    BY <1>7 DEF StopVerify, TypeOK
  <2>2. sess' = sess /\ Pending(sess[s]) \subseteq hook[s].pend
    BY <1>0, <1>7 DEF StopVerify, OwesAtMost
  <2> QED
    BY <2>1, <2>2 DEF OwesAtMost
<1>8. CASE StopDecide(s)
  <2> DEFINE d == IF Reconciles(hook[s]) THEN Settle(sess[s]) ELSE sess[s]
  <2> DEFINE p == IF Reconciles(hook[s]) THEN Pending(d) ELSE hook[s].pend
  <2>1. sess'[s] = d
    BY <1>8 DEF StopDecide, TypeOK
  <2>2. \/ hook'[s] = Idle
        \/ hook'[s] = [phase |-> "allowed", fresh |-> hook[s].fresh] /\ p = {}
    BY <1>8 DEF StopDecide, TypeOK
  <2>3. Pending(d) \subseteq p
    BY <1>0, <1>8 DEF StopDecide, OwesAtMost
  <2> HIDE DEF d, p
  <2> QED
    BY <1>1, <2>1, <2>2, <2>3 DEF OwesAtMost, Idle
<1>9. CASE AutoFinish(s) \/ FinishTask(s)
  <2>1. FinishFrom(s, s)
    BY <1>9 DEF AutoFinish, FinishTask, OwnSessions
  <2>2. /\ hook'[s] = [phase |-> "finishing", sid |-> s, work |-> sess[s].work,
                       pend |-> Pending(Settle(sess[s]))]
        /\ sess'[s] = Settle(sess[s])
    BY <2>1 DEF FinishFrom, TypeOK
  <2> QED
    BY <2>2 DEF OwesAtMost
<1>10. CASE FinishVerify(s)
  <2>1. PICK v : /\ hook'[s] = [phase |-> "closing", sid |-> hook[s].sid,
                                work |-> hook[s].work, blocking |-> v, fresh |-> TRUE]
                 /\ hook[s].pend # {} => v
    BY <1>10 DEF FinishVerify, TypeOK
  <2>2. sess' = sess /\ hook[s].sid = s /\ Pending(sess[s]) \subseteq hook[s].pend
    BY <1>0, <1>10 DEF FinishVerify, OwesAtMost
  <2> QED
    BY <2>1, <2>2 DEF OwesAtMost
<1> QED
  BY <1>2, <1>3, <1>4, <1>5, <1>6, <1>7, <1>8, <1>9, <1>10 DEF Agent, StopHook

LEMMA OtherStep ==
  ASSUME [Next]_vars,
         ~\E s \in Session : Agent(s) \/ PostHook(s) \/ StopHook(s) \/ Lost(s),
         NEW z \in Session
  PROVE  /\ sess' = sess
         /\ hook'[z] \in {hook[z], Stale(hook[z])}
BY DEF Next, UserChange, Commit, IndexAll, IndexChanged, vars

LEMMA OwedNext ==
  OwnSessions /\ TypeOK /\ Owed /\ [Next]_vars => Owed'
<1> SUFFICES ASSUME OwnSessions, TypeOK, Owed, [Next]_vars, NEW z \in Session
             PROVE  OwesAtMost(hook'[z], sess'[z], z)
  BY DEF Owed
<1>1. OwesAtMost(hook[z], sess[z], z)
      /\ hook[z] \in Hook
  BY DEF Owed, TypeOK
<1>2. ASSUME sess'[z] = sess[z],
             hook'[z] \in {hook[z], Stale(hook[z])}
      PROVE  OwesAtMost(hook'[z], sess'[z], z)
  BY <1>1, <1>2, StaleOwes
<1>3. ASSUME NEW s \in Session, Agent(s) \/ PostHook(s) \/ StopHook(s) \/ Lost(s)
      PROVE  OwesAtMost(hook'[z], sess'[z], z)
  BY <1>2, <1>3, OwnStep, OwedHere
<1> QED
  BY <1>2, <1>3, OtherStep

LEMMA OwedInit == Init => Owed
BY DEF Init, Owed, OwesAtMost, Idle, Blank

LEMMA OwedAlways ==
  ASSUME OwnSessions PROVE Spec => [](TypeOK /\ Owed)
<1>1. TypeOK /\ Owed /\ [Next]_vars => (TypeOK /\ Owed)'
  BY TypeNext, OwedNext
<1>2. Init => TypeOK /\ Owed
  BY TypeInit, OwedInit
<1> QED
  BY <1>1, <1>2, PTL DEF Spec

(* Where every agent's commands reach its own session, a session is let go *)
(* and its work closed only when it owes nothing.                          *)
THEOREM OwesNothing == ASSUME OwnSessions PROVE Spec => []NothingOwed
<1>1. Owed => NothingOwed
  BY DEF Owed, OwesAtMost, NothingOwed
<1> QED
  BY <1>1, OwedAlways, PTL

-----------------------------------------------------------------------------
(* How an obligation ends.                                                 *)

LEMMA KeptPending ==
  ASSUME NEW d \in SessionData, NEW b \in Pending(d)
  PROVE  /\ \A B : b \in Pending(AddObligations(d, B))
         /\ \A B : b \notin B => b \in Pending(ResolveObligations(d, B))
         /\ b \notin Pending(Settle(d)) => Settled(tree, base, b)
         /\ \A B : b \notin Pending(AddObligations(Settle(d), B)) => Settled(tree, base, b)
         /\ \A n : b \in Pending(LoadContext(d, n)) /\ b \in Pending(BlockEdit(d, n))
         /\ \A w, R : b \in Pending([SetWork(d, w) EXCEPT !.reqs = @ \cup R])
BY DEF Pending, AddObligations, ResolveObligations, Settle, LoadContext, BlockEdit,
       SetWork, SessionData, OblState

LEMMA PendingStep ==
  ASSUME TypeOK, [Next]_vars, NEW z \in Session, NEW b \in Boundary,
         b \in Pending(sess[z]), b \notin Pending(sess'[z])
  PROVE  \/ Settled(tree, base, b)
         \/ \E s \in Session : CliSession[s] = z /\ Confirm(s, b)
         \/ sess'[z] = Blank
<1>0. sess[z] \in SessionData
  BY DEF TypeOK
<1>1. ASSUME NEW s \in Session, NEW d, sess' = [sess EXCEPT ![s] = d]
      PROVE  s = z /\ sess'[z] = d
  BY <1>1 DEF TypeOK
<1>2. sess' # sess
  OBVIOUS
<1> USE DEF tasks
<1>3. ASSUME NEW s \in Session, NEW c \in Call,
             Author(s, c) \/ Allow(s, c) \/ \E n \in Boundary : BlockContext(s, c, n)
      PROVE  FALSE
  BY <1>0, <1>1, <1>2, <1>3, KeptPending DEF Author, Allow, BlockContext
<1>4. ASSUME NEW s \in Session,
             \/ Execute(s) \/ Fail(s) \/ Lost(s) \/ StopBegin(s)
             \/ StopVerify(s) \/ FinishVerify(s) \/ Conclude(s)
             \/ \E e \in Shell : RunShell(s, e)
      PROVE  FALSE
  BY <1>2, <1>4
     DEF Execute, Fail, Lost, StopBegin, StopVerify, FinishVerify, Conclude, RunShell
<1>5. ASSUME NEW s \in Session, PostHook(s) PROVE Settled(tree, base, b)
  BY <1>0, <1>1, <1>5, KeptPending DEF PostHook, PostEdit, PostShell
<1>6. ASSUME NEW s \in Session, StopDecide(s) PROVE Settled(tree, base, b)
  BY <1>0, <1>1, <1>6, KeptPending DEF StopDecide
<1>7. ASSUME NEW s \in Session, AutoFinish(s) \/ FinishTask(s)
      PROVE  Settled(tree, base, b)
  <2>1. PICK i \in Session : FinishFrom(s, i)
    BY <1>7, InputAssumption DEF AutoFinish, FinishTask
  <2> QED
    BY <1>0, <1>1, <2>1, KeptPending DEF FinishFrom
<1>8. ASSUME NEW s \in Session, FinishClose(s) PROVE sess'[z] = Blank
  <2>1. hook[s].sid \in Session
    BY <1>8, HookParts DEF FinishClose, TypeOK
  <2> QED
    BY <1>1, <1>2, <1>8, <2>1 DEF FinishClose
<1>9. ASSUME NEW s \in Session, NEW name, NEW d, Command(s, name, d)
      PROVE  CliSession[s] = z /\ sess'[z] = d
  BY <1>1, <1>9, InputAssumption DEF Command
<1>10. ASSUME NEW s \in Session, EndTask(s) PROVE sess'[z] = Blank
  BY <1>9, <1>10 DEF EndTask
<1>11. ASSUME NEW s \in Session, ShowTask(s) PROVE Settled(tree, base, b)
  BY <1>0, <1>9, <1>11, KeptPending DEF ShowTask
<1>12. ASSUME NEW s \in Session, NEW w \in Work, NEW R \in SUBSET Req, BeginTask(s, w, R)
       PROVE  FALSE
  <2>1. sess'[z] = [SetWork(sess[z], w) EXCEPT !.reqs = @ \cup R]
    BY <1>9, <1>12 DEF BeginTask
  <2> QED
    BY <1>0, <2>1, KeptPending
<1>13. ASSUME NEW s \in Session, NEW n \in Boundary, ShowContext(s, n) PROVE FALSE
  BY <1>0, <1>9, <1>13, KeptPending DEF ShowContext
<1>14. ASSUME NEW s \in Session, NEW c \in Boundary, Confirm(s, c)
       PROVE  CliSession[s] = z /\ Confirm(s, b)
  <2>1. CliSession[s] = z /\ sess'[z] = ResolveObligations(sess[z], {c})
    BY <1>9, <1>14 DEF Confirm
  <2>2. b \in {c}
    BY <1>0, <2>1, KeptPending
  <2> QED
    BY <1>14, <2>1, <2>2
<1>15. CASE \/ \E e \in UserEdit : UserChange(e)
            \/ Commit \/ IndexAll \/ IndexChanged \/ UNCHANGED vars
  BY <1>2, <1>15 DEF UserChange, Commit, IndexAll, IndexChanged, vars
<1> QED
  BY <1>3, <1>4, <1>5, <1>6, <1>7, <1>8, <1>10, <1>11, <1>12, <1>13, <1>14, <1>15
     DEF Next, Agent, StopHook

(* A pending obligation ends in three ways only: the files show it met,    *)
(* the agent confirms it, or its session is cleared.                       *)
THEOREM PendingStays == Spec => PendingSurvives
<1>1. TypeOK /\ [Next]_vars =>
        \A s \in Session, b \in Boundary :
          b \in Pending(sess[s]) /\ b \notin Pending(sess'[s]) =>
            \/ Settled(tree, base, b)
            \/ \E z \in Session : CliSession[z] = s /\ Confirm(z, b)
            \/ sess'[s] = Blank
  BY PendingStep
<1> QED
  BY <1>1, TypeCorrect, PTL DEF Spec, PendingSurvives

-----------------------------------------------------------------------------
(* What an approved call leaves behind.                                    *)

LEMMA InsideIsTransitive ==
  ASSUME NEW b \in Boundary, NEW d \in Inside[b], NEW e \in Inside[d]
  PROVE  e \in Inside[b]
<1>1. e # b
  BY NestingAssumption DEF Inside
<1>2. ASSUME NEW S \in SUBSET Boundary, b \in S,
             \A x \in Boundary : Parent[x] \in S => x \in S
      PROVE  e \in S
  <2>1. d \in S
    BY <1>2 DEF Inside
  <2> QED
    BY <1>2, <2>1 DEF Inside
<1> QED
  BY <1>1, <1>2 DEF Inside

LEMMA TracedIsAccounted ==
  ASSUME NEW t, NEW ix, NEW b, Traced(t, ix, b)
  PROVE  t.item[b].acc # "none"
BY BoundaryAssumption DEF Traced, Attached, Exempt, Marked, Inherits

Accounts(t, c) ==
  \A b \in In(c.path) :
    Present(Proposed(t, c), b) /\ ~Same(Proposed(t, c), t, b) =>
      Proposed(t, c).item[b].acc # "none"

(* A call without untraced boundaries accounts for what it changes.        *)
LEMMA AllowedAccounts ==
  ASSUME NEW c, Untraced(c) = {}
  PROVE  Accounts(tree, c)
BY TracedIsAccounted DEF Untraced, Accounts

(* So does a rewritten call: a new marker may change the text of the       *)
(* boundaries around it, but these have changed already.                   *)
LEMMA RewrittenAccounts ==
  ASSUME TypeOK, NEW c \in Call, NEW d, CanRewrite(c, d, Untraced(c))
  PROVE  Accounts(tree, Rewrite(c, Untraced(c)))
<1> DEFINE U == Untraced(c)
<1> DEFINE w == Rewrite(c, U)
<1> DEFINE p == Proposed(tree, c)
<1> DEFINE q == Proposed(tree, w)
<1>0. c \in Calls /\ c.hunk \subseteq In(c.path)
  BY InputAssumption
<1>1. w.path = c.path /\ w.kind = c.kind /\ w.hunk = c.hunk
  BY <1>0 DEF Rewrite, Calls
<1>2. \A b \in Boundary :
        w.text[b] = IF b \in U THEN [c.text[b] EXCEPT !.acc = b] ELSE c.text[b]
  BY <1>0 DEF Rewrite, Calls
<1>3. Scope(w) = Scope(c)
  BY <1>1 DEF Scope
<1>4. U \subseteq Scope(c) /\ U \subseteq In(c.path)
  BY <1>0 DEF CanRewrite, Scope, Untraced, Calls
<1>5. \A b \in Boundary :
        /\ p.item[b] = IF b \in Scope(c) THEN c.text[b] ELSE tree.item[b]
        /\ q.item[b] = IF b \in Scope(c) THEN w.text[b] ELSE tree.item[b]
  BY <1>3 DEF Proposed, Overlay
<1>6. \A b \in Boundary \ U : q.item[b] = p.item[b]
  BY <1>2, <1>5
<1>7. \A b \in U : q.item[b].acc = b
  <2>1. ASSUME NEW b \in U PROVE q.item[b].acc = b
    <3>1. b \in Boundary /\ q.item[b] = [c.text[b] EXCEPT !.acc = b]
      BY <1>2, <1>4, <1>5 DEF In
    <3>2. c.text[b] \in Item
      BY <1>0, <3>1 DEF Calls
    <3> QED
      BY <3>1, <3>2 DEF Item, Gone
  <2> QED
    BY <2>1
<1>8. U = {b \in In(c.path) : Present(p, b) /\ ~Same(p, tree, b) /\ ~Traced(p, idx, b)}
  BY DEF Untraced
<1> HIDE DEF U, w, p, q
<1>9. ASSUME NEW b \in Boundary, Same(p, tree, b) PROVE Same(q, tree, b) \/ b \in U
  <2>1. ASSUME NEW e \in Inside[b] PROVE e \notin U
    <3>1. e \in Boundary /\ p.item[e] = tree.item[e]
      BY <1>9, <2>1 DEF Same, Inside
    <3>2. \A x \in Inside[e] : p.item[x] = tree.item[x]
      BY <1>9, <2>1, InsideIsTransitive DEF Same
    <3>3. Same(p, tree, e)
      BY <3>1, <3>2 DEF Same
    <3> QED
      BY <1>8, <3>3
  <2>2. \A e \in Inside[b] : q.item[e] = p.item[e]
    BY <1>6, <2>1 DEF Inside
  <2> QED
    BY <1>6, <1>9, <2>2 DEF Same
<1>10. ASSUME NEW b \in In(c.path), Present(q, b), ~Same(q, tree, b)
       PROVE  q.item[b].acc # "none"
  <2>1. b \in Boundary
    BY DEF In
  <2>2. CASE b \in U
    BY <1>7, <2>1, <2>2, BoundaryAssumption
  <2>3. CASE b \notin U
    <3>1. q.item[b] = p.item[b] /\ Present(p, b)
      BY <1>6, <1>10, <2>1, <2>3 DEF Present
    <3>2. ~Same(p, tree, b)
      BY <1>9, <1>10, <2>1, <2>3
    <3>3. Traced(p, idx, b)
      BY <1>8, <2>3, <3>1, <3>2
    <3> QED
      BY <3>1, <3>3, TracedIsAccounted
  <2> QED
    BY <2>2, <2>3
<1> QED
  BY <1>1, <1>10 DEF Accounts, U, w, q

Approvals ==
  \A s \in Session :
    hook[s].phase = "approved" /\ hook[s].fresh /\ Matches(hook[s]) =>
      Accounts(tree, hook[s].call)

LEMMA ApproveAccounts ==
  ASSUME TypeOK, NEW s \in Session, NEW c, Approve(s, c)
  PROVE  /\ hook'[s].phase = "approved" /\ hook'[s].call = c
         /\ \A z \in Session \ {s} : hook'[z] = hook[z]
BY DEF Approve, TypeOK

(* The hook of a call that was let through just now matches only if it     *)
(* accounts for what it changes.                                           *)
LEMMA ApprovedNow ==
  ASSUME TypeOK, NEW s \in Session, NEW c \in Call, Author(s, c) \/ Allow(s, c),
         NEW z \in Session, hook'[z] # hook[z], Matches(hook[z])'
  PROVE  Accounts(tree, hook'[z].call)
<1>1. CASE Author(s, c)
  <2>1. CanRewrite(c, sess[s], Untraced(c)) /\ Approve(s, Rewrite(c, Untraced(c)))
    BY <1>1 DEF Author
  <2> QED
    BY <2>1, ApproveAccounts, RewrittenAccounts
<1>2. CASE Allow(s, c)
  <2>1. hook'[z].call = c
    BY <1>2, ApproveAccounts DEF Allow
  <2>2. tree' = tree
    BY <1>2 DEF Allow, files
  <2>3. Gated(c)
    BY <2>1, <2>2, InputAssumption DEF Matches, Gated, Calls
  <2>4. Untraced(c) = {}
    BY <1>2, <2>3 DEF Allow, PassesAuthoring
  <2> QED
    BY <2>1, <2>4, AllowedAccounts
<1> QED
  BY <1>1, <1>2

LEMMA ApprovedFrom ==
  ASSUME TypeOK, [Next]_vars, ~FileStep, NEW z \in Session,
         hook'[z].phase = "approved", hook'[z] # hook[z]
  PROVE  \E s \in Session, c \in Call : Author(s, c) \/ Allow(s, c)
<1>1. ASSUME NEW s \in Session, NEW h, hook' = [hook EXCEPT ![s] = h]
      PROVE  h.phase = "approved"
  BY <1>1 DEF TypeOK
<1>2. ASSUME NEW s \in Session,
             \/ Fail(s) \/ Lost(s) \/ PostHook(s) \/ StopBegin(s) \/ FinishTask(s)
             \/ StopHook(s)
      PROVE  FALSE
  <2>1. Idle.phase = "idle"
    BY DEF Idle
  <2> HIDE DEF Idle
  <2>2. CASE \/ Fail(s) \/ Lost(s) \/ PostHook(s) \/ StopBegin(s) \/ FinishTask(s)
             \/ Conclude(s) \/ AutoFinish(s) \/ FinishClose(s)
    BY <1>1, <2>1, <2>2
       DEF Fail, Lost, PostHook, PostEdit, PostShell, StopBegin, FinishTask,
           FinishFrom, Conclude, AutoFinish, FinishClose
  <2>3. CASE StopVerify(s)
    BY <1>1, <2>3 DEF StopVerify
  <2>4. CASE FinishVerify(s)
    BY <1>1, <2>4 DEF FinishVerify
  <2>5. CASE StopDecide(s)
    BY <1>1, <2>1, <2>5 DEF StopDecide
  <2> QED
    BY <1>2, <2>2, <2>3, <2>4, <2>5 DEF StopHook
<1>3. ASSUME NEW s \in Session,
             \/ EndTask(s) \/ ShowTask(s)
             \/ \E w \in Work, R \in SUBSET Req : BeginTask(s, w, R)
             \/ \E b \in Boundary : Confirm(s, b) \/ ShowContext(s, b)
      PROVE  FALSE
  BY <1>3 DEF EndTask, ShowTask, BeginTask, Confirm, ShowContext, Command
<1>4. CASE IndexAll \/ IndexChanged \/ UNCHANGED vars
  BY <1>4 DEF IndexAll, IndexChanged, vars
<1>5. ASSUME NEW s \in Session, NEW c \in Call, NEW n \in Boundary, BlockContext(s, c, n)
      PROVE  FALSE
  BY <1>5 DEF BlockContext
<1> QED
  BY <1>2, <1>3, <1>4, <1>5 DEF Next, Agent, FileStep

LEMMA ApprovalsNext == TypeOK /\ Approvals /\ [Next]_vars => Approvals'
<1> SUFFICES ASSUME TypeOK, Approvals, [Next]_vars, NEW z \in Session,
                    hook'[z].phase = "approved", hook'[z].fresh, Matches(hook[z])'
             PROVE  Accounts(tree', hook'[z].call)
  BY DEF Approvals, Accounts
<1>1. ~FileStep
  BY NobodyIsFresh DEF Waiting
<1>2. tree' = tree
  BY <1>1, QuietStep
<1>3. CASE hook'[z] = hook[z]
  BY <1>2, <1>3 DEF Approvals, Matches
<1>4. CASE hook'[z] # hook[z]
  BY <1>1, <1>2, <1>4, ApprovedFrom, ApprovedNow
<1> QED
  BY <1>3, <1>4

(* Unless a file changed under it, an approved call leaves no boundary it  *)
(* adds or changes without a marker, an exemption or a declaration of      *)
(* inheritance, rewritten calls and boundaries inside others included.     *)
THEOREM EditsAccounted == Spec => EditsAreAccounted
<1>1. Init => Approvals
  BY DEF Init, Approvals, Idle
<1>2. Spec => [](TypeOK /\ Approvals)
  BY <1>1, TypeInit, TypeNext, ApprovalsNext, PTL DEF Spec
<1>3. TypeOK /\ Approvals =>
        \A s \in Session :
          Execute(s) /\ hook[s].fresh =>
            \A b \in In(hook[s].call.path) :
              Present(tree', b) /\ ~Same(tree', tree, b) => tree'.item[b].acc # "none"
  BY DEF Execute, Approvals, Accounts
<1> QED
  BY <1>2, <1>3, PTL DEF EditsAreAccounted
=============================================================================
