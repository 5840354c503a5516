--------------------------- MODULE SessionProofs ---------------------------
(* Proofs about the session file (SessionFile.tla), for any processes,     *)
(* calls, boundaries, requirements and work items.                         *)
EXTENDS SessionFile, TLAPS

(* An accessor turns session content into session content.                 *)
LEMMA EffectType ==
  ASSUME NEW op \in Request, NEW d \in SessionData
  PROVE  Store!Effect(op, d) \in SessionData
<1>1. op \in Store!Op
  BY RequestAssumption
<1>2. CASE op \in [name : Store!NodeOps \cup Store!SetOps, node : Boundary]
  BY <1>2, SMTT(60) DEF Store!NodeOps, Store!SetOps, Store!Effect, SessionData, OblState,
     Store!LoadContext, Store!BlockEdit, Store!MarkDirty,
     Store!AddObligations, Store!ResolveObligations
<1>3. CASE op \in [name : Store!ReqOps, req : Req]
  BY <1>3 DEF Store!ReqOps, Store!Effect, SessionData,
     Store!AddRequirement, Store!SetSpecUpdate, Store!DropSpecUpdate
<1>4. CASE op \in [name : {"setReqs"}, reqs : SUBSET Req]
  BY <1>4 DEF Store!Effect, SessionData, Store!SetRequirements
<1>5. CASE op \in [name : {"setWork"}, work : Work]
  BY <1>5 DEF Store!Effect, SessionData, Store!SetWork
<1>6. CASE op \in [name : Store!PlainOps]
  BY <1>6 DEF Store!PlainOps, Store!Effect, SessionData, OblState,
     Store!SetBootstrap, Store!ClearBootstrap, Store!ClearSpecUpdate,
     Store!Blank
<1> QED
  BY <1>1, <1>2, <1>3, <1>4, <1>5, <1>6 DEF Store!Op

LEMMA BlankType == Blank \in SessionData
BY DEF Blank, SessionData, OblState

LEMMA TypeInit == Init => TypeOK
BY BlankType DEF Init, TypeOK, Idle

LEMMA TypeNext == TypeOK /\ [Next]_vars => TypeOK'
<1> SUFFICES ASSUME TypeOK, [Next]_vars PROVE TypeOK'
  OBVIOUS
<1> USE DEF TypeOK
<1>1. ASSUME NEW p \in Proc, NEW op \in Request, Read(p, op)
      PROVE  TypeOK'
  BY <1>1 DEF Read, Busy
<1>2. ASSUME NEW p \in Proc, Skip(p) PROVE TypeOK'
  BY <1>2 DEF Skip
<1>3. ASSUME NEW p \in Proc, Stage(p) PROVE TypeOK'
  <2>1. proc[p] \in Busy
    BY <1>3 DEF Stage, Idle
  <2>2. Store!Effect(proc[p].op, proc[p].copy) \in SessionData
    BY <2>1, EffectType DEF Busy
  <2>3. proc'[p] \in Busy
    BY <1>3, <2>1, <2>2 DEF Stage, Busy
  <2> QED
    BY <1>3, <2>3 DEF Stage
<1>4. ASSUME NEW p \in Proc, Replace(p) PROVE TypeOK'
  <2>1. proc[p] \in Busy
    BY <1>4 DEF Replace, Idle
  <2>2. file' \in SessionData
    BY <1>4, <2>1 DEF Replace, Busy
  <2>3. ASSUME NEW q \in Proc, Behind(q)
        PROVE  [proc[q] EXCEPT !.stale = TRUE] \in Busy
    BY <2>3 DEF Behind, Busy
  <2>4. proc' \in [Proc -> {Idle} \cup Busy]
    BY <1>4, <2>3 DEF Replace
  <2>5. owed' \in SUBSET Boundary
    <3>1. CASE proc[p].op.name = "oblige"
      <4>1. proc[p].op \in Store!Op
        BY <2>1, RequestAssumption DEF Busy
      <4>2. proc[p].op.node \in Boundary
        BY <3>1, <4>1
           DEF Store!Op, Store!NodeOps, Store!SetOps, Store!ReqOps, Store!PlainOps
      <4> QED
        BY <1>4, <3>1, <4>2 DEF Replace
    <3> QED
      BY <1>4, <3>1 DEF Replace
  <2>6. raced' \in BOOLEAN
    BY <1>4, <2>1 DEF Replace, Busy
  <2> QED
    BY <2>2, <2>4, <2>5, <2>6
<1>5. ASSUME NEW p \in Proc, Kill(p) PROVE TypeOK'
  BY <1>5 DEF Kill
<1>6. CASE UNCHANGED vars
  BY <1>6 DEF vars
<1> QED
  BY <1>1, <1>2, <1>3, <1>4, <1>5, <1>6 DEF Next

(* The file always holds well-formed session content, and a process always *)
(* works on a well-formed copy, however the processes overlap or die.      *)
THEOREM TypeCorrect == Spec => []TypeOK
BY TypeInit, TypeNext, PTL DEF Spec

-----------------------------------------------------------------------------
(* No accessor but clear loses an obligation or takes a satisfied one back. *)
Keeps(d, e, b) ==
  \/ d.obl[b] = "none"
  \/ e.obl[b] = d.obl[b]
  \/ d.obl[b] = "pending" /\ e.obl[b] = "satisfied"

LEMMA EffectKeeps ==
  ASSUME NEW op \in Request, NEW d \in SessionData, NEW b \in Boundary,
         op.name # "clear"
  PROVE  Keeps(d, Store!Effect(op, d), b)
<1>1. op \in Store!Op
  BY RequestAssumption
<1>2. d.obl \in [Boundary -> OblState]
  BY DEF SessionData
<1>3. CASE op \in [name : Store!NodeOps \cup Store!SetOps, node : Boundary]
  BY <1>2, <1>3, SMTT(60)
     DEF Store!NodeOps, Store!SetOps, Store!Effect, OblState, Keeps, SessionData,
         Store!LoadContext, Store!BlockEdit, Store!MarkDirty,
         Store!AddObligations, Store!ResolveObligations
<1>4. CASE op \in [name : Store!ReqOps, req : Req]
  BY <1>4 DEF Store!ReqOps, Store!Effect, SessionData, Keeps,
     Store!AddRequirement, Store!SetSpecUpdate, Store!DropSpecUpdate
<1>5. CASE op \in [name : {"setReqs"}, reqs : SUBSET Req]
  BY <1>5 DEF Store!Effect, SessionData, Keeps, Store!SetRequirements
<1>6. CASE op \in [name : {"setWork"}, work : Work]
  BY <1>6 DEF Store!Effect, SessionData, Keeps, Store!SetWork
<1>7. CASE op \in [name : Store!PlainOps]
  BY <1>7 DEF Store!PlainOps, Store!Effect, SessionData, Keeps,
     Store!SetBootstrap, Store!ClearBootstrap, Store!ClearSpecUpdate
<1> QED
  BY <1>1, <1>3, <1>4, <1>5, <1>6, <1>7 DEF Store!Op

(* A process that no replacement has overtaken holds the current content,  *)
(* or what its accessor makes of it.                                       *)
Fresh ==
  \A p \in Proc :
    proc[p] # Idle /\ ~proc[p].stale =>
      proc[p].copy = IF proc[p].phase = "read" THEN file
                     ELSE Store!Effect(proc[p].op, file)

LEMMA FreshNext == TypeOK /\ Fresh /\ [Next]_vars => Fresh'
<1> SUFFICES ASSUME TypeOK, Fresh, [Next]_vars,
                    NEW q \in Proc, proc'[q] # Idle, ~proc'[q].stale
             PROVE  proc'[q].copy = IF proc'[q].phase = "read" THEN file'
                                    ELSE Store!Effect(proc'[q].op, file')
  BY DEF Fresh
<1> USE DEF TypeOK
<1>1. ASSUME NEW p \in Proc, NEW op \in Request, Read(p, op)
      PROVE  proc'[q].copy = IF proc'[q].phase = "read" THEN file'
                             ELSE Store!Effect(proc'[q].op, file')
  BY <1>1 DEF Read, Fresh
<1>2. ASSUME NEW p \in Proc, Skip(p) \/ Kill(p)
      PROVE  proc'[q].copy = IF proc'[q].phase = "read" THEN file'
                             ELSE Store!Effect(proc'[q].op, file')
  BY <1>2 DEF Skip, Kill, Fresh
<1>3. ASSUME NEW p \in Proc, Stage(p)
      PROVE  proc'[q].copy = IF proc'[q].phase = "read" THEN file'
                             ELSE Store!Effect(proc'[q].op, file')
  BY <1>3 DEF Stage, Fresh, Idle
<1>4. ASSUME NEW p \in Proc, Replace(p) PROVE FALSE
  <2>1. q # p /\ proc[q] # Idle /\ proc'[q] = [proc[q] EXCEPT !.stale = TRUE]
    BY <1>4 DEF Replace, Behind
  <2>2. proc[q] \in Busy
    BY <2>1
  <2> QED
    BY <2>1, <2>2 DEF Busy
<1>5. CASE UNCHANGED vars
  BY <1>5 DEF vars, Fresh
<1> QED
  BY <1>1, <1>2, <1>3, <1>4, <1>5 DEF Next

LEMMA FreshAlways == Spec => []Fresh
<1>1. Init => Fresh
  BY DEF Init, Fresh
<1> QED
  BY <1>1, FreshNext, TypeCorrect, PTL DEF Spec

(* What a step does to the file: nothing, or the replacement by a process  *)
(* that was overtaken, or the effect of one call on the current content.   *)
LEMMA StepEffect ==
  ASSUME TypeOK, Fresh, [Next]_vars
  PROVE  \/ UNCHANGED file
         \/ \E p \in Proc :
              /\ Replace(p)
              /\ proc[p] \in Busy
              /\ proc[p].stale \/ file' = Store!Effect(proc[p].op, file)
<1>1. ASSUME NEW p \in Proc, Replace(p)
      PROVE  /\ proc[p] \in Busy
             /\ proc[p].stale \/ file' = Store!Effect(proc[p].op, file)
  <2>1. proc[p] \in Busy /\ proc[p] # Idle
    BY <1>1 DEF Replace, Idle, TypeOK
  <2> QED
    BY <1>1, <2>1 DEF Replace, Fresh
<1>2. ASSUME NEW p \in Proc, NEW op \in Request,
             Read(p, op) \/ Skip(p) \/ Stage(p) \/ Kill(p)
      PROVE  UNCHANGED file
  BY <1>2 DEF Read, Skip, Stage, Kill
<1> QED
  BY <1>1, <1>2 DEF Next, vars, Skip, Stage, Kill

(* However the processes of a session overlap, an obligation goes missing  *)
(* or comes back only by clear() or by a process that wrote back a copy it *)
(* read before another one's replacement.                                  *)
THEOREM OverlapOnly == Spec => LossNeedsOverlap
<1>1. ASSUME TypeOK, Fresh, [Next]_vars, NEW b \in Boundary
      PROVE  \/ Keeps(file, file', b)
             \/ \E p \in Proc : /\ proc[p].phase = "staged" /\ proc'[p] = Idle
                                /\ proc[p].stale \/ proc[p].op.name = "clear"
  <2>1. CASE UNCHANGED file
    BY <2>1 DEF Keeps
  <2>2. ASSUME NEW p \in Proc, Replace(p), proc[p] \in Busy,
               file' = Store!Effect(proc[p].op, file)
        PROVE  Keeps(file, file', b) \/ proc[p].op.name = "clear"
    BY <1>1, <2>2, EffectKeeps DEF Busy, TypeOK
  <2>3. ASSUME NEW p \in Proc, Replace(p)
        PROVE  proc[p].phase = "staged" /\ proc'[p] = Idle
    BY <1>1, <2>3 DEF Replace, TypeOK
  <2> QED
    BY <1>1, <2>1, <2>2, <2>3, StepEffect
<1>2. TypeOK /\ Fresh /\ [Next]_vars =>
        [ \A b \in Boundary :
            \/ file.obl[b] = "none"
            \/ file'.obl[b] = file.obl[b]
            \/ file.obl[b] = "pending" /\ file'.obl[b] = "satisfied"
            \/ \E p \in Proc : /\ proc[p].phase = "staged" /\ proc'[p] = Idle
                               /\ proc[p].stale \/ proc[p].op.name = "clear" ]_vars
  BY <1>1 DEF Keeps
<1> QED
  BY <1>2, TypeCorrect, FreshAlways, PTL DEF Spec, LossNeedsOverlap

-----------------------------------------------------------------------------
(* The copy a call to clear has staged is the blank one.                   *)
Cleared ==
  \A p \in Proc :
    (proc[p] # Idle /\ proc[p].phase = "staged" /\ proc[p].op.name = "clear") =>
      proc[p].copy = Blank

LEMMA ClearIs ==
  ASSUME NEW op \in Request, NEW d, op.name = "clear"
  PROVE  Store!Effect(op, d) = Blank
BY DEF Store!Effect, Blank, Store!Blank

LEMMA ClearedNext == TypeOK /\ Cleared /\ [Next]_vars => Cleared'
<1> SUFFICES ASSUME TypeOK, Cleared, [Next]_vars, NEW q \in Proc, proc'[q] # Idle,
                    proc'[q].phase = "staged", proc'[q].op.name = "clear"
             PROVE  proc'[q].copy = Blank
  BY DEF Cleared, Blank
<1> USE DEF TypeOK
<1>1. ASSUME NEW p \in Proc, NEW op \in Request, Read(p, op)
      PROVE  proc'[q].copy = Blank
  BY <1>1 DEF Read, Cleared
<1>2. ASSUME NEW p \in Proc, Skip(p) \/ Kill(p) PROVE proc'[q].copy = Blank
  BY <1>2 DEF Skip, Kill, Cleared
<1>3. ASSUME NEW p \in Proc, Stage(p) PROVE proc'[q].copy = Blank
  <2>1. proc[p] \in Busy
    BY <1>3 DEF Stage, Idle
  <2>2. CASE p = q
    BY <1>3, <2>1, <2>2, ClearIs DEF Stage, Busy
  <2>3. CASE p # q
    BY <1>3, <2>3 DEF Stage, Cleared
  <2> QED
    BY <2>2, <2>3
<1>4. ASSUME NEW p \in Proc, Replace(p) PROVE proc'[q].copy = Blank
  <2>1. q # p /\ proc[q] # Idle /\ proc'[q] = [proc[q] EXCEPT !.stale = TRUE]
    BY <1>4 DEF Replace, Behind
  <2>2. proc[q] \in Busy
    BY <2>1
  <2> QED
    BY <2>1, <2>2 DEF Busy, Cleared
<1>5. CASE UNCHANGED vars
  BY <1>5 DEF vars, Cleared
<1> QED
  BY <1>1, <1>2, <1>3, <1>4, <1>5 DEF Next

LEMMA ClearedAlways == Spec => []Cleared
<1>1. Init => Cleared
  BY DEF Init, Cleared
<1> QED
  BY <1>1, ClearedNext, TypeCorrect, PTL DEF Spec

(* Until somebody races, a replacement is the effect of one call.          *)
LEMMA CleanStep ==
  ASSUME TypeOK, Fresh, Cleared, ~raced', [Next]_vars
  PROVE  /\ ~raced
         /\ \/ UNCHANGED <<file, owed>>
            \/ \E p \in Proc : /\ Replace(p)
                               /\ proc[p] \in Busy
                               /\ file' = Store!Effect(proc[p].op, file)
<1>1. ASSUME NEW p \in Proc, Replace(p)
      PROVE  ~raced /\ proc[p] \in Busy /\ file' = Store!Effect(proc[p].op, file)
  <2>1. proc[p] \in Busy /\ proc[p] # Idle
    BY <1>1 DEF Replace, Idle, TypeOK
  <2>2. ~raced /\ (proc[p].stale => proc[p].op.name = "clear")
    BY <1>1 DEF Replace
  <2>3. CASE proc[p].op.name = "clear"
    BY <1>1, <2>1, <2>3, ClearIs DEF Replace, Cleared, Busy
  <2>4. CASE ~proc[p].stale
    BY <1>1, <2>1, <2>4 DEF Replace, Fresh
  <2> QED
    BY <2>1, <2>2, <2>3, <2>4
<1>2. ASSUME NEW p \in Proc, NEW op \in Request,
             Read(p, op) \/ Skip(p) \/ Stage(p) \/ Kill(p)
      PROVE  UNCHANGED <<file, owed, raced>>
  BY <1>2 DEF Read, Skip, Stage, Kill
<1> QED
  BY <1>1, <1>2 DEF Next, vars, Skip, Stage, Kill

(* A session keeps every obligation it reported until it is cleared or     *)
(* somebody writes back a copy that another has replaced.                  *)
THEOREM DurableUntilRaced == Spec => []ObligationsAreDurable
<1>1. Init => ObligationsAreDurable
  BY DEF Init, ObligationsAreDurable
<1>2. TypeOK /\ Fresh /\ Cleared /\ ObligationsAreDurable /\ [Next]_vars
        => ObligationsAreDurable'
  <2> SUFFICES ASSUME TypeOK, Fresh, Cleared, ObligationsAreDurable,
                      [Next]_vars, ~raced', NEW b \in owed'
               PROVE  file'.obl[b] # "none"
    BY DEF ObligationsAreDurable
  <2>1. CASE UNCHANGED <<file, owed>>
    BY <2>1, CleanStep DEF ObligationsAreDurable
  <2>2. ASSUME NEW p \in Proc, Replace(p), proc[p] \in Busy,
               file' = Store!Effect(proc[p].op, file)
        PROVE  file'.obl[b] # "none"
    <3>1. proc[p].op \in Request /\ file \in SessionData /\ owed \subseteq Boundary
      BY <2>2 DEF Busy, TypeOK
    <3>2. CASE proc[p].op.name = "oblige" /\ b = proc[p].op.node
      <4>1. proc[p].op \in Store!Op
        BY <3>1, RequestAssumption
      <4>2. b \in Boundary
        BY <3>2, <4>1
           DEF Store!Op, Store!NodeOps, Store!SetOps, Store!ReqOps, Store!PlainOps
      <4>3. file' = Store!AddObligations(file, {b})
        BY <2>2, <3>2 DEF Store!Effect
      <4> QED
        BY <3>1, <4>2, <4>3 DEF Store!AddObligations, SessionData
    <3>3. CASE proc[p].op.name # "clear" /\ b \in owed
      <4>1. Keeps(file, file', b)
        BY <2>2, <3>1, <3>3, EffectKeeps
      <4> QED
        BY <3>1, <3>3, <4>1, CleanStep DEF Keeps, ObligationsAreDurable
    <3> QED
      BY <2>2, <3>2, <3>3 DEF Replace
  <2> QED
    BY <2>1, <2>2, CleanStep
<1> QED
  BY <1>1, <1>2, TypeCorrect, FreshAlways, ClearedAlways, PTL DEF Spec

(* Until somebody writes back a copy that another has replaced, a session  *)
(* is the atomic store: each step of the processes is one accessor call on *)
(* the stored content, or none.  The race itself is mapped to a clear.     *)
THEOREM Refinement == Spec => ImplementsStore
<1>1. Init => Store!Init
  BY DEF Init, Store!Init, Blank, Store!Blank
<1>2. TypeOK /\ Fresh /\ Cleared /\ [Next]_vars
        => [Store!Next]_(IF raced THEN Blank ELSE file)
  <2> SUFFICES ASSUME TypeOK, Fresh, Cleared, [Next]_vars
               PROVE  [Store!Next]_(IF raced THEN Blank ELSE file)
    OBVIOUS
  <2>1. CASE ~raced'
    <3>1. ~raced
      BY <2>1, CleanStep
    <3>2. ASSUME NEW p \in Proc, proc[p] \in Busy,
                 file' = Store!Effect(proc[p].op, file)
          PROVE  Store!Next
      <4>1. proc[p].op \in Store!Op
        BY <3>2, RequestAssumption DEF Busy
      <4> QED
        BY <2>1, <3>1, <3>2, <4>1 DEF Store!Next, Store!Perform
    <3> QED
      BY <2>1, <3>1, <3>2, CleanStep
  <2>2. CASE raced'
    <3> DEFINE clear == [name |-> "clear"]
    <3>1. clear \in Store!Op
      BY DEF Store!Op, Store!PlainOps
    <3>2. Store!Effect(clear, IF raced THEN Blank ELSE file) = Store!Blank
      BY DEF Store!Effect, Store!Blank
    <3>3. Store!Perform(clear)
      BY <2>2, <3>2 DEF Store!Perform, Blank, Store!Blank
    <3> QED
      BY <3>1, <3>3 DEF Store!Next
  <2> QED
    BY <2>1, <2>2
<1> QED
  BY <1>1, <1>2, TypeCorrect, FreshAlways, ClearedAlways, PTL
     DEF Spec, ImplementsStore, Store!Spec
=============================================================================
