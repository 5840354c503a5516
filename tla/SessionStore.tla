---------------------------- MODULE SessionStore ----------------------------
(***************************************************************************)
(* What a session promises its hooks: each accessor takes effect at once,  *)
(* on the content left by the previous one.                                *)
(***************************************************************************)
EXTENDS SessionOps

VARIABLE data

(* The mutating accessors, as requests.  The argument of set_pending_      *)
(* bootstrap, its clear and of clear is unused.                            *)
SetOps == {"dirty"}
NodeOps == {"load", "block", "oblige", "resolve"}
ReqOps == {"addReq", "setSpec", "dropSpec"}
PlainOps == {"setBoot", "clearBoot", "clearSpec", "clear"}

Op ==
  [name : NodeOps \cup SetOps, node : Boundary]
    \cup [name : ReqOps, req : Req]
    \cup [name : {"setReqs"}, reqs : SUBSET Req]
    \cup [name : {"setWork"}, work : Work]
    \cup [name : PlainOps]

Effect(op, d) ==
  CASE op.name = "load"      -> LoadContext(d, op.node)
    [] op.name = "block"     -> BlockEdit(d, op.node)
    [] op.name = "dirty"     -> MarkDirty(d, {op.node})
    [] op.name = "oblige"    -> AddObligations(d, {op.node})
    [] op.name = "resolve"   -> ResolveObligations(d, {op.node})
    [] op.name = "addReq"    -> AddRequirement(d, op.req)
    [] op.name = "setReqs"   -> SetRequirements(d, op.reqs)
    [] op.name = "setSpec"   -> SetSpecUpdate(d, {op.req})
    [] op.name = "dropSpec"  -> DropSpecUpdate(d, {op.req})
    [] op.name = "setWork"   -> SetWork(d, op.work)
    [] op.name = "setBoot"   -> SetBootstrap(d)
    [] op.name = "clearBoot" -> ClearBootstrap(d)
    [] op.name = "clearSpec" -> ClearSpecUpdate(d)
    [] OTHER                  -> Blank \* clear

Init == data = Blank

Perform(op) == data' = Effect(op, data)

Next == \E op \in Op : Perform(op)

Spec == Init /\ [][Next]_data
=============================================================================
