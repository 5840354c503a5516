------------------------------ MODULE Queries ------------------------------
(***************************************************************************)
(* The readers of the graph and the evidence beside verify: fulfillment    *)
(* (work.py), context and why (query/), the pull request summary           *)
(* (engine.py) and the package for the semantic audit (audit/package.py).  *)
(* They change nothing.  The question is whether what they tell agrees     *)
(* with the verdict, and with each other, in every state Verdict reaches.  *)
(***************************************************************************)
EXTENDS Verdict

(* What latest_outcome says of a test.                                     *)
Outcome(t) ==
  IF LatestOutcome(t) = {} THEN "none"
  ELSE IF \E k \in LatestOutcome(t) : Passed(k, t) THEN "pass" ELSE "fail"

(* _test_passes.                                                           *)
TestPasses(t) == nodes[t].status = "current" /\ Outcome(t) = "pass"

(* Fault: a requirement without tests counts as verified.                  *)
FulfillmentFault(q) ==
  IF From(Impl, q) \cap Active = {} THEN "UNIMPLEMENTED"
  ELSE IF nodes[q].status # "current" THEN "STALE"
  ELSE IF \A t \in From(Test, q) \cap Active : TestPasses(t) THEN "VERIFIED"
  ELSE "IMPLEMENTED"

(* fulfillment, of an active requirement.                                  *)
Fulfillment(q) ==
  IF From(Impl, q) \cap Active = {} THEN "UNIMPLEMENTED"
  ELSE IF nodes[q].status # "current" THEN "STALE"
  ELSE LET tests == From(Test, q) \cap Active
       IN IF tests # {} /\ \A t \in tests : TestPasses(t) THEN "VERIFIED"
          ELSE "IMPLEMENTED"

-----------------------------------------------------------------------------
(* build_context: the intent an artifact was written for, and how each of  *)
(* the tests linked to it stands.  Inactive nodes are shown, too.          *)

Upstream(i) ==
  IF i \in Impl THEN {e.to : e \in {f \in edges : f.from = i /\ nodes[f.to] # NoNode}}
  ELSE {}

Verification(i) ==
  [t \in {u \in From(Test, i) : nodes[u] # NoNode} |->
     [outcome |-> Outcome(t), level |-> ProofLevel(t, i),
      current |-> Outcome(t) = "pass" /\ nodes[t].status = "current"]]

-----------------------------------------------------------------------------
(* why: what an artifact is there for, as paths from it to a cause that    *)
(* has none itself.  The predicates followed are those of implementations; *)
(* there are fewer paths than the five that are shown.                     *)

MaxHops == 8

(* _predecessors: an edge to an id that is not indexed leads nowhere.      *)
Causes(i) == Upstream(i) \ {i}

(* Where a path goes on without a cycle.                                   *)
Longer(path) ==
  LET n == Len(path)
  IN {Append(path, c) : c \in Causes(path[n]) \ {path[k] : k \in 1 .. n}}

(* _paths_from: all paths that end or have the most hops allowed.          *)
PathsFrom(i) ==
  LET after[d \in 0 .. MaxHops] ==
        IF d = 0 THEN {<<i>>}
        ELSE UNION {LET on == Longer(p) IN IF on = {} THEN {p} ELSE on :
                      p \in after[d - 1]}
  IN after[MaxHops]

WhyPaths(i) ==
  IF nodes[i] = NoNode THEN {} ELSE {p \in PathsFrom(i) : Len(p) > 1}

(* Where the walk finds nothing the direct hops are shown.                 *)
Why(i) ==
  LET paths == WhyPaths(i)
  IN IF paths # {} \/ nodes[i] = NoNode THEN paths
     ELSE {<<i, c>> : c \in Upstream(i)}

-----------------------------------------------------------------------------
(* The summary for a pull request, of the uncommitted changes if there are *)
(* any.                                                                    *)

Dirty == {p \in Art : tree[p] # head[p]}

InFiles(P) == {i \in Active : nodes[i].src \in P}

PrScope ==
  LET near == {e \in edges : {e.from, e.to} \cap InFiles(Dirty) # {}}
  IN IF Dirty = {} THEN Active
     ELSE Active \cap
            (InFiles(Dirty) \cup {e.from : e \in near} \cup {e.to : e \in near})

ExecutionEdgesForTest(t) ==
  {x \in UNION {runs[k].execs : k \in DOMAIN runs} : x[1] = t}

(* The line of a test; only its own execution edges count.                 *)
PrLine(t) ==
  IF Outcome(t) # "pass" THEN Outcome(t)
  ELSE IF ExecutionEdgesForTest(t) # {} THEN "confirmed" ELSE "pass"

PrStale == {i \in Active : Stale(i)}

-----------------------------------------------------------------------------
(* The audit package.                                                      *)

(* _trace_paths: requirement, implementation and tests, without the work   *)
(* item.                                                                   *)
TracePath(m) ==
  LET targets == Upstream(m) \cap Active
  IN targets \cup {m}
       \cup (Active \cap (From(Test, m) \cup UNION {From(Test, q) : q \in targets}))

(* _deterministic_findings, of artifacts that are stale.                   *)
Drift == {m \in Impl \cap Active : Stale(m)}

(* The sections hold all active artifacts: they are fewer than fifty.      *)
AuditPackage ==
  [changed |-> InFiles(Dirty),
   requirements |-> Req \cap Active,
   implementations |-> Impl \cap Active,
   tests |-> Test \cap Active,
   paths |-> [m \in Impl \cap Active |-> TracePath(m)],
   unexpected |-> {p \in Dirty : InFiles({p}) = {}},
   drift |-> Drift]

-----------------------------------------------------------------------------
(* All evidence is of HEAD, complete and in one format.  Otherwise the     *)
(* readers, which order runs in another way than the rules and do not look *)
(* at the revision, may differ from the verdict.                           *)
Comparable ==
  \A j, k \in DOMAIN runs :
    runs[k].rev = rev /\ runs[k].ran = Test /\ Timed(j) = Timed(k)

(* What looks finished is finished: a requirement reported as VERIFIED     *)
(* (work.py:213) has only tests that context shows as current and the      *)
(* merge gate accepts; a test that context shows as current for a          *)
(* requirement (context.py:173), or the pull request summary as passed     *)
(* (engine.py:1464), is no reason to block; where the summary counts no    *)
(* stale trace and the audit package names no drift (package.py:174), the  *)
(* gate finds none among the active artifacts.  Why explains each          *)
(* implementation that the gate finds traced, and leads from one to a      *)
(* requirement just if that is not reported as unimplemented (why.py:105). *)
ReadersAgree ==
  /\ Comparable =>
       \A q \in Req \cap Active :
         /\ Fulfillment(q) = "VERIFIED" =>
              /\ q \notin TL020(Art) /\ TL021({q}) \cap Active = {}
              /\ \A t \in DOMAIN Verification(q) \cap Active : Verification(q)[t].current
         /\ \A t \in TL021({q}) :
              /\ t \in DOMAIN Verification(q) => ~Verification(q)[t].current
              /\ t \in PrScope => PrLine(t) \notin {"pass", "confirmed"}
  /\ \A t \in Test \cap PrScope :
       PrLine(t) = "confirmed" => \E m \in Impl : ProofLevel(t, m) = 2
  /\ PrStale = {} => AuditPackage.drift = {} /\ TL110(Active) = {}
  /\ LET told == [m \in Impl \cap Active |-> Why(m)]
     IN /\ \A m \in DOMAIN told \ (TL002(Art) \cup TL010(Art)) : told[m] # {}
        /\ \A q \in Req \cap Active :
             Fulfillment(q) # "UNIMPLEMENTED" <=>
               \E m \in DOMAIN told : \E p \in told[m] : p[Len(p)] = q
=============================================================================
