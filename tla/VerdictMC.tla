----------------------------- MODULE VerdictMC -----------------------------
(* An instance of Queries for TLC: a requirement, its implementation and   *)
(* a test that verifies the one and exercises the other.                   *)
EXTENDS Queries

CONSTANTS q, m, t, v1, v2

D(i, v, to) == {[id |-> i, fp |-> v, to |-> to]}

Ranks == [i \in Art |-> IF i = q THEN 1 ELSE IF i = m THEN 2 ELSE 3]

Begin ==
  [p \in Art \cup {Conf} |->
     IF p = q THEN D(q, v1, {}) ELSE IF p = m THEN D(m, v1, {q})
     ELSE IF p = t THEN D(t, v1, {q, m}) ELSE {}]

(* The requirement may change, and the test be rewritten without a marker. *)
Drafts ==
  [p \in Art \cup {Conf} |->
     IF p = q THEN {D(q, v2, {})} ELSE IF p = t THEN {{}} ELSE {}]

(* A waiver that counts and one that has expired.                          *)
Waivers ==
  {[rule |-> "TL011", id |-> q, path |-> Any, expired |-> FALSE],
   [rule |-> "TL110", id |-> Any, path |-> m, expired |-> TRUE]}

(* The policy overrides one lifecycle.                                     *)
Overrides ==
  [l \in {"draft", "wip", "review", "merge", "release"} |->
     IF l = "wip"
     THEN [on |-> {"test_pass"}, off |-> {"execution_evidence"}, waivers |-> FALSE]
     ELSE [on |-> {}, off |-> {}, waivers |-> TRUE]]

(* A name, before the ids that ingest makes up and before every time.      *)
RunIds == 1 .. 3
Names == {1}
Places == [k \in RunIds |-> IF k = 1 THEN 0 ELSE MaxRuns]

(* At most one thing about the evidence is out of the ordinary, what is    *)
(* not marked and an index that is still to come included; at most one     *)
(* artifact is not as it was at first.                                     *)
Ordinary ==
  LET K == DOMAIN runs
      false == {k \in K : ~Honest(k)}
      idle == {k \in K : \E w \in runs[k].told : w.of.hit = {} \/ w.of.bad}
      short == {k \in K : runs[k].ran = {} /\ (ing = Done \/ k # ing.id)}
      named == {k \in K : runs[k].named}
      mixed == {k \in K : Timed(k) /\ \E j \in K : ~Timed(j)}
      bare == {p \in Art : {} \in {tree[p], head[p], base[p]}}
      cold == {i \in Req : K # {} /\ nodes[i] = NoNode}
  IN /\ Cardinality({p \in Art : tree[p] # Start[p]}) <= 1
     /\ 3 \in K => 2 \in K
     /\ Cardinality(false) + Cardinality(idle) + Cardinality(short)
          + Cardinality(named) + Cardinality(mixed) + Cardinality(bare)
          + Cardinality(cold) <= 1
=============================================================================
