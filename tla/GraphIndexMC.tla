---------------------------- MODULE GraphIndexMC ----------------------------
(* Instances of GraphIndex for TLC.                                        *)
EXTENDS GraphIndex, TLC

CONSTANTS p1, p2, fa, fb, ia, ib, iw, v1, v2

D(i, v, to) == [id |-> i, fp |-> v, to |-> to]

Ranks == [f \in File |-> IF f = fa THEN 1 ELSE 2]

(* File fa holds an implementation of the requirement in fb, which also    *)
(* declares a work item.  The requirement changes and comes to depend on   *)
(* the work item, which leaves fb then, and may enter work.toml before or  *)
(* after that.                                                             *)
Impl == {D(ia, v1, {ib})}
Req1 == {D(ib, v1, {}), D(iw, v1, {ia})}
Req2 == {D(ib, v2, {iw})}
Entry == {D(iw, NoFp, {})}

Begin == [p \in Path |-> IF p = fa THEN Impl ELSE IF p = fb THEN Req1 ELSE {}]

Drafts ==
  [p \in Path |-> IF p = fb THEN {Req2} ELSE IF p = Conf THEN {Entry} ELSE {}]

(* One process verifies and rebuilds, the other indexes and reviews.       *)
TwoJobs ==
  [p \in Proc |->
     IF p = p1 THEN {"verify", "clean", "all"} ELSE {"changed", "review"}]
=============================================================================
