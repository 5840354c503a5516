---------------------------- MODULE WorkFilesMC ----------------------------
(* Instances of WorkFiles for TLC.                                         *)
EXTENDS WorkFiles, TLC

CONSTANTS s1, s2, rate, limit

(* The title of one task is the beginning of another one's.                *)
RateLimit == {<<rate, limit>>}

Jobs ==
  [s \in Session |-> IF s = s1 THEN {"bootstrap", "finish"}
                     ELSE {"bootstrap", "new", "index", "activate", "prompt"}]

(* A bound: nothing is explored after the first mishap but its effects.    *)
FewMishaps == Cardinality(mishap) <= 1
============================================================================
