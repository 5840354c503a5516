----------------------------- MODULE SessionMC -----------------------------
(* An instance of SessionFile for TLC, with every accessor.                *)
EXTENDS SessionFile, TLC

AllCalls == Store!Op

Calls(names) == {op \in AllCalls : op.name \in names}

(* The accessors of the obligation list overlap each other, in a session   *)
(* that holds nothing else; any other call runs alone, and before a race.  *)
Overlaps ==
  (raced \/ \E p, q \in Proc : p # q /\ Idle \notin {proc[p], proc[q]}) =>
    /\ \A p \in Proc : proc[p] # Idle =>
         proc[p].op \in Calls({"oblige", "resolve", "clear"})
    /\ file = [Blank EXCEPT !.obl = file.obl]

Symmetry == Permutations(Proc) \cup Permutations(Boundary)
=============================================================================
