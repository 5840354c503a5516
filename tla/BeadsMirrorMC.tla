--------------------------- MODULE BeadsMirrorMC ---------------------------
(* Instances of BeadsMirror for TLC.                                       *)
EXTENDS BeadsMirror

CONSTANTS r1, t1, t2, t3, q1

(* The two tasks of one item wait for each other, and the second for a     *)
(* question; the task of another item waits for the first.                 *)
Chain == {<<t1, t2>>, <<t2, t1>>, <<t2, q1>>, <<t3, t1>>}
Links == {<<t2, t1>>, <<t3, t1>>}
Items == {{t1, t2}, {t3}}

(* A task that is over may be taken up again.                              *)
Moves ==
  {<<"TODO", "INPROGRESS">>, <<"TODO", "DONE">>, <<"TODO", "CANCELLED">>,
   <<"TODO", "WAITING_FOR_INPUT">>, <<"DONE", "PARTIAL">>, <<"CANCELLED", "someday">>}
============================================================================
