----------------------------- MODULE TraceTree -----------------------------
(***************************************************************************)
(* Source files seen as TraceLayer sees them: behavioural boundaries       *)
(* (discovery/boundaries.py), how each is accounted for, which of them a   *)
(* change touches, and the two policy rules over a change set, TL012 and   *)
(* TL013 (policy/rules.py).                                                *)
(*                                                                         *)
(* A boundary is a path with a qualified symbol name.  Its source is a     *)
(* version number; version 0 is no such boundary in the file.  Placement   *)
(* of marker comments by line is abstracted to what the placement rules    *)
(* decide, namely what is attached to the boundary.                        *)
(***************************************************************************)
EXTENDS Naturals, FiniteSets

CONSTANTS
  Boundary,
  Path,
  PathOf,   \* the file of each boundary
  Parent,   \* the narrowest enclosing boundary, itself at top level
  MaxVer    \* bound: versions of one boundary

ASSUME BoundaryAssumption == {"none", "exempt", "inherit"} \cap Boundary = {}
ASSUME PathOfAssumption == PathOf \in [Boundary -> Path]
ASSUME ParentAssumption ==
  /\ Parent \in [Boundary -> Boundary]
  /\ \A b \in Boundary : PathOf[Parent[b]] = PathOf[b]
ASSUME MaxVerAssumption == MaxVer \in Nat

(* What is attached to a boundary: nothing, an exemption with a reason, a  *)
(* declaration of inheritance from the marker of its enclosing boundary,   *)
(* or a canonical marker.  The id of a marker is written as the boundary   *)
(* for which suggest_marker would mint it, so a marker left above a        *)
(* renamed symbol carries the id of another boundary.                      *)
Acc == {"none", "exempt", "inherit"} \cup Boundary

Gone == [ver |-> 0, acc |-> "none"]
Item == {Gone} \cup [ver : 1 .. MaxVer, acc : Acc]

(* The files that exist, and what they hold.                               *)
Tree == [files : SUBSET Path, item : [Boundary -> Item]]

In(p) == {b \in Boundary : PathOf[b] = p}

Present(t, b) == t.item[b].ver > 0
Marked(i) == i.ver > 0 /\ i.acc \in Boundary

(* extract_boundaries: the symbols the parser of the language finds.       *)
BoundariesOf(t, p) == {b \in In(p) : Present(t, b)}

(* A bare exemption, without a reason, is none.                            *)
Exempt(t, b) == t.item[b].acc = "exempt"

AttachedMarkerId(t, b) == IF Marked(t.item[b]) THEN t.item[b].acc ELSE "none"

(* The boundaries inside one, at any depth: they are in every set that     *)
(* holds it and whatever is directly inside what it holds.                 *)
Inside ==
  [b \in Boundary |->
     {d \in Boundary \ {b} :
        \A S \in SUBSET Boundary :
          (b \in S /\ \A x \in Boundary : Parent[x] \in S => x \in S) => d \in S}]

ASSUME NestingAssumption ==
  \A b, d \in Boundary : d \in Inside[b] => b \notin Inside[d]

(* Equal fingerprints.  A boundary's source runs from its signature to its *)
(* end, markers of the boundaries inside it included; its own marker is    *)
(* above it.                                                               *)
Same(t, u, b) ==
  /\ t.item[b].ver = u.item[b].ver
  /\ \A d \in Inside[b] : t.item[d] = u.item[d]

(* boundary_is_traced without a store: exemption or attached marker.       *)
Attached(t, b) == Present(t, b) /\ (Exempt(t, b) \/ Marked(t.item[b]))

(* The index is what the files held when they were last indexed, limited   *)
(* to items with a marker: the active nodes.                               *)
Indexed(i) == IF Marked(i) THEN i ELSE Gone
ActiveIn(ix, p) == {ix[b].acc : b \in {c \in In(p) : Marked(ix[c])}}

(* _inherit_valid: the target is the id attached to the enclosing          *)
(* boundary, and is an active node of the same file.                       *)
Inherits(t, ix, b) ==
  /\ Present(t, b)
  /\ t.item[b].acc = "inherit"
  /\ Parent[b] # b
  /\ AttachedMarkerId(t, Parent[b]) = Parent[b]
  /\ Parent[b] \in ActiveIn(ix, PathOf[b])

Traced(t, ix, b) == Attached(t, b) \/ Inherits(t, ix, b)

(* git status against a commit: added, removed or modified files.          *)
Differs(t, u, p) ==
  \/ (p \in t.files) # (p \in u.files)
  \/ \E b \in In(p) : t.item[b] # u.item[b]
DiffPaths(t, u) == {p \in Path : Differs(t, u, p)}

(* _path_fully_traced.  Every file here has a parser; a file without       *)
(* boundaries carries no file-level exemption.                             *)
FullyTraced(t, ix, p) ==
  LET here == BoundariesOf(t, p)
  IN here # {} /\ \A b \in here : Traced(t, ix, b)

(* TL012 over the changed paths P: a file no active node claims and which  *)
(* is not accounted for boundary by boundary.                              *)
TL012(t, ix, P) ==
  \E p \in P : p \in t.files /\ ActiveIn(ix, p) = {} /\ ~FullyTraced(t, ix, p)

(* TL013 over the changed paths P: a boundary that is new or changed since *)
(* the baseline and not accounted for.                                     *)
TL013(t, ix, baseline, P) ==
  \E b \in Boundary : /\ PathOf[b] \in P
                      /\ Present(t, b)
                      /\ ~Same(t, baseline, b)
                      /\ ~Traced(t, ix, b)

(* _resolve_obligations_in: why a pending obligation is satisfied, from    *)
(* the files alone.  A missing file is skipped.                            *)
Settled(t, base, b) ==
  /\ PathOf[b] \in t.files
  /\ \/ /\ ~Present(t, b)
        /\ \A c \in BoundariesOf(t, PathOf[b]) : t.item[c].acc # b
     \/ Attached(t, b)
     \/ Present(t, b) /\ Present(base, b) /\ Same(t, base, b)
=============================================================================
