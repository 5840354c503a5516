-------------------------- MODULE GraphIndexProofs --------------------------
(* Proofs about the graph store (GraphIndex.tla), for any paths, ids,      *)
(* fingerprints, processes, edits and bounds.                              *)
EXTENDS GraphIndex, FiniteSetTheorems, Induction

(* The nodes of an index, with and without those that are not there.       *)
Nodes == [Id -> {NoNode} \cup Node]

LEMMA NodeIs ==
  ASSUME NEW n \in Node
  PROVE  /\ n # NoNode
         /\ n.active \in BOOLEAN /\ n.status \in Status
         /\ n.src \in Path /\ n.fp \in Fp \cup {NoFp}
         /\ n.fp # NoFp => n.fp \in Fp
<1>1. n \in [src : Path, fp : Fp \cup {NoFp}, rev : Nat \cup {NoRev},
             active : BOOLEAN, status : Status]
  BY BoundsAssumption DEF Node, NodeAt, Path
<1>2. "fp" \in DOMAIN n /\ "fp" \notin DOMAIN NoNode
  BY <1>1 DEF NoNode
<1> QED
  BY <1>1, <1>2

LEMMA NodeSet ==
  ASSUME NEW n \in Node
  PROVE  /\ [n EXCEPT !.active = FALSE] \in Node
         /\ \A s \in Status : [n EXCEPT !.status = s] \in Node
BY DEF Node, NodeAt

LEMMA InactiveIs ==
  ASSUME NEW n \in {NoNode} \cup Node
  PROVE  /\ Inactive(n) \in {NoNode} \cup Node
         /\ Inactive(n) = NoNode \/ ~Inactive(n).active
<1>1. CASE n = NoNode
  BY <1>1 DEF Inactive
<1>2. CASE n \in Node
  <2>1. n # NoNode
    BY <1>2, NodeIs
  <2>2. Inactive(n) = [n EXCEPT !.active = FALSE]
    BY <2>1 DEF Inactive
  <2>3. [n EXCEPT !.active = FALSE].active = FALSE
    BY <1>2 DEF Node, NodeAt
  <2> QED
    BY <1>2, <2>2, <2>3, NodeSet
<1> QED
  BY <1>1, <1>2

-----------------------------------------------------------------------------
(* What a path declares.                                                   *)

LEMMA DeclIs ==
  ASSUME NEW p \in Path, NEW c \in Content(p), NEW i \in Ids(c)
  PROVE  /\ DeclOf(c, i) \in c /\ DeclOf(c, i).id = i
         /\ i \in Id
         /\ (p = Conf) <=> (DeclOf(c, i).fp = NoFp)
         /\ DeclOf(c, i).fp \in Fp \cup {NoFp}
<1>1. PICK d \in c : d.id = i
  BY DEF Ids
<1>2. DeclOf(c, i) \in c /\ DeclOf(c, i).id = i
  BY <1>1 DEF DeclOf
<1>3. DeclOf(c, i) \in Decl
  BY <1>2 DEF Content
<1> QED
  BY <1>2, <1>3 DEF Content, Decl

(* An id is declared once in a path.                                       *)
LEMMA DeclUnique ==
  ASSUME NEW p \in Path, NEW c \in Content(p), NEW d \in c
  PROVE  d.id \in Ids(c) /\ DeclOf(c, d.id) = d /\ d \in Decl
<1>1. d.id \in Ids(c) /\ d \in Decl
  BY DEF Ids, Content
<1>2. DeclOf(c, d.id) \in c /\ DeclOf(c, d.id).id = d.id
  BY <1>1, DeclIs
<1> QED
  BY <1>1, <1>2 DEF Content

(* Of any files one comes first in discovery.                              *)
LEMMA FirstFile ==
  ASSUME NEW F \in SUBSET File, F # {}
  PROVE  \E f \in F : \A g \in F : Rank[f] <= Rank[g]
<1> DEFINE R == {Rank[f] : f \in F}
<1>1. R \subseteq Nat /\ R # {}
  BY RankAssumption
<1> HIDE DEF R
<1>2. PICK n \in R : \A k \in R : n <= k
  BY <1>1, LeastNumber
<1> QED
  BY <1>2 DEF R

LEMMA SourceIs ==
  ASSUME NEW F \in SUBSET File, NEW T, NEW i
  PROVE  /\ Declaring(T, F, i) = {} => Source(T, F, i) = Conf
         /\ Declaring(T, F, i) # {} => Source(T, F, i) \in Declaring(T, F, i)
<1>1. Declaring(T, F, i) \in SUBSET File
  BY DEF Declaring
<1>2. CASE Declaring(T, F, i) # {}
  <2>1. \E f \in Declaring(T, F, i) :
          \A g \in Declaring(T, F, i) : Rank[f] <= Rank[g]
    BY <1>1, <1>2, FirstFile
  <2> QED
    BY <1>2, <2>1 DEF Source
<1> QED
  BY <1>2 DEF Source

(* What a scan finds: a node for each id declared in the files F or in     *)
(* work.toml, with the fingerprint of a path that declares it.             *)
LEMMA ScannedIs ==
  ASSUME NEW F \in SUBSET File, NEW r \in 0 .. MaxCommits,
         NEW T, \A p \in F \cup {Conf} : T[p] \in Content(p)
  PROVE  /\ DOMAIN Scanned(T, F, r) \subseteq Id
         /\ \A i : i \in DOMAIN Scanned(T, F, r) <=>
                     \E p \in F \cup {Conf} : i \in Ids(T[p])
         /\ \A i \in DOMAIN Scanned(T, F, r) :
              LET n == Scanned(T, F, r)[i]
              IN /\ n \in Node /\ n.active
                 /\ n.src \in F \cup {Conf} /\ i \in Ids(T[n.src])
                 /\ n.fp = DeclOf(T[n.src], i).fp
<1> DEFINE S == Scanned(T, F, r)
<1>1. \A i : i \in DOMAIN S <=> \E p \in F \cup {Conf} : i \in Ids(T[p])
  BY DEF Scanned
<1>2. F \cup {Conf} \subseteq Path
  BY DEF Path
<1>3. ASSUME NEW i \in DOMAIN S
      PROVE  /\ i \in Id
             /\ S[i] \in Node /\ S[i].active
             /\ S[i].src \in F \cup {Conf} /\ i \in Ids(T[S[i].src])
             /\ S[i].fp = DeclOf(T[S[i].src], i).fp
  <2> DEFINE p == Source(T, F, i)
             d == DeclOf(T[p], i)
  <2>1. p \in F \cup {Conf} /\ i \in Ids(T[p])
    <3>1. CASE Declaring(T, F, i) = {}
      <4>1. p = Conf
        BY <3>1, SourceIs
      <4>2. PICK q \in F \cup {Conf} : i \in Ids(T[q])
        BY <1>1
      <4> QED
        BY <3>1, <4>1, <4>2 DEF Declaring
    <3>2. CASE Declaring(T, F, i) # {}
      BY <3>2, SourceIs DEF Declaring
    <3> QED
      BY <3>1, <3>2
  <2>2. S[i] = NewNode(p, d, r)
    BY DEF Scanned
  <2> HIDE DEF S, p
  <2>3. p \in Path /\ T[p] \in Content(p)
    BY <2>1, <1>2
  <2>4. /\ i \in Id
        /\ (p = Conf) <=> (d.fp = NoFp)
        /\ d.fp \in Fp \cup {NoFp}
    BY <2>1, <2>3, DeclIs
  <2> HIDE DEF d
  <2>5. /\ NewNode(p, d, r) \in Node
        /\ NewNode(p, d, r).active
        /\ NewNode(p, d, r).src = p
        /\ NewNode(p, d, r).fp = d.fp
    BY <2>1, <2>4 DEF NewNode, Node, NodeAt, Status
  <2> QED
    BY <2>1, <2>2, <2>4, <2>5 DEF d
<1> QED
  BY <1>1, <1>3

-----------------------------------------------------------------------------
(* The nodes an index yields.                                              *)

LEMMA FullNodesIs ==
  ASSUME nodes \in Nodes,
         NEW new, DOMAIN new \subseteq Id,
         \A i \in DOMAIN new : new[i] \in Node /\ new[i].active
  PROVE  /\ FullNodes(new) \in Nodes
         /\ ActiveIn(FullNodes(new)) = DOMAIN new
         /\ \A i \in DOMAIN new : FullNodes(new)[i] = new[i]
<1>1. ASSUME NEW i \in Id
      PROVE  /\ FullNodes(new)[i] \in {NoNode} \cup Node
             /\ i \in DOMAIN new => FullNodes(new)[i] = new[i]
             /\ i \in ActiveIn(FullNodes(new)) <=> i \in DOMAIN new
  <2>1. CASE i \in DOMAIN new
    <3>1. FullNodes(new)[i] = new[i]
      BY <2>1 DEF FullNodes
    <3>2. new[i] # NoNode
      BY <2>1, NodeIs
    <3> QED
      BY <2>1, <3>1, <3>2 DEF ActiveIn
  <2>2. CASE i \notin DOMAIN new
    <3>1. FullNodes(new)[i] = Inactive(nodes[i])
      BY <2>2 DEF FullNodes
    <3>2. nodes[i] \in {NoNode} \cup Node
      BY DEF Nodes
    <3> QED
      BY <2>2, <3>1, <3>2, InactiveIs DEF ActiveIn
  <2> QED
    BY <2>1, <2>2
<1>2. FullNodes(new) \in Nodes
  BY <1>1 DEF FullNodes, Nodes
<1>3. ActiveIn(FullNodes(new)) \subseteq Id
  BY DEF ActiveIn
<1> QED
  BY <1>1, <1>2, <1>3

LEMMA MergedNodesIs ==
  ASSUME nodes \in Nodes, NEW C \in SUBSET Path,
         NEW new, DOMAIN new \subseteq Id,
         \A i \in DOMAIN new : new[i] \in Node /\ new[i].active
  PROVE  LET M == MergedNodes(C, new)
             kept == {i \in Active : nodes[i].src \notin C}
         IN /\ M \in Nodes
            /\ ActiveIn(M) = DOMAIN new \cup kept
            /\ \A i \in DOMAIN new : M[i] = new[i]
            /\ \A i \in kept \ DOMAIN new : M[i] = nodes[i]
<1> DEFINE M == MergedNodes(C, new)
           kept == {i \in Active : nodes[i].src \notin C}
<1>1. ASSUME NEW i \in Id
      PROVE  /\ M[i] \in {NoNode} \cup Node
             /\ i \in DOMAIN new => M[i] = new[i]
             /\ i \in kept \ DOMAIN new => M[i] = nodes[i]
             /\ i \in ActiveIn(M) <=> i \in DOMAIN new \/ i \in kept
  <2>0. nodes[i] \in {NoNode} \cup Node
    BY DEF Nodes
  <2>1. CASE i \in DOMAIN new
    <3>1. M[i] = new[i]
      BY <2>1 DEF MergedNodes
    <3>2. new[i] # NoNode
      BY <2>1, NodeIs
    <3> QED
      BY <2>1, <3>1, <3>2 DEF ActiveIn
  <2>2. CASE i \notin DOMAIN new /\ i \in Lost(C, new)
    <3>1. M[i] = Inactive(nodes[i])
      BY <2>2 DEF MergedNodes
    <3>2. i \notin kept
      BY <2>2 DEF Lost
    <3> QED
      BY <2>0, <2>2, <3>1, <3>2, InactiveIs DEF ActiveIn
  <2>3. CASE i \notin DOMAIN new /\ i \notin Lost(C, new)
    <3>1. M[i] = IF nodes[i].src \in C THEN NoNode ELSE nodes[i]
      BY <2>3 DEF MergedNodes
    <3>2. i \in Active => nodes[i].src \notin C
      BY <2>3 DEF Lost
    <3>3. CASE nodes[i].src \in C
      BY <2>3, <3>1, <3>2, <3>3 DEF ActiveIn
    <3>4. CASE nodes[i].src \notin C
      BY <2>0, <2>3, <3>1, <3>4 DEF ActiveIn, Active
    <3> QED
      BY <3>3, <3>4
  <2> QED
    BY <2>1, <2>2, <2>3
<1>2. M \in Nodes
  BY <1>1 DEF MergedNodes, Nodes
<1>3. ActiveIn(M) \subseteq Id /\ kept \subseteq Id
  BY DEF ActiveIn, Active
<1> QED
  BY <1>1, <1>2, <1>3

(* The staleness pass moves nothing but review states.                     *)
LEMMA ReviewedIs ==
  ASSUME nodes \in Nodes, NEW n \in Nodes, NEW E, NEW clean \in BOOLEAN
  PROVE  LET R == Reviewed(n, E, clean)
         IN /\ R \in Nodes
            /\ ActiveIn(R) = ActiveIn(n)
            /\ \A i \in ActiveIn(n) : R[i].src = n[i].src /\ R[i].fp = n[i].fp
<1> DEFINE R == Reviewed(n, E, clean)
<1>1. ASSUME NEW i \in Id
      PROVE  /\ R[i] \in {NoNode} \cup Node
             /\ n[i] = NoNode => R[i] = NoNode
             /\ n[i] # NoNode => /\ R[i] # NoNode
                                 /\ R[i].active = n[i].active
                                 /\ R[i].src = n[i].src /\ R[i].fp = n[i].fp
  <2>1. CASE n[i] = NoNode
    BY <2>1 DEF Reviewed
  <2>2. CASE n[i] # NoNode
    <3>1. n[i] \in Node
      BY <2>2 DEF Nodes
    <3>2. Carried(n, i, clean) \in Status
      <4>1. CASE ~clean /\ nodes[i] # NoNode
        <5>1. nodes[i] \in Node
          BY <4>1 DEF Nodes
        <5> QED
          BY <4>1, <5>1, NodeIs DEF Carried
      <4>2. CASE ~(~clean /\ nodes[i] # NoNode)
        <5>1. Carried(n, i, clean) = n[i].status
          BY <4>2 DEF Carried
        <5> QED
          BY <3>1, <5>1, NodeIs
      <4> QED
        BY <4>1, <4>2
    <3> DEFINE dependents == {e.from : e \in {f \in E : f.to \in HasChanged(n)}}
               s == IF i \in dependents THEN "stale"
                    ELSE IF i \in HasChanged(n) THEN "current"
                    ELSE Carried(n, i, clean)
    <3>3. s \in Status
      BY <3>2 DEF Status
    <3>4. R[i] = [n[i] EXCEPT !.status = s]
      BY <2>2 DEF Reviewed
    <3> HIDE DEF s, R
    <3>5. [n[i] EXCEPT !.status = s] \in Node
      BY <3>1, <3>3, NodeSet
    <3>6. /\ [n[i] EXCEPT !.status = s].active = n[i].active
          /\ [n[i] EXCEPT !.status = s].src = n[i].src
          /\ [n[i] EXCEPT !.status = s].fp = n[i].fp
      BY <3>1 DEF Node, NodeAt
    <3> QED
      BY <2>2, <3>4, <3>5, <3>6, NodeIs
  <2> QED
    BY <2>1, <2>2
<1>2. R \in Nodes
  BY <1>1 DEF Reviewed, Nodes
<1>3. ActiveIn(R) = ActiveIn(n)
  BY <1>1 DEF ActiveIn
<1>4. \A i \in ActiveIn(n) : R[i].src = n[i].src /\ R[i].fp = n[i].fp
  BY <1>1 DEF ActiveIn
<1> QED
  BY <1>2, <1>3, <1>4

LEMMA ReviewedMirrors ==
  ASSUME nodes \in Nodes, NEW n \in Nodes, NEW E, NEW clean \in BOOLEAN,
         NEW text, Mirrors(n, E, text)
  PROVE  Mirrors(Reviewed(n, E, clean), E, text)
BY ReviewedIs DEF Mirrors

-----------------------------------------------------------------------------
(* What the store is to say.                                               *)

LEMMA SaidIs ==
  ASSUME NEW C \in SUBSET Path, NEW T, IsText(T, C \cup {Conf}),
         IsText(seen, Path)
  PROVE  /\ IsText(Said(C, T), Path)
         /\ \A q \in C \cup {Conf} : T[q] \subseteq Said(C, T)[q]
         /\ \A q \in Path \ C : seen[q] \subseteq Said(C, T)[q]
         /\ \A q \in C : Said(C, T)[q] = T[q]
         /\ \A q \in File \ C : Said(C, T)[q] = seen[q]
         /\ \A q \in Path, d \in Decl : d \in Said(C, T)[q] =>
              (q \in C \cup {Conf} /\ d \in T[q]) \/ (q \notin C /\ d \in seen[q])
<1>1. Conf \in Path /\ C \cup {Conf} \subseteq Path /\ Conf \notin File
  BY NamesAssumption DEF Path
<1>2. \A c \in Content(Conf), e \in Content(Conf) : c \cup e \in Content(Conf)
  <2>1. SUFFICES ASSUME NEW c \in Content(Conf), NEW e \in Content(Conf)
                 PROVE  c \cup e \in Content(Conf)
    OBVIOUS
  <2>2. \A d \in c \cup e : d \in Decl /\ d.fp = NoFp
    BY <1>1 DEF Content
  <2>3. \A d \in c \cup e : d \in [id : Id, fp : {NoFp}, to : {{}}]
    BY <2>2, NamesAssumption DEF Decl
  <2>4. ASSUME NEW d \in c \cup e, NEW x \in c \cup e, d.id = x.id
        PROVE  d = x
    <3>1. d = [id |-> d.id, fp |-> NoFp, to |-> {}]
      BY <2>3
    <3>2. x = [id |-> x.id, fp |-> NoFp, to |-> {}]
      BY <2>3
    <3> QED
      BY <2>4, <3>1, <3>2
  <2> QED
    BY <2>2, <2>4 DEF Content
<1>3. ASSUME NEW q \in Path
      PROVE  /\ q \in C => Said(C, T)[q] = T[q]
             /\ q \notin C /\ q = Conf => Said(C, T)[q] = seen[q] \cup T[q]
             /\ q \notin C /\ q # Conf => Said(C, T)[q] = seen[q]
             /\ Said(C, T)[q] \in Content(q)
  <2>1. /\ q \in C => Said(C, T)[q] = T[q]
        /\ q \notin C /\ q = Conf => Said(C, T)[q] = seen[q] \cup T[q]
        /\ q \notin C /\ q # Conf => Said(C, T)[q] = seen[q]
    BY DEF Said
  <2>2. /\ q \in C \cup {Conf} => T[q] \in Content(q)
        /\ seen[q] \in Content(q)
    BY DEF IsText
  <2> QED
    BY <1>2, <2>1, <2>2
<1>4. IsText(Said(C, T), Path)
  BY <1>3 DEF IsText, Said
<1>5. \A q \in C \cup {Conf} : T[q] \subseteq Said(C, T)[q]
  BY <1>1, <1>3
<1>6. /\ \A q \in Path \ C : seen[q] \subseteq Said(C, T)[q]
      /\ \A q \in File \ C : Said(C, T)[q] = seen[q]
      /\ \A q \in C : Said(C, T)[q] = T[q]
  BY <1>1, <1>3 DEF Path
<1>7. ASSUME NEW q \in Path, NEW d \in Decl, d \in Said(C, T)[q]
      PROVE  (q \in C \cup {Conf} /\ d \in T[q]) \/ (q \notin C /\ d \in seen[q])
  BY <1>3, <1>7
<1> QED
  BY <1>4, <1>5, <1>6, <1>7

LEMMA EdgeIs ==
  ASSUME NEW T, NEW F, NEW e \in EdgesOf(T, F)
  PROVE  e \in Edge /\ e.path \in F /\ e.from \in Ids(T[e.path])
BY DEF EdgesOf, Ids

(* A graph that mirrors what paths declare, when no two declare one id.    *)
Sound(n, E, text, c) == ~c => ~Clash(text) /\ Mirrors(n, E, text)

(* A full index mirrors the files it read.                                 *)
LEMMA FullMirrors ==
  ASSUME nodes \in Nodes, NEW T, IsText(T, Path), NEW r \in 0 .. MaxCommits
  PROVE  LET new == Scanned(T, File, r)
         IN Mirrors(FullNodes(new), EdgesOf(T, File), T)
<1> DEFINE new == Scanned(T, File, r)
           n == FullNodes(new)
<1>1. Path = File \cup {Conf} /\ \A p \in Path : T[p] \in Content(p)
  BY DEF IsText, Path
<1>2. /\ DOMAIN new \subseteq Id
      /\ \A i : i \in DOMAIN new <=> \E p \in Path : i \in Ids(T[p])
      /\ \A i \in DOMAIN new :
           /\ new[i] \in Node /\ new[i].active
           /\ i \in Ids(T[new[i].src])
           /\ new[i].fp = DeclOf(T[new[i].src], i).fp
  BY <1>1, ScannedIs
<1> HIDE DEF new
<1>3. ActiveIn(n) = DOMAIN new /\ \A i \in DOMAIN new : n[i] = new[i]
  BY <1>2, FullNodesIs
<1> HIDE DEF n
<1>4. Mirrors(n, EdgesOf(T, File), T)
  BY <1>2, <1>3 DEF Mirrors
<1> QED
  BY <1>4 DEF n, new

(* An incremental index over C turns a store that mirrors what the paths   *)
(* declared into one that mirrors what they declare with C read again.     *)
THEOREM IncrementalMirrors ==
  ASSUME nodes \in Nodes, NEW C \in SUBSET Path,
         NEW T, IsText(T, C \cup {Conf}), IsText(seen, Path),
         NEW r \in 0 .. MaxCommits,
         Mirrors(nodes, edges, seen), ~Clash(seen), ~Clash(Said(C, T))
  PROVE  LET new == Scanned(T, C \cap File, r)
         IN Mirrors(MergedNodes(C, new),
                    EdgesOf(T, C \cap File) \cup KeptEdges(C, new), Said(C, T))
<1> DEFINE F == C \cap File
           new == Scanned(T, F, r)
           S == Said(C, T)
           M == MergedNodes(C, new)
           kept == {i \in Active : nodes[i].src \notin C}
<1>1. /\ F \cup {Conf} \subseteq C \cup {Conf} /\ F \cup {Conf} \subseteq Path
      /\ F \in SUBSET File /\ Conf \notin File /\ File \subseteq Path
      /\ \A q \in C : q \in F \cup {Conf}
  BY NamesAssumption DEF Path
<1>2. /\ IsText(S, Path)
      /\ \A q \in C \cup {Conf} : T[q] \subseteq S[q]
      /\ \A q \in Path \ C : seen[q] \subseteq S[q]
      /\ \A q \in C : S[q] = T[q]
      /\ \A q \in File \ C : S[q] = seen[q]
      /\ \A q \in Path, d \in Decl : d \in S[q] =>
           (q \in C \cup {Conf} /\ d \in T[q]) \/ (q \notin C /\ d \in seen[q])
  BY SaidIs
<1>3. \A q \in F \cup {Conf} : T[q] \in Content(q)
  BY <1>1 DEF IsText
<1>4. /\ DOMAIN new \subseteq Id
      /\ \A i : i \in DOMAIN new <=> \E q \in F \cup {Conf} : i \in Ids(T[q])
      /\ \A i \in DOMAIN new :
           /\ new[i] \in Node /\ new[i].active
           /\ new[i].src \in F \cup {Conf} /\ i \in Ids(T[new[i].src])
           /\ new[i].fp = DeclOf(T[new[i].src], i).fp
  BY <1>1, <1>3, ScannedIs
<1> HIDE DEF new, S
<1>5. /\ ActiveIn(M) = DOMAIN new \cup kept
      /\ \A i \in DOMAIN new : M[i] = new[i]
      /\ \A i \in kept \ DOMAIN new : M[i] = nodes[i]
  BY <1>4, MergedNodesIs
<1> HIDE DEF M
<1>6. \A p, q \in Path, i \in Id :
        i \in Ids(S[p]) /\ i \in Ids(S[q]) => p = q
  BY DEF Clash, S
<1>7. \A p, q \in Path, i \in Id :
        i \in Ids(seen[p]) /\ i \in Ids(seen[q]) => p = q
  BY DEF Clash
<1>8. \A i \in Active : /\ i \in Id /\ nodes[i].src \in Path
                         /\ i \in Ids(seen[nodes[i].src])
                         /\ nodes[i].fp = DeclOf(seen[nodes[i].src], i).fp
  <2> SUFFICES ASSUME NEW i \in Active
               PROVE  /\ i \in Id /\ nodes[i].src \in Path
                      /\ i \in Ids(seen[nodes[i].src])
                      /\ nodes[i].fp = DeclOf(seen[nodes[i].src], i).fp
    OBVIOUS
  <2>1. i \in Id /\ nodes[i] # NoNode
    BY DEF Active, ActiveIn
  <2>2. nodes[i] \in Node
    BY <2>1 DEF Nodes
  <2> QED
    BY <2>1, <2>2, NodeIs DEF Mirrors, Active
<1>9. \A i \in Id, q \in Path : i \in Ids(seen[q]) =>
        i \in Active /\ nodes[i].src = q
  BY <1>7, <1>8 DEF Mirrors, Active
(* Every path's share.                                                     *)
<1>10. \A q \in F \cup {Conf} : Ids(T[q]) \subseteq Ids(S[q])
  BY <1>1, <1>2 DEF Ids
<1>11. \A q \in Path \ C : Ids(seen[q]) \subseteq Ids(S[q])
  BY <1>2 DEF Ids
<1>12. \A q \in Path, i \in Id : i \in Ids(S[q]) =>
         \/ q \in F \cup {Conf} /\ i \in Ids(T[q])
         \/ q \notin C /\ i \in Ids(seen[q])
  <2> SUFFICES ASSUME NEW q \in Path, NEW i \in Id, i \in Ids(S[q])
               PROVE  \/ q \in F \cup {Conf} /\ i \in Ids(T[q])
                      \/ q \notin C /\ i \in Ids(seen[q])
    OBVIOUS
  <2>1. PICK d \in S[q] : d.id = i
    BY DEF Ids
  <2>2. d \in Decl
    BY <1>2, <2>1 DEF IsText, Content
  <2> QED
    BY <1>1, <1>2, <2>1, <2>2 DEF Ids
(* Nodes.                                                                  *)
<1>13. \A i \in Id : i \in ActiveIn(M) <=> \E q \in Path : i \in Ids(S[q])
  <2> SUFFICES ASSUME NEW i \in Id
               PROVE  i \in ActiveIn(M) <=> \E q \in Path : i \in Ids(S[q])
    OBVIOUS
  <2>1. ASSUME i \in DOMAIN new PROVE \E q \in Path : i \in Ids(S[q])
    BY <1>1, <1>4, <1>10, <2>1
  <2>2. ASSUME i \in kept PROVE \E q \in Path : i \in Ids(S[q])
    BY <1>8, <1>11, <2>2
  <2>3. ASSUME NEW q \in Path, i \in Ids(S[q])
        PROVE  i \in DOMAIN new \cup kept
    <3>1. CASE q \in F \cup {Conf} /\ i \in Ids(T[q])
      BY <1>4, <3>1
    <3>2. CASE q \notin C /\ i \in Ids(seen[q])
      BY <1>9, <3>2
    <3> QED
      BY <1>12, <2>3, <3>1, <3>2
  <2> QED
    BY <1>5, <2>1, <2>2, <2>3
<1>14. ASSUME NEW i \in ActiveIn(M)
       PROVE  i \in Ids(S[M[i].src]) /\ M[i].fp = DeclOf(S[M[i].src], i).fp
  <2>1. CASE i \in DOMAIN new
    <3> DEFINE q == new[i].src
               d == DeclOf(T[q], i)
    <3>1. M[i] = new[i] /\ q \in F \cup {Conf} /\ q \in Path /\ i \in Ids(T[q])
          /\ new[i].fp = d.fp
      BY <1>1, <1>4, <1>5, <2>1
    <3> HIDE DEF q
    <3>2. d \in T[q] /\ d.id = i
      BY <1>3, <3>1, DeclIs
    <3>3. d \in S[q] /\ S[q] \in Content(q)
      BY <1>1, <1>2, <3>1, <3>2 DEF IsText
    <3> HIDE DEF d
    <3>4. i \in Ids(S[q]) /\ DeclOf(S[q], i) = d
      BY <3>1, <3>2, <3>3, DeclUnique
    <3> QED
      BY <3>1, <3>4 DEF q
  <2>2. CASE i \notin DOMAIN new
    <3> DEFINE q == nodes[i].src
               d == DeclOf(seen[q], i)
    <3>1. /\ M[i] = nodes[i] /\ q \in Path \ C /\ i \in Ids(seen[q])
          /\ nodes[i].fp = d.fp
      BY <1>5, <1>8, <2>2
    <3> HIDE DEF q
    <3>2. d \in seen[q] /\ d.id = i
      BY <3>1, DeclIs DEF IsText
    <3>3. d \in S[q] /\ S[q] \in Content(q)
      BY <1>2, <3>1, <3>2 DEF IsText
    <3> HIDE DEF d
    <3>4. i \in Ids(S[q]) /\ DeclOf(S[q], i) = d
      BY <3>1, <3>2, <3>3, DeclUnique
    <3> QED
      BY <3>1, <3>4 DEF q
  <2> QED
    BY <2>1, <2>2
(* Edges.                                                                  *)
<1>15. edges = EdgesOf(seen, File)
  BY DEF Mirrors
<1>16. ASSUME NEW e \in EdgesOf(T, F) \cup KeptEdges(C, new)
       PROVE  e \in EdgesOf(S, File)
  <2>1. CASE e \in EdgesOf(T, F)
    <3>1. e.path \in C /\ e.path \in File
      BY <2>1, EdgeIs
    <3> QED
      BY <1>2, <2>1, <3>1 DEF EdgesOf
  <2>2. CASE e \in KeptEdges(C, new)
    <3>1. e \in EdgesOf(seen, File) /\ e.from \notin DOMAIN new \cup Lost(C, new)
      BY <1>15, <2>2 DEF KeptEdges
    <3>2. e \in Edge /\ e.path \in File /\ e.from \in Ids(seen[e.path])
      BY <3>1, EdgeIs
    <3>3. e.from \in Active /\ nodes[e.from].src = e.path
      BY <1>1, <1>9, <3>2 DEF Edge
    <3>4. e.path \notin C
      BY <3>1, <3>3 DEF Lost
    <3>5. S[e.path] = seen[e.path]
      BY <1>2, <3>2, <3>4
    <3> QED
      BY <3>1, <3>5 DEF EdgesOf
  <2> QED
    BY <2>1, <2>2
<1>17. ASSUME NEW e \in EdgesOf(S, File)
       PROVE  e \in EdgesOf(T, F) \cup KeptEdges(C, new)
  <2>1. e \in Edge /\ e.path \in File /\ e.from \in Ids(S[e.path]) /\ e.from \in Id
    BY EdgeIs DEF Edge
  <2>2. CASE e.path \in C
    <3>1. S[e.path] = T[e.path] /\ e.path \in F
      BY <1>2, <2>1, <2>2
    <3> QED
      BY <3>1 DEF EdgesOf
  <2>3. CASE e.path \notin C
    <3>1. S[e.path] = seen[e.path]
      BY <1>2, <2>1, <2>3
    <3>2. e \in edges
      BY <1>15, <3>1 DEF EdgesOf
    <3>3. e.from \notin DOMAIN new
      <4>1. SUFFICES ASSUME e.from \in DOMAIN new PROVE FALSE
        OBVIOUS
      <4>2. PICK q \in F \cup {Conf} : e.from \in Ids(T[q])
        BY <1>4, <4>1
      <4>3. q \in Path /\ e.path \in Path /\ e.from \in Ids(S[q])
        BY <1>1, <1>10, <2>1, <4>2
      <4>4. q = e.path
        BY <1>6, <2>1, <4>3
      <4> QED
        BY <1>1, <2>1, <2>3, <4>4
    <3>4. e.from \notin Lost(C, new)
      BY <1>1, <1>9, <2>1, <2>3, <3>1 DEF Lost
    <3> QED
      BY <3>2, <3>3, <3>4 DEF KeptEdges
  <2> QED
    BY <2>2, <2>3
<1>18. EdgesOf(T, F) \cup KeptEdges(C, new) = EdgesOf(S, File)
  BY <1>16, <1>17
<1>19. Mirrors(M, EdgesOf(T, F) \cup KeptEdges(C, new), S)
  BY <1>13, <1>14, <1>18 DEF Mirrors
<1> QED
  BY <1>19 DEF M, new, S

(* No edge outlives its source.                                            *)
Rooted(n, E) == \A e \in E : e.from \in ActiveIn(n)

LEMMA FullRooted ==
  ASSUME nodes \in Nodes, NEW T, IsText(T, Path), NEW r \in 0 .. MaxCommits
  PROVE  Rooted(FullNodes(Scanned(T, File, r)), EdgesOf(T, File))
<1> DEFINE new == Scanned(T, File, r)
<1>1. Path = File \cup {Conf} /\ \A p \in Path : T[p] \in Content(p)
  BY DEF IsText, Path
<1>2. /\ DOMAIN new \subseteq Id
      /\ \A i : i \in DOMAIN new <=> \E p \in Path : i \in Ids(T[p])
      /\ \A i \in DOMAIN new : new[i] \in Node /\ new[i].active
  BY <1>1, ScannedIs
<1> HIDE DEF new
<1>3. ActiveIn(FullNodes(new)) = DOMAIN new
  BY <1>2, FullNodesIs
<1>4. Rooted(FullNodes(new), EdgesOf(T, File))
  BY <1>1, <1>2, <1>3, EdgeIs DEF Rooted
<1> QED
  BY <1>4 DEF new

LEMMA IncrementalRooted ==
  ASSUME nodes \in Nodes, NEW C \in SUBSET Path,
         NEW T, IsText(T, C \cup {Conf}), NEW r \in 0 .. MaxCommits,
         Rooted(nodes, edges)
  PROVE  LET new == Scanned(T, C \cap File, r)
         IN Rooted(MergedNodes(C, new),
                   EdgesOf(T, C \cap File) \cup KeptEdges(C, new))
<1> DEFINE F == C \cap File
           new == Scanned(T, F, r)
<1>1. \A q \in F \cup {Conf} : T[q] \in Content(q)
  BY DEF IsText
<1>2. /\ DOMAIN new \subseteq Id
      /\ \A i : i \in DOMAIN new <=> \E q \in F \cup {Conf} : i \in Ids(T[q])
      /\ \A i \in DOMAIN new : new[i] \in Node /\ new[i].active
  BY <1>1, ScannedIs
<1> HIDE DEF new
<1>3. ActiveIn(MergedNodes(C, new))
        = DOMAIN new \cup {i \in Active : nodes[i].src \notin C}
  BY <1>2, MergedNodesIs
<1>4. ASSUME NEW e \in EdgesOf(T, F) \cup KeptEdges(C, new)
      PROVE  e.from \in ActiveIn(MergedNodes(C, new))
  <2>1. CASE e \in EdgesOf(T, F)
    BY <1>2, <1>3, <2>1, EdgeIs
  <2>2. CASE e \in KeptEdges(C, new)
    <3>1. e.from \in Active /\ e.from \notin DOMAIN new \cup Lost(C, new)
      BY <2>2 DEF KeptEdges, Rooted, Active
    <3> QED
      BY <1>3, <3>1 DEF Lost
  <2> QED
    BY <2>1, <2>2
<1> QED
  BY <1>4 DEF Rooted, new

LEMMA ReviewedRooted ==
  ASSUME nodes \in Nodes, NEW n \in Nodes, NEW E, NEW clean \in BOOLEAN,
         Rooted(n, E)
  PROVE  Rooted(Reviewed(n, E, clean), E)
BY ReviewedIs DEF Rooted

-----------------------------------------------------------------------------
(* The inductive invariant.  What a process is about to write must be      *)
(* right already: Replace only copies it.                                  *)

Fits(s) ==
  /\ s.pc = "scanned" /\ ~Incremental(s.goal) => s.paths = Path
  /\ s.pc = "merged" => /\ Sound(s.nodes, s.edges, s.seen, s.clash)
                        /\ Rooted(s.nodes, s.edges)

IInv ==
  /\ TypeOK
  /\ Sound(nodes, edges, seen, clash)
  /\ Rooted(nodes, edges)
  /\ \A p \in Proc : Fits(proc[p])

LEMMA InitIInv == Init => IInv
<1> SUFFICES ASSUME Init PROVE IInv
  OBVIOUS
<1>1. \A p \in Path : {} \in Content(p)
  BY DEF Content
<1>2. IsText(Start, Path) /\ IsText(seen, Path)
  BY <1>1, TreesAssumption DEF IsText, Init
<1>3. \A p \in Proc : proc[p] = Idle
  BY DEF Init
<1>4. TypeOK
  <2>1. \A t \in {tree, head, base, seen} : IsText(t, Path)
    BY <1>2 DEF Init
  <2>2. \A p \in Proc : IsProc(proc[p])
    BY <1>3 DEF IsProc
  <2>3. rev \in 0 .. MaxCommits /\ DOMAIN proc = Proc
    BY BoundsAssumption DEF Init
  <2>4. nodes \in [Id -> {NoNode} \cup Node] /\ versions \in [Id -> SUBSET Fp]
    BY DEF Init
  <2> QED
    BY <2>1, <2>2, <2>3, <2>4 DEF TypeOK, Init
<1>5. ActiveIn(nodes) = {}
  BY DEF ActiveIn, Init
<1>6. Mirrors(nodes, edges, seen) /\ ~Clash(seen)
  <2>1. \A p \in Path : seen[p] = {} /\ Ids(seen[p]) = {}
    BY DEF Init, Ids
  <2>2. EdgesOf(seen, File) = {}
    BY <2>1 DEF EdgesOf, Path
  <2> QED
    BY <1>5, <2>1, <2>2 DEF Mirrors, Clash, Init
<1>7. \A p \in Proc : Fits(proc[p])
  BY <1>3 DEF Fits, Idle
<1>8. Sound(nodes, edges, seen, clash) /\ Rooted(nodes, edges)
  BY <1>6 DEF Sound, Rooted, Init
<1> QED
  BY <1>4, <1>7, <1>8 DEF IInv

(* What a process holds at each point.                                     *)
LEMMA ProcIs ==
  ASSUME NEW s, IsProc(s)
  PROVE  /\ s.pc = "started" => s.goal \in {"verify", "rebuild"}
         /\ s.pc = "scanned" =>
              /\ s.goal \in Goal /\ s.paths \in SUBSET Path
              /\ s.rev \in 0 .. MaxCommits
              /\ IsText(s.text, s.paths \cup {Conf})
              /\ s.text \in [s.paths \cup {Conf} -> SUBSET Decl]
         /\ s.pc = "merged" =>
              /\ s.goal \in Goal /\ s.nodes \in Nodes /\ s.edges \subseteq Edge
              /\ s.record \subseteq Version /\ IsText(s.seen, Path)
              /\ s.clash \in BOOLEAN
         /\ s.pc = "recording" => s.goal \in Goal /\ s.record \subseteq Version
         /\ s.pc = "reviewing" => s.todo \subseteq Id
<1> USE DEF Idle
<1>1. CASE s \in {Idle, [pc |-> "verified"]}
  BY <1>1
<1>2. CASE s \in [pc : {"started"}, goal : {"verify", "rebuild"}]
  BY <1>2
<1>3. CASE \E C \in SUBSET Path :
             /\ s \in [pc : {"scanned"}, goal : Goal, paths : {C},
                       text : [C \cup {Conf} -> SUBSET Decl], rev : 0 .. MaxCommits]
             /\ IsText(s.text, C \cup {Conf})
  <2>1. PICK C \in SUBSET Path :
             /\ s \in [pc : {"scanned"}, goal : Goal, paths : {C},
                       text : [C \cup {Conf} -> SUBSET Decl], rev : 0 .. MaxCommits]
             /\ IsText(s.text, C \cup {Conf})
    BY <1>3
  <2>2. s.pc = "scanned" /\ s.goal \in Goal /\ s.rev \in 0 .. MaxCommits /\ s.paths = C
    BY <2>1
  <2> QED
    BY <2>1, <2>2
<1>4. CASE /\ s \in [pc : {"merged"}, goal : Goal, nodes : [Id -> {NoNode} \cup Node],
                     edges : SUBSET Edge, record : SUBSET Version,
                     seen : [Path -> SUBSET Decl], clash : BOOLEAN]
           /\ IsText(s.seen, Path)
  BY <1>4 DEF Nodes
<1>5. CASE s \in [pc : {"recording"}, goal : Goal, record : SUBSET Version]
  BY <1>5
<1>6. CASE s \in [pc : {"reviewing"}, todo : SUBSET Id]
  BY <1>6
<1> QED
  BY <1>1, <1>2, <1>3, <1>4, <1>5, <1>6 DEF IsProc

(* After a step of p that leaves it at s.                                  *)
LEMMA BecomeIs ==
  ASSUME IInv, NEW p \in Proc, NEW s, Become(p, s), IsProc(s), Fits(s)
  PROVE  /\ DOMAIN proc' = Proc
         /\ \A q \in Proc : IsProc(proc'[q]) /\ Fits(proc'[q])
BY DEF IInv, TypeOK, Become

LEMMA PlainFits ==
  ASSUME NEW s, s.pc \notin {"scanned", "merged"}
  PROVE  Fits(s)
BY DEF Fits

LEMMA AfterIs ==
  ASSUME NEW goal \in Goal
  PROVE  IsProc(After(goal)) /\ Fits(After(goal))
<1>1. CASE goal = "rebuild"
  BY <1>1, PlainFits DEF After, Started, IsProc
<1>2. CASE goal = "verify"
  BY <1>2, PlainFits DEF After, IsProc
<1>3. CASE goal \notin {"rebuild", "verify"}
  BY <1>3, PlainFits DEF After, Idle, IsProc
<1> QED
  BY <1>1, <1>2, <1>3

LEMMA RecordingIs ==
  ASSUME NEW goal \in Goal, NEW all \in SUBSET Version
  PROVE  IsProc(Recording(goal, all)) /\ Fits(Recording(goal, all))
<1> DEFINE left == {v \in all : v.fp \notin versions[v.id]}
           s == [pc |-> "recording", goal |-> goal, record |-> left]
<1>1. s \in [pc : {"recording"}, goal : Goal, record : SUBSET Version]
  OBVIOUS
<1>2. IsProc(s) /\ Fits(s)
  BY <1>1, PlainFits DEF IsProc
<1>3. Recording(goal, all) = IF left = {} THEN After(goal) ELSE s
  BY DEF Recording
<1> QED
  BY <1>2, <1>3, AfterIs

-----------------------------------------------------------------------------
(* Every step preserves the invariant.                                     *)

(* A step that writes to nothing but a process.                            *)
LEMMA ProcStep ==
  ASSUME IInv, NEW p \in Proc, NEW s, Become(p, s), IsProc(s), Fits(s),
         UNCHANGED <<git, graph, versions>>,
         over' \subseteq Proc, rushed' \subseteq Proc
  PROVE  IInv'
<1>1. DOMAIN proc' = Proc /\ \A q \in Proc : IsProc(proc'[q]) /\ Fits(proc'[q])
  BY BecomeIs
<1>2. TypeOK'
  BY <1>1 DEF IInv, TypeOK, git, graph
<1> QED
  BY <1>1, <1>2 DEF IInv, graph, Sound, Mirrors, Clash, Rooted

LEMMA ScanNext ==
  ASSUME IInv, NEW p \in Proc, NEW goal \in Goal, Scan(p, goal)
  PROVE  IInv'
<1> DEFINE C == IF Incremental(goal) THEN ChangeSet ELSE Path
           t == [q \in C \cup {Conf} |-> tree[q]]
           s == [pc |-> "scanned", goal |-> goal, paths |-> C, text |-> t,
                 rev |-> rev]
<1>1. C \in SUBSET Path /\ C \cup {Conf} \subseteq Path
  BY DEF ChangeSet, Path
<1>2. TypeOK /\ IsText(tree, Path)
  BY DEF IInv, TypeOK
<1>3. IsText(t, C \cup {Conf}) /\ t \in [C \cup {Conf} -> SUBSET Decl]
  BY <1>1, <1>2 DEF IsText, Content
<1>4. ~Incremental(goal) => C = Path
  OBVIOUS
<1>5. Become(p, IF C = {} THEN After(goal) ELSE s)
  BY DEF Scan
<1> HIDE DEF C, t
<1>6. IsProc(s)
  BY <1>1, <1>2, <1>3 DEF IsProc, TypeOK
<1>7. Fits(s)
  BY <1>4 DEF Fits
<1>8. UNCHANGED <<git, graph, versions>> /\ over' \subseteq Proc /\ rushed' \subseteq Proc
  BY <1>2 DEF Scan, TypeOK
<1> QED
  BY <1>5, <1>6, <1>7, <1>8, AfterIs, ProcStep

(* What Merge leaves to be written.                                        *)
LEMMA MergeNext ==
  ASSUME IInv, NEW p \in Proc, Merge(p)
  PROVE  IInv'
<1> DEFINE goal == proc[p].goal
           C == proc[p].paths
           T == proc[p].text
           r == proc[p].rev
           new == Scanned(T, C \cap File, r)
           inc == Incremental(goal)
           n == IF inc THEN MergedNodes(C, new) ELSE FullNodes(new)
           E == EdgesOf(T, C \cap File) \cup IF inc THEN KeptEdges(C, new) ELSE {}
           R == Reviewed(n, E, goal = "clean")
           I == IF inc THEN DOMAIN new ELSE Id
           S == Said(C, T)
           c == Clash(S) \/ (inc /\ clash)
           s == [pc |-> "merged", goal |-> goal, nodes |-> R, edges |-> E,
                 record |-> VersionsIn(n, I), seen |-> S, clash |-> c]
<1>1. /\ TypeOK /\ Sound(nodes, edges, seen, clash) /\ Rooted(nodes, edges)
      /\ nodes \in Nodes /\ IsText(seen, Path) /\ edges \subseteq Edge
      /\ clash \in BOOLEAN
  BY DEF IInv, TypeOK, Nodes
<1>2. /\ proc[p].pc = "scanned" /\ IsProc(proc[p])
      /\ ~inc => C = Path
  BY <1>1 DEF Merge, At, IInv, TypeOK, Fits
<1>3. /\ goal \in Goal /\ C \in SUBSET Path /\ r \in 0 .. MaxCommits
      /\ IsText(T, C \cup {Conf}) /\ T \in [C \cup {Conf} -> SUBSET Decl]
  BY <1>2, ProcIs
<1>4. Become(p, s) /\ UNCHANGED <<git, graph, versions, over, rushed>>
  BY DEF Merge
<1> HIDE DEF goal, C, T, r
<1>5. /\ DOMAIN new \subseteq Id
      /\ \A i \in DOMAIN new : new[i] \in Node /\ new[i].active
  BY <1>3, ScannedIs DEF IsText
<1>6. ~inc => T = S /\ C \cap File = File /\ IsText(T, Path)
  <2> SUFFICES ASSUME ~inc PROVE T = S /\ C \cap File = File /\ IsText(T, Path)
    OBVIOUS
  <2>1. C = Path /\ C \cup {Conf} = Path /\ C \cap File = File
    BY <1>2 DEF Path
  <2>2. IsText(T, Path) /\ IsText(S, Path) /\ \A q \in Path : S[q] = T[q]
    BY <1>1, <1>3, <2>1, SaidIs
  <2>3. T = [q \in Path |-> T[q]] /\ S = [q \in Path |-> T[q]]
    BY <1>2, <1>3, <2>1 DEF Said
  <2> QED
    BY <2>1, <2>2, <2>3
<1>7. n \in Nodes
  BY <1>1, <1>3, <1>5, FullNodesIs, MergedNodesIs
<1>8. (goal = "clean") \in BOOLEAN
  OBVIOUS
<1>9. Rooted(R, E)
  <2>1. Rooted(n, E)
    BY <1>1, <1>3, <1>6, FullRooted, IncrementalRooted
  <2> QED
    BY <1>1, <1>7, <1>8, <2>1, ReviewedRooted
<1>10. Sound(R, E, S, c)
  <2> SUFFICES ASSUME ~c PROVE ~Clash(S) /\ Mirrors(R, E, S)
    BY DEF Sound
  <2>1. Mirrors(n, E, S)
    <3>1. CASE inc
      BY <1>1, <1>3, <3>1, IncrementalMirrors DEF Sound
    <3>2. CASE ~inc
      BY <1>1, <1>3, <1>6, <3>2, FullMirrors
    <3> QED
      BY <3>1, <3>2
  <2> QED
    BY <1>1, <1>7, <1>8, <2>1, ReviewedMirrors
<1>11. IsText(S, Path) /\ S \in [Path -> SUBSET Decl]
  <2>1. IsText(S, Path)
    BY <1>1, <1>3, SaidIs
  <2>2. S = [q \in Path |-> S[q]]
    BY DEF Said
  <2> QED
    BY <2>1, <2>2 DEF IsText, Content
<1>12. R \in [Id -> {NoNode} \cup Node]
  BY <1>1, <1>7, <1>8, ReviewedIs DEF Nodes
<1>13. E \subseteq Edge
  BY <1>1 DEF EdgesOf, KeptEdges
<1>14. VersionsIn(n, I) \subseteq Version
  <2>1. ASSUME NEW j \in I, n[j] # NoNode, n[j].fp # NoFp
        PROVE  [id |-> j, fp |-> n[j].fp] \in Version
    <3>1. j \in Id
      BY <1>5, <2>1
    <3>2. n[j] \in Node
      BY <1>7, <2>1, <3>1 DEF Nodes
    <3> QED
      BY <2>1, <3>1, <3>2, NodeIs DEF Version
  <2> QED
    BY <2>1 DEF VersionsIn
<1>15. c \in BOOLEAN
  BY <1>1
<1> HIDE DEF R, E, S, c, n, I
<1>16. IsProc(s)
  BY <1>3, <1>11, <1>12, <1>13, <1>14, <1>15 DEF IsProc
<1>17. Fits(s)
  BY <1>9, <1>10 DEF Fits
<1>18. over' \subseteq Proc /\ rushed' \subseteq Proc
  BY <1>1, <1>4 DEF TypeOK
<1> QED
  BY <1>4, <1>16, <1>17, <1>18, ProcStep

LEMMA ReplaceNext ==
  ASSUME IInv, NEW p \in Proc, Replace(p)
  PROVE  IInv'
<1>1. /\ proc[p].pc = "merged" /\ IsProc(proc[p]) /\ Fits(proc[p])
      /\ over \subseteq Proc /\ rushed \subseteq Proc
  BY DEF Replace, At, IInv, TypeOK
<1>2. /\ proc[p].goal \in Goal /\ nodes' \in Nodes /\ edges' \subseteq Edge
      /\ proc[p].record \subseteq Version /\ IsText(seen', Path)
      /\ clash' \in BOOLEAN
  BY <1>1, ProcIs DEF Replace
<1>3. DOMAIN proc' = Proc /\ \A q \in Proc : IsProc(proc'[q]) /\ Fits(proc'[q])
  BY <1>2, RecordingIs, BecomeIs DEF Replace
<1>4. over' \subseteq Proc /\ rushed' \subseteq Proc
  BY <1>1 DEF Replace, Overtaking
<1>5. TypeOK'
  BY <1>2, <1>3, <1>4 DEF IInv, TypeOK, Replace, git, Nodes
<1>6. Sound(nodes, edges, seen, clash)' /\ Rooted(nodes, edges)'
  <2>1. /\ Sound(proc[p].nodes, proc[p].edges, proc[p].seen, proc[p].clash)
        /\ Rooted(proc[p].nodes, proc[p].edges)
    BY <1>1 DEF Fits
  <2> QED
    BY <2>1 DEF Replace, Sound, Mirrors, Clash, Rooted
<1> QED
  BY <1>3, <1>5, <1>6 DEF IInv

LEMMA RecordNext ==
  ASSUME IInv, NEW p \in Proc, NEW v \in Version, Record(p, v)
  PROVE  IInv'
<1>1. /\ proc[p].pc = "recording" /\ IsProc(proc[p])
      /\ over \subseteq Proc /\ versions \in [Id -> SUBSET Fp]
  BY DEF Record, At, IInv, TypeOK
<1>2. proc[p].goal \in Goal /\ proc[p].record \subseteq Version
  BY <1>1, ProcIs
<1>3. DOMAIN proc' = Proc /\ \A q \in Proc : IsProc(proc'[q]) /\ Fits(proc'[q])
  BY <1>2, RecordingIs, BecomeIs DEF Record
<1>4. over' \subseteq Proc
  BY <1>1 DEF Record, Overtaking
<1>5. versions' \in [Id -> SUBSET Fp]
  BY <1>1 DEF Record, Version
<1>6. TypeOK'
  BY <1>3, <1>4, <1>5 DEF IInv, TypeOK, Record, git, graph
<1> QED
  BY <1>3, <1>6 DEF IInv, Record, graph, Sound, Mirrors, Clash, Rooted

LEMMA ClosureIs ==
  ASSUME NEW i \in Id PROVE Closure(i) \subseteq Id
BY DEF Closure

LEMMA ReviewNodeNext ==
  ASSUME IInv, NEW p \in Proc, NEW i \in Id, ReviewNode(p, i)
  PROVE  IInv'
<1> DEFINE todo == proc[p].todo \ {i}
           s == IF todo = {} THEN Idle ELSE [pc |-> "reviewing", todo |-> todo]
<1>1. /\ proc[p].pc = "reviewing" /\ IsProc(proc[p])
      /\ over \subseteq Proc /\ nodes \in Nodes
  BY DEF ReviewNode, At, IInv, TypeOK, Nodes
<1>2. todo \subseteq Id
  BY <1>1, ProcIs
<1>3. Become(p, s)
  BY DEF ReviewNode
<1> HIDE DEF todo
<1>4. IsProc(s) /\ Fits(s)
  BY <1>2, PlainFits DEF IsProc, Idle
<1>5. DOMAIN proc' = Proc /\ \A q \in Proc : IsProc(proc'[q]) /\ Fits(proc'[q])
  BY <1>3, <1>4, BecomeIs
<1>6. over' \subseteq Proc
  BY <1>1 DEF ReviewNode, Overtaking
<1>7. ASSUME NEW j \in Id
      PROVE  /\ nodes'[j] \in {NoNode} \cup Node
             /\ (nodes'[j] = NoNode) <=> (nodes[j] = NoNode)
             /\ nodes[j] # NoNode => /\ nodes'[j].active = nodes[j].active
                                     /\ nodes'[j].src = nodes[j].src
                                     /\ nodes'[j].fp = nodes[j].fp
  <2>1. CASE nodes' = nodes
    BY <1>1, <2>1 DEF Nodes
  <2>2. CASE nodes[i] # NoNode /\ nodes' = [nodes EXCEPT ![i].status = "reviewed"]
    <3>1. CASE j # i
      BY <1>1, <2>2, <3>1 DEF Nodes
    <3>2. CASE j = i
      <4>1. nodes[i] \in Node
        BY <1>1, <2>2 DEF Nodes
      <4>2. nodes'[i] = [nodes[i] EXCEPT !.status = "reviewed"]
        BY <1>1, <2>2 DEF Nodes
      <4>3. [nodes[i] EXCEPT !.status = "reviewed"] \in Node
        BY <4>1, NodeSet DEF Status
      <4>4. /\ [nodes[i] EXCEPT !.status = "reviewed"].active = nodes[i].active
            /\ [nodes[i] EXCEPT !.status = "reviewed"].src = nodes[i].src
            /\ [nodes[i] EXCEPT !.status = "reviewed"].fp = nodes[i].fp
        BY <4>1 DEF Node, NodeAt
      <4> QED
        BY <2>2, <3>2, <4>2, <4>3, <4>4, NodeIs
    <3> QED
      BY <3>1, <3>2
  <2> QED
    BY <2>1, <2>2 DEF ReviewNode
<1>8. nodes' \in [Id -> {NoNode} \cup Node]
  <2>1. nodes' = [j \in Id |-> nodes'[j]]
    BY <1>1 DEF ReviewNode, Nodes
  <2> QED
    BY <1>7, <2>1
<1>9. /\ ActiveIn(nodes') = ActiveIn(nodes)
      /\ \A j \in ActiveIn(nodes) :
           nodes'[j].src = nodes[j].src /\ nodes'[j].fp = nodes[j].fp
  BY <1>7 DEF ActiveIn
<1>10. UNCHANGED <<git, edges, seen, clash, versions, rushed>>
  BY DEF ReviewNode
<1>11. TypeOK'
  BY <1>5, <1>6, <1>8, <1>10 DEF IInv, TypeOK, git
<1>12. Sound(nodes, edges, seen, clash)'
  <2> SUFFICES ASSUME ~clash, ~Clash(seen), Mirrors(nodes, edges, seen)
               PROVE  Mirrors(nodes', edges, seen)
    BY <1>10 DEF IInv, Sound, Mirrors, Clash
  <2> QED
    BY <1>9 DEF Mirrors
<1>13. Rooted(nodes, edges)'
  BY <1>9, <1>10 DEF IInv, Rooted
<1> QED
  BY <1>5, <1>11, <1>12, <1>13 DEF IInv

(* Editors and commits.                                                    *)
LEMMA GitNext ==
  ASSUME IInv, Commit \/ \E p \in Path : \E c \in Draft[p] : Edit(p, c)
  PROVE  IInv'
<1>1. \A t \in {tree', head', base', seen'} : IsText(t, Path)
  <2>1. CASE Commit
    BY <2>1 DEF Commit, graph, IInv, TypeOK
  <2>2. ASSUME NEW p \in Path, NEW c \in Draft[p], Edit(p, c)
        PROVE  IsText(tree', Path) /\ UNCHANGED <<head, base, seen>>
    <3>1. c \in Content(p)
      BY TreesAssumption
    <3> QED
      BY <2>2, <3>1 DEF Edit, graph, IInv, TypeOK, IsText
  <2> QED
    BY <2>1, <2>2 DEF IInv, TypeOK
<1>2. /\ rev' \in 0 .. MaxCommits /\ rushed' \subseteq Proc
      /\ UNCHANGED <<graph, versions, proc, over>>
  <2>1. CASE Commit
    BY <2>1, BoundsAssumption DEF Commit, IInv, TypeOK
  <2>2. CASE \E p \in Path : \E c \in Draft[p] : Edit(p, c)
    BY <2>2 DEF Edit, IInv, TypeOK
  <2> QED
    BY <2>1, <2>2
<1>3. TypeOK'
  BY <1>1, <1>2 DEF IInv, TypeOK, graph
<1> QED
  BY <1>2, <1>3 DEF IInv, graph, Sound, Mirrors, Clash, Rooted

LEMMA NextIInv == IInv /\ [Next]_vars => IInv'
<1> SUFFICES ASSUME IInv, [Next]_vars PROVE IInv'
  OBVIOUS
<1>0. over \subseteq Proc /\ rushed \subseteq Proc /\ \A p \in Proc : IsProc(proc[p])
  BY DEF IInv, TypeOK
<1>1. CASE UNCHANGED vars
  BY <1>1 DEF vars, git, graph, IInv, TypeOK, Sound, Mirrors, Clash, Rooted
<1>2. CASE Commit \/ \E p \in Path : \E c \in Draft[p] : Edit(p, c)
  BY <1>2, GitNext
<1>3. ASSUME NEW p \in Proc, NEW goal \in Job[p], Run(p, goal) PROVE IInv'
  BY <1>3, ScanNext DEF Run, Goal
<1>4. ASSUME NEW p \in Proc, Verify(p) PROVE IInv'
  <2> DEFINE s == Started(IF MustRebuild THEN "rebuild" ELSE "verify")
  <2>1. IsProc(s) /\ Fits(s)
    BY PlainFits DEF Started, IsProc
  <2>2. Become(p, s) /\ UNCHANGED <<git, graph, versions, over, rushed>>
    BY <1>4 DEF Verify
  <2> HIDE DEF s
  <2> QED
    BY <1>0, <2>1, <2>2, ProcStep
<1>5. ASSUME NEW p \in Proc, VerifyScan(p) PROVE IInv'
  <2>1. proc[p].goal \in Goal
    BY <1>0, <1>5, ProcIs DEF VerifyScan, At, Goal
  <2> QED
    BY <1>5, <2>1, ScanNext DEF VerifyScan
<1>6. ASSUME NEW p \in Proc, Evaluated(p) \/ Kill(p) PROVE IInv'
  <2>1. IsProc(Idle) /\ Fits(Idle)
    BY PlainFits DEF Idle, IsProc
  <2> QED
    BY <1>0, <1>6, <2>1, ProcStep DEF Evaluated, Kill
<1>7. ASSUME NEW p \in Proc, NEW i \in Id, Review(p, i) PROVE IInv'
  <2> DEFINE s == [pc |-> "reviewing", todo |-> Closure(i)]
  <2>1. Become(p, s) /\ UNCHANGED <<git, graph, versions, over, rushed>>
    BY <1>7 DEF Review
  <2>2. IsProc(s) /\ Fits(s)
    BY ClosureIs, PlainFits DEF IsProc
  <2> QED
    BY <1>0, <2>1, <2>2, ProcStep
<1> QED
  BY <1>1, <1>2, <1>3, <1>4, <1>5, <1>6, <1>7,
     MergeNext, ReplaceNext, RecordNext, ReviewNodeNext DEF Next

LEMMA IInvAlways == Spec => []IInv
BY InitIInv, NextIInv, PTL DEF Spec

(* Every variable of the index, and of the processes that run on it, stays *)
(* within its type: a node of work.toml never gets a fingerprint, however  *)
(* indexes overlap.                                                        *)
THEOREM TypeCorrect == Spec => []TypeOK
<1>1. IInv => TypeOK
  BY DEF IInv
<1> QED
  BY <1>1, IInvAlways, PTL

(* The store says what each path declared when it was last indexed, for    *)
(* any files, ids, edits, commits and processes, some of them killed.      *)
THEOREM StoreMirrors == Spec => []StoreMirrorsSeen
<1>1. IInv => StoreMirrorsSeen
  BY DEF IInv, Sound, StoreMirrorsSeen
<1> QED
  BY <1>1, IInvAlways, PTL

(* No edge is left in the store without the node that declared it, even    *)
(* when paths declare the same id.                                         *)
THEOREM EdgesRooted == Spec => []EdgesHaveActiveSource
<1>1. IInv => EdgesHaveActiveSource
  BY DEF IInv, Rooted, EdgesHaveActiveSource, Active
<1> QED
  BY <1>1, IInvAlways, PTL

-----------------------------------------------------------------------------
(* Review states.                                                          *)

(* What the staleness pass makes of a node.                                *)
LEMMA ReviewedAs ==
  ASSUME nodes \in Nodes, NEW n \in Nodes, NEW E, NEW clean \in BOOLEAN,
         NEW i \in Id
  PROVE  LET R == Reviewed(n, E, clean)
             dependents == {e.from : e \in {f \in E : f.to \in HasChanged(n)}}
         IN /\ R[i] = NoNode <=> n[i] = NoNode
            /\ n[i] # NoNode =>
                 /\ R[i].active = n[i].active /\ R[i].fp = n[i].fp
                 /\ R[i].rev = n[i].rev
                 /\ R[i].status = IF i \in dependents THEN "stale"
                                  ELSE IF i \in HasChanged(n) THEN "current"
                                  ELSE Carried(n, i, clean)
<1> DEFINE R == Reviewed(n, E, clean)
           dependents == {e.from : e \in {f \in E : f.to \in HasChanged(n)}}
           s == IF i \in dependents THEN "stale"
                ELSE IF i \in HasChanged(n) THEN "current"
                ELSE Carried(n, i, clean)
<1>1. CASE n[i] = NoNode
  BY <1>1 DEF Reviewed
<1>2. CASE n[i] # NoNode
  <2>1. n[i] \in Node
    BY <1>2 DEF Nodes
  <2>2. R[i] = [n[i] EXCEPT !.status = s]
    BY <1>2 DEF Reviewed
  <2> HIDE DEF R, s
  <2>3. /\ [n[i] EXCEPT !.status = s].active = n[i].active
        /\ [n[i] EXCEPT !.status = s].fp = n[i].fp
        /\ [n[i] EXCEPT !.status = s].rev = n[i].rev
        /\ [n[i] EXCEPT !.status = s].status = s
    BY <2>1 DEF Node, NodeAt
  <2>4. [n[i] EXCEPT !.status = s] # NoNode
    <3>1. "fp" \in DOMAIN n[i]
      BY <2>1 DEF Node, NodeAt
    <3>2. "fp" \in DOMAIN [n[i] EXCEPT !.status = s]
      BY <3>1
    <3>3. "fp" \notin DOMAIN NoNode
      BY DEF NoNode
    <3> QED
      BY <3>2, <3>3
  <2> QED
    BY <1>2, <2>2, <2>3, <2>4 DEF s, R
<1> QED
  BY <1>1, <1>2

(* What is to be written leaves what is stale so, unless it changed itself. *)
Keeps(n) ==
  \A i \in Id :
    (nodes[i] # NoNode /\ nodes[i].status = "stale" /\ n[i] # NoNode) =>
      n[i].status # "current" \/ versions[i] \ {n[i].fp} # {}

(* And it marks the dependents of each recorded artifact that is new.      *)
Notes(n, E) ==
  \A i \in Active :
    (nodes[i].fp \in versions[i] /\ n[i].fp \in Fp \ {nodes[i].fp}) =>
      \A e \in E : e.to = i => n[e.from].status = "stale"

(* That is so as long as nobody writes to the store after the merge.       *)
Aware ==
  \A p \in Proc \ over : proc[p].pc = "merged" =>
    /\ proc[p].goal # "clean" => Keeps(proc[p].nodes)
    /\ Notes(proc[p].nodes, proc[p].edges)

LEMMA ReviewedKeeps ==
  ASSUME nodes \in Nodes, NEW n \in Nodes, NEW E, NEW clean \in BOOLEAN, ~clean
  PROVE  Keeps(Reviewed(n, E, clean))
<1> DEFINE R == Reviewed(n, E, clean)
<1> SUFFICES ASSUME NEW i \in Id, nodes[i] # NoNode, nodes[i].status = "stale",
                    R[i] # NoNode, R[i].status = "current"
             PROVE  versions[i] \ {R[i].fp} # {}
  BY DEF Keeps
<1>1. n[i] # NoNode /\ R[i].fp = n[i].fp
  BY ReviewedAs
<1>2. Carried(n, i, clean) = "stale"
  BY DEF Carried
<1>3. i \in HasChanged(n)
  BY <1>1, <1>2, ReviewedAs
<1> QED
  BY <1>1, <1>3 DEF HasChanged

(* An active node stays one, or becomes an inactive one.                   *)
LEMMA ActiveStays ==
  ASSUME nodes \in Nodes, NEW C \in SUBSET Path, NEW i \in Active,
         NEW new, \A j \in DOMAIN new : new[j] \in Node
  PROVE  MergedNodes(C, new)[i] # NoNode /\ FullNodes(new)[i] # NoNode
<1>1. i \in Id /\ nodes[i] \in Node
  BY DEF Active, ActiveIn, Nodes
<1>2. nodes[i] # NoNode /\ Inactive(nodes[i]) # NoNode
  BY <1>1, NodeIs, NodeSet DEF Inactive
<1>3. CASE i \in DOMAIN new
  BY <1>1, <1>3, NodeIs DEF MergedNodes, FullNodes
<1>4. CASE i \notin DOMAIN new
  <2>1. i \in Lost(C, new) \/ nodes[i].src \notin C
    BY <1>4 DEF Lost
  <2> QED
    BY <1>1, <1>2, <1>4, <2>1 DEF MergedNodes, FullNodes
<1> QED
  BY <1>3, <1>4

LEMMA ReviewedNotes ==
  ASSUME nodes \in Nodes, NEW n \in Nodes, NEW E, NEW clean \in BOOLEAN,
         \A i \in Active : n[i] # NoNode,
         Rooted(n, E)
  PROVE  Notes(Reviewed(n, E, clean), E)
<1> DEFINE R == Reviewed(n, E, clean)
<1> SUFFICES ASSUME NEW i \in Active, nodes[i].fp \in versions[i],
                    R[i].fp \in Fp \ {nodes[i].fp},
                    NEW e \in E, e.to = i
             PROVE  R[e.from].status = "stale"
  BY DEF Notes
<1>1. i \in Id /\ n[i] # NoNode /\ R[i].fp = n[i].fp
  BY ReviewedAs DEF Active, ActiveIn
<1>2. n[i].fp # NoFp
  BY <1>1, NamesAssumption
<1>3. i \in HasChanged(n)
  BY <1>1, <1>2 DEF HasChanged
<1>4. e.from \in Id /\ n[e.from] # NoNode
  BY DEF Rooted, ActiveIn
<1>5. e.from \in {f.from : f \in {g \in E : g.to \in HasChanged(n)}}
  BY <1>3
<1> QED
  BY <1>4, <1>5, ReviewedAs

-----------------------------------------------------------------------------
(* Every step preserves Aware.                                             *)

LEMMA InitAware == Init => Aware
BY DEF Init, Aware, Idle

(* A step of p that writes nothing to the store and merges nothing.        *)
LEMMA QuietAware ==
  ASSUME TypeOK, Aware, NEW p \in Proc, NEW s, Become(p, s), s.pc # "merged",
         UNCHANGED <<graph, versions>>, over \ {p} \subseteq over'
  PROVE  Aware'
<1>1. proc'[p] = s /\ \A q \in Proc \ {p} : proc'[q] = proc[q]
  BY DEF Become, TypeOK
<1> SUFFICES ASSUME NEW q \in Proc \ over', proc'[q].pc = "merged"
             PROVE  /\ proc'[q].goal # "clean" => Keeps(proc[q].nodes)'
                    /\ Notes(proc[q].nodes, proc[q].edges)'
  BY DEF Aware
<1>2. q # p /\ proc'[q] = proc[q] /\ q \in Proc \ over
  BY <1>1
<1> QED
  BY <1>2 DEF Aware, Keeps, Notes, graph, Active

(* A step of p that writes to the store: whoever has merged is overtaken.  *)
LEMMA LoudAware ==
  ASSUME TypeOK, NEW p \in Proc, NEW s, Become(p, s), s.pc # "merged",
         over' = Overtaking(p)
  PROVE  Aware'
<1>1. proc'[p] = s /\ \A q \in Proc \ {p} : proc'[q] = proc[q]
  BY DEF Become, TypeOK
<1>2. \A q \in Proc \ over' : proc'[q].pc # "merged"
  BY <1>1 DEF Overtaking, At
<1> QED
  BY <1>2 DEF Aware

LEMMA RecordingAt ==
  ASSUME NEW goal, NEW all
  PROVE  Recording(goal, all).pc \in {"recording", "started", "verified", "idle"}
BY DEF Recording, After, Started, Idle

LEMMA MergeAware ==
  ASSUME IInv, Aware, NEW p \in Proc, Merge(p)
  PROVE  Aware'
<1> DEFINE goal == proc[p].goal
           C == proc[p].paths
           T == proc[p].text
           r == proc[p].rev
           new == Scanned(T, C \cap File, r)
           inc == Incremental(goal)
           n == IF inc THEN MergedNodes(C, new) ELSE FullNodes(new)
           E == EdgesOf(T, C \cap File) \cup IF inc THEN KeptEdges(C, new) ELSE {}
           clean == goal = "clean"
           R == Reviewed(n, E, clean)
<1>1. /\ TypeOK /\ Rooted(nodes, edges) /\ nodes \in Nodes
  BY DEF IInv, TypeOK, Nodes
<1>2. /\ proc[p].pc = "scanned" /\ IsProc(proc[p])
      /\ ~inc => C = Path
  BY <1>1 DEF Merge, At, IInv, TypeOK, Fits
<1>3. /\ C \in SUBSET Path /\ r \in 0 .. MaxCommits /\ IsText(T, C \cup {Conf})
  BY <1>2, ProcIs
<1>4. /\ proc'[p].pc = "merged" /\ proc'[p].goal = goal
      /\ proc'[p].nodes = R /\ proc'[p].edges = E
      /\ \A q \in Proc \ {p} : proc'[q] = proc[q]
      /\ UNCHANGED <<graph, versions, over>>
  BY <1>1 DEF Merge, Become, TypeOK
<1> HIDE DEF goal, C, T, r
<1>5. /\ DOMAIN new \subseteq Id
      /\ \A i \in DOMAIN new : new[i] \in Node /\ new[i].active
  BY <1>3, ScannedIs DEF IsText
<1>6. n \in Nodes /\ \A i \in Active : n[i] # NoNode
  <2>1. n \in Nodes
    BY <1>1, <1>3, <1>5, FullNodesIs, MergedNodesIs
  <2>2. ASSUME NEW i \in Active PROVE n[i] # NoNode
    <3> HIDE DEF new
    <3>1. MergedNodes(C, new)[i] # NoNode /\ FullNodes(new)[i] # NoNode
      BY <1>1, <1>3, <1>5, ActiveStays
    <3> QED
      BY <3>1
  <2> QED
    BY <2>1, <2>2
<1>7. Rooted(n, E)
  <2>1. CASE inc
    BY <1>1, <1>3, <2>1, IncrementalRooted
  <2>2. CASE ~inc
    <3>1. C \cup {Conf} = Path /\ C \cap File = File
      BY <1>2, <2>2 DEF Path
    <3> QED
      BY <1>1, <1>3, <2>2, <3>1, FullRooted
  <2> QED
    BY <2>1, <2>2
<1>8. clean \in BOOLEAN
  OBVIOUS
<1> HIDE DEF n, E, clean
<1>9. ~clean => Keeps(R)
  BY <1>1, <1>6, <1>8, ReviewedKeeps
<1>10. Notes(R, E)
  BY <1>1, <1>6, <1>7, <1>8, ReviewedNotes
<1> HIDE DEF R
<1> SUFFICES ASSUME NEW q \in Proc \ over', proc'[q].pc = "merged"
             PROVE  /\ proc'[q].goal # "clean" => Keeps(proc[q].nodes)'
                    /\ Notes(proc[q].nodes, proc[q].edges)'
  BY DEF Aware
<1>11. CASE q = p
  BY <1>4, <1>9, <1>10, <1>11 DEF clean, Keeps, Notes, graph, Active
<1>12. CASE q # p
  BY <1>4, <1>12 DEF Aware, Keeps, Notes, graph, Active
<1> QED
  BY <1>11, <1>12

LEMMA ReviewNodeAware ==
  ASSUME TypeOK, Aware, NEW p \in Proc, NEW i \in Id, ReviewNode(p, i)
  PROVE  Aware'
<1> DEFINE todo == proc[p].todo \ {i}
           s == IF todo = {} THEN Idle ELSE [pc |-> "reviewing", todo |-> todo]
<1>1. Become(p, s) /\ UNCHANGED <<edges, seen, clash, versions>>
  BY DEF ReviewNode
<1>2. s.pc # "merged"
  BY DEF Idle
<1> HIDE DEF s
<1>3. CASE over' = Overtaking(p)
  BY <1>1, <1>2, <1>3, LoudAware
<1>4. CASE nodes' = nodes /\ over' = over
  BY <1>1, <1>2, <1>4, QuietAware DEF graph
<1> QED
  BY <1>3, <1>4 DEF ReviewNode

LEMMA NextAware == IInv /\ Aware /\ [Next]_vars => Aware'
<1> SUFFICES ASSUME IInv, Aware, [Next]_vars PROVE Aware'
  OBVIOUS
<1>0. TypeOK
  BY DEF IInv
<1>1. CASE \/ UNCHANGED vars
           \/ Commit
           \/ \E p \in Path : \E c \in Draft[p] : Edit(p, c)
  <2>1. UNCHANGED <<graph, versions, proc, over>>
    BY <1>1 DEF vars, Commit, Edit
  <2> QED
    BY <2>1 DEF Aware, Keeps, Notes, graph, Active
<1>2. ASSUME NEW p \in Proc, NEW goal, Scan(p, goal) PROVE Aware'
  <2> DEFINE C == IF Incremental(goal) THEN ChangeSet ELSE Path
             s == IF C = {} THEN After(goal)
                  ELSE [pc |-> "scanned", goal |-> goal, paths |-> C,
                        text |-> [q \in C \cup {Conf} |-> tree[q]], rev |-> rev]
  <2>1. Become(p, s) /\ UNCHANGED <<graph, versions, over>>
    BY <1>2 DEF Scan
  <2>2. s.pc # "merged"
    BY DEF After, Started, Idle
  <2> HIDE DEF s
  <2> QED
    BY <1>0, <2>1, <2>2, QuietAware
<1>3. ASSUME NEW p \in Proc, Verify(p) PROVE Aware'
  <2> DEFINE s == Started(IF MustRebuild THEN "rebuild" ELSE "verify")
  <2>1. Become(p, s) /\ UNCHANGED <<graph, versions, over>>
    BY <1>3 DEF Verify
  <2>2. s.pc # "merged"
    BY DEF Started
  <2> HIDE DEF s
  <2> QED
    BY <1>0, <2>1, <2>2, QuietAware
<1>4. ASSUME NEW p \in Proc, Evaluated(p) \/ Kill(p) PROVE Aware'
  <2>1. /\ Become(p, Idle) /\ UNCHANGED <<graph, versions>>
        /\ over \ {p} \subseteq over'
    BY <1>4 DEF Evaluated, Kill
  <2>2. Idle.pc # "merged"
    BY DEF Idle
  <2> QED
    BY <1>0, <2>1, <2>2, QuietAware
<1>5. ASSUME NEW p \in Proc, NEW i \in Id, Review(p, i) PROVE Aware'
  <2> DEFINE s == [pc |-> "reviewing", todo |-> Closure(i)]
  <2>1. Become(p, s) /\ UNCHANGED <<graph, versions, over>>
    BY <1>5 DEF Review
  <2>2. s.pc # "merged"
    OBVIOUS
  <2> HIDE DEF s
  <2> QED
    BY <1>0, <2>1, <2>2, QuietAware
<1>6. ASSUME NEW p \in Proc, Replace(p) \/ \E v \in Version : Record(p, v)
      PROVE  Aware'
  <2>1. PICK goal, all : Become(p, Recording(goal, all))
    BY <1>6 DEF Replace, Record
  <2>2. Recording(goal, all).pc # "merged"
    BY RecordingAt
  <2>3. over' = Overtaking(p)
    BY <1>6 DEF Replace, Record
  <2> QED
    BY <1>0, <2>1, <2>2, <2>3, LoudAware
<1> QED
  BY <1>0, <1>1, <1>2, <1>3, <1>4, <1>5, <1>6, MergeAware, ReviewNodeAware
     DEF Next, Run, VerifyScan

LEMMA AwareAlways == Spec => []Aware
BY InitAware, NextAware, IInvAlways, PTL DEF Spec

-----------------------------------------------------------------------------
(* The two properties of steps.                                            *)

(* Who changes nodes.                                                      *)
LEMMA Writers ==
  ASSUME [Next]_vars, nodes' # nodes
  PROVE  \E p \in Proc : Replace(p) \/ \E i \in Id : ReviewNode(p, i)
BY DEF Next, vars, Commit, Edit, Run, Verify, VerifyScan, Scan, Merge, Record,
       Evaluated, Review, Kill, graph

(* A new fingerprint of an artifact whose old one is recorded reaches      *)
(* every dependent in the transaction that brings it into the store.       *)
THEOREM ChangesNoticed == Spec => ChangeIsNoticed
<1> DEFINE Step ==
      \A p \in Proc \ over : Replaces(p) =>
        \A i \in Active :
          (nodes[i].fp \in versions[i] /\ nodes'[i].fp \in Fp \ {nodes[i].fp}) =>
            \A e \in edges' : e.to = i => nodes'[e.from].status = "stale"
<1>1. IInv /\ Aware /\ [Next]_vars => Step
  <2> SUFFICES ASSUME IInv, Aware, [Next]_vars,
                      NEW p \in Proc \ over, Replaces(p),
                      NEW i \in Active, nodes[i].fp \in versions[i],
                      nodes'[i].fp \in Fp \ {nodes[i].fp},
                      NEW e \in edges', e.to = i
               PROVE  nodes'[e.from].status = "stale"
    OBVIOUS
  <2>1. nodes' # nodes
    OBVIOUS
  <2>2. PICK q \in Proc : Replace(q) \/ \E j \in Id : ReviewNode(q, j)
    BY <2>1, Writers
  <2>3. q = p
    <3> SUFFICES ASSUME q # p PROVE FALSE
      OBVIOUS
    <3>1. proc'[p] = proc[p]
      BY <2>2 DEF Replace, ReviewNode, Become, IInv, TypeOK
    <3> QED
      BY <3>1, RecordingAt DEF Replaces, At
  <2>4. Replace(p)
    BY <2>2, <2>3 DEF Replaces, ReviewNode, At
  <2>5. Notes(proc[p].nodes, proc[p].edges)
    BY DEF Aware, Replaces, At
  <2> QED
    BY <2>4, <2>5 DEF Replace, Notes
<1>2. Spec => [][Step]_vars
  <2>1. IInv /\ Aware /\ [Next]_vars => [Step]_vars
    BY <1>1
  <2> QED
    BY <2>1, IInvAlways, AwareAlways, PTL DEF Spec
<1> QED
  BY <1>2 DEF ChangeIsNoticed, Step

(* What is stale stays so until it is reviewed or changes, or the graph is *)
(* rebuilt clean.                                                          *)
THEOREM StaleStays == Spec => StaleWaits
<1> DEFINE Step ==
      \A i \in Id :
        (nodes[i] # NoNode /\ nodes[i].status = "stale" /\ nodes'[i] # NoNode) =>
          \/ nodes'[i].status # "current"
          \/ \E p \in Proc : Replaces(p) /\ (p \in over \/ proc[p].goal = "clean")
          \/ versions[i] \ {nodes'[i].fp} # {}
<1>1. IInv /\ Aware /\ [Next]_vars => Step
  <2> SUFFICES ASSUME IInv, Aware, [Next]_vars,
                      NEW i \in Id, nodes[i] # NoNode, nodes[i].status = "stale",
                      nodes'[i] # NoNode, nodes'[i].status = "current"
               PROVE  \/ \E p \in Proc : Replaces(p) /\ (p \in over \/ proc[p].goal = "clean")
                      \/ versions[i] \ {nodes'[i].fp} # {}
    OBVIOUS
  <2>1. nodes' # nodes
    OBVIOUS
  <2>2. PICK q \in Proc : Replace(q) \/ \E j \in Id : ReviewNode(q, j)
    BY <2>1, Writers
  <2>3. CASE Replace(q)
    <3>1. /\ proc[q].pc = "merged" /\ nodes' = proc[q].nodes
          /\ Replaces(q)
      BY <2>3 DEF Replace, Replaces, At, Become, IInv, TypeOK
    <3>2. CASE q \notin over /\ proc[q].goal # "clean"
      <4>1. Keeps(proc[q].nodes)
        BY <3>1, <3>2 DEF Aware
      <4> QED
        BY <3>1, <4>1 DEF Keeps
    <3> QED
      BY <3>1, <3>2
  <2>4. ASSUME NEW j \in Id, ReviewNode(q, j) PROVE FALSE
    <3>1. nodes \in Nodes /\ nodes[i] \in Node
      BY DEF IInv, TypeOK, Nodes
    <3>2. nodes' = nodes \/ nodes' = [nodes EXCEPT ![j].status = "reviewed"]
      BY <2>4 DEF ReviewNode
    <3>3. [nodes[i] EXCEPT !.status = "reviewed"].status = "reviewed"
      BY <3>1 DEF Node, NodeAt
    <3> QED
      BY <3>1, <3>2, <3>3 DEF Nodes
  <2> QED
    BY <2>2, <2>3, <2>4
<1>2. Spec => [][Step]_vars
  <2>1. IInv /\ Aware /\ [Next]_vars => [Step]_vars
    BY <1>1
  <2> QED
    BY <2>1, IInvAlways, AwareAlways, PTL DEF Spec
<1> QED
  BY <1>2 DEF StaleWaits, Step

-----------------------------------------------------------------------------
(* Revisions.                                                              *)

AtHead(n, r) == \A i \in ActiveIn(n) : n[i].rev \in {NoRev, r}

Refreshing(s) == s.goal \in {"rebuild", "verify"}

(* Where a verification stands nobody else has disturbed, with nodes n and *)
(* HEAD r: the graph is of HEAD from when it has been found so, or         *)
(* rebuilt, and what the process is about to write is so as well.          *)
Steady(s, n, r) ==
  /\ s.pc = "verified" => AtHead(n, r)
  /\ s.pc \in {"started", "scanned"} /\ s.goal = "verify" => AtHead(n, r)
  /\ s.pc = "scanned" /\ Refreshing(s) => s.rev = r
  /\ s.pc = "merged" /\ Refreshing(s) => AtHead(s.nodes, r)
  /\ s.pc = "recording" /\ Refreshing(s) => AtHead(n, r)

SteadyOnes == \A p \in Proc \ rushed : Steady(proc[p], nodes, rev)

(* Nodes of a scan are of the commit that was HEAD.                        *)
LEMMA ScannedRev ==
  ASSUME NEW T, NEW F, NEW r, NEW i \in DOMAIN Scanned(T, F, r)
  PROVE  Scanned(T, F, r)[i].rev \in {NoRev, r}
BY DEF Scanned, NewNode

LEMMA ReviewedAtHead ==
  ASSUME nodes \in Nodes, NEW n \in Nodes, NEW E, NEW clean \in BOOLEAN, NEW r,
         AtHead(n, r)
  PROVE  AtHead(Reviewed(n, E, clean), r)
<1> SUFFICES ASSUME NEW i \in ActiveIn(Reviewed(n, E, clean))
             PROVE  Reviewed(n, E, clean)[i].rev \in {NoRev, r}
  BY DEF AtHead
<1>1. i \in ActiveIn(n) /\ i \in Id /\ n[i] # NoNode
  BY ReviewedIs DEF ActiveIn
<1>2. Reviewed(n, E, clean)[i].rev = n[i].rev
  BY <1>1, ReviewedAs
<1> QED
  BY <1>1, <1>2 DEF AtHead

(* A store that need not be rebuilt is of HEAD.                            *)
LEMMA NoRebuild ==
  ASSUME TypeOK, ~MustRebuild
  PROVE  AtHead(nodes, rev)
<1> DEFINE revs == {nodes[i].rev : i \in Active} \ {NoRev}
<1> SUFFICES ASSUME NEW i \in Active, nodes[i].rev # NoRev, nodes[i].rev # rev
             PROVE  FALSE
  BY DEF AtHead, Active
<1>1. revs \subseteq 0 .. MaxCommits
  <2> SUFFICES ASSUME NEW j \in Active, nodes[j].rev # NoRev
               PROVE  nodes[j].rev \in 0 .. MaxCommits
    OBVIOUS
  <2>1. nodes[j] \in Node
    BY DEF Active, ActiveIn, TypeOK
  <2> QED
    BY <2>1 DEF Node, NodeAt
<1>2. IsFiniteSet(revs)
  <2>1. IsFiniteSet(0 .. MaxCommits)
    BY FS_Interval, BoundsAssumption
  <2> HIDE DEF revs
  <2> QED
    BY <1>1, <2>1, FS_Subset
<1>3. rev \in revs /\ nodes[i].rev \in revs
  BY DEF MustRebuild
<1>4. ~(Cardinality(revs) > 1)
  BY DEF MustRebuild
<1>5. {rev, nodes[i].rev} \subseteq revs
  BY <1>3
<1> HIDE DEF revs
<1>6. Cardinality({rev, nodes[i].rev}) = 2
  <2>1. IsFiniteSet({rev}) /\ Cardinality({rev}) = 1
    BY FS_Singleton
  <2>2. Cardinality({rev} \cup {nodes[i].rev}) = Cardinality({rev}) + 1
    BY <2>1, FS_AddElement
  <2>3. {rev} \cup {nodes[i].rev} = {rev, nodes[i].rev}
    OBVIOUS
  <2> QED
    BY <2>1, <2>2, <2>3
<1>7. Cardinality({rev, nodes[i].rev}) <= Cardinality(revs) /\ Cardinality(revs) \in Nat
  BY <1>2, <1>5, FS_Subset, FS_CardinalityType
<1> QED
  BY <1>4, <1>6, <1>7

LEMMA InitSteady == Init => SteadyOnes
BY DEF Init, SteadyOnes, Steady, Idle

(* A step of p that disturbs nobody else.                                  *)
LEMMA SteadyStep ==
  ASSUME TypeOK, SteadyOnes, NEW p \in Proc, NEW s, Become(p, s),
         rev' = rev, rushed \ {p} \subseteq rushed',
         AtHead(nodes, rev) => AtHead(nodes', rev),
         p \notin rushed' => Steady(s, nodes', rev)
  PROVE  SteadyOnes'
<1>1. proc'[p] = s /\ \A q \in Proc \ {p} : proc'[q] = proc[q]
  BY DEF Become, TypeOK
<1> SUFFICES ASSUME NEW q \in Proc \ rushed' PROVE Steady(proc'[q], nodes', rev)
  BY DEF SteadyOnes
<1>2. CASE q = p
  BY <1>1, <1>2
<1>3. CASE q # p
  BY <1>1, <1>3 DEF SteadyOnes, Steady
<1> QED
  BY <1>2, <1>3

(* Where no verification stands, there is nothing to keep.                 *)
LEMMA Elsewhere ==
  ASSUME NEW p \in Proc, ~Verifying(p), NEW n, NEW r
  PROVE  Steady(proc[p], n, r)
BY DEF Verifying, At, Steady, Refreshing

LEMMA RecordingSteady ==
  ASSUME NEW goal, NEW all, NEW n, NEW r,
         goal \in {"rebuild", "verify"} => AtHead(n, r)
  PROVE  Steady(Recording(goal, all), n, r)
<1>1. Steady(After(goal), n, r)
  BY DEF After, Started, Idle, Steady, Refreshing
<1>2. ASSUME NEW left
      PROVE  Steady([pc |-> "recording", goal |-> goal, record |-> left], n, r)
  BY DEF Steady, Refreshing
<1> QED
  BY <1>1, <1>2 DEF Recording

LEMMA ScanSteady ==
  ASSUME TypeOK, SteadyOnes, NEW p \in Proc, NEW goal, Scan(p, goal),
         goal = "verify" /\ p \notin rushed => AtHead(nodes, rev)
  PROVE  SteadyOnes'
<1> DEFINE C == IF Incremental(goal) THEN ChangeSet ELSE Path
           s == [pc |-> "scanned", goal |-> goal, paths |-> C,
                 text |-> [q \in C \cup {Conf} |-> tree[q]], rev |-> rev]
<1>1. /\ Become(p, IF C = {} THEN After(goal) ELSE s)
      /\ UNCHANGED <<nodes, rev, rushed>>
  BY DEF Scan, git, graph
<1>2. goal = "rebuild" => C # {}
  BY DEF Incremental, Path
<1>3. p \notin rushed => Steady(s, nodes, rev)
  BY DEF Steady, Refreshing
<1>4. C = {} /\ p \notin rushed => Steady(After(goal), nodes, rev)
  BY <1>2 DEF After, Started, Idle, Steady, Refreshing
<1> HIDE DEF C, s
<1> QED
  BY <1>1, <1>3, <1>4, SteadyStep

LEMMA MergeSteady ==
  ASSUME IInv, SteadyOnes, NEW p \in Proc, Merge(p)
  PROVE  SteadyOnes'
<1> DEFINE goal == proc[p].goal
           C == proc[p].paths
           T == proc[p].text
           r == proc[p].rev
           new == Scanned(T, C \cap File, r)
           inc == Incremental(goal)
           n == IF inc THEN MergedNodes(C, new) ELSE FullNodes(new)
           E == EdgesOf(T, C \cap File) \cup IF inc THEN KeptEdges(C, new) ELSE {}
           clean == goal = "clean"
           R == Reviewed(n, E, clean)
<1>1. TypeOK /\ nodes \in Nodes
  BY DEF IInv, TypeOK, Nodes
<1>2. proc[p].pc = "scanned" /\ IsProc(proc[p])
  BY <1>1 DEF Merge, At, TypeOK
<1>3. /\ C \in SUBSET Path /\ r \in 0 .. MaxCommits /\ IsText(T, C \cup {Conf})
  BY <1>2, ProcIs
<1>4. PICK s : /\ Become(p, s) /\ s.pc = "merged" /\ s.goal = goal /\ s.nodes = R
               /\ UNCHANGED <<nodes, rev, rushed>>
  BY DEF Merge, git, graph
<1>5. goal = "verify" /\ p \notin rushed => AtHead(nodes, rev)
  BY <1>2 DEF SteadyOnes, Steady
<1>6. goal \in {"rebuild", "verify"} /\ p \notin rushed => r = rev
  BY <1>2 DEF SteadyOnes, Steady, Refreshing
<1>7. /\ DOMAIN new \subseteq Id
      /\ \A i \in DOMAIN new : new[i] \in Node /\ new[i].active
      /\ \A i \in DOMAIN new : new[i].rev \in {NoRev, r}
  <2> HIDE DEF goal, C, T, r
  <2> QED
    BY <1>3, ScannedIs, ScannedRev DEF IsText
<1> HIDE DEF goal, C, T, r, new
<1>8. n \in Nodes
  BY <1>1, <1>3, <1>7, FullNodesIs, MergedNodesIs
<1>9. ASSUME goal \in {"rebuild", "verify"}, p \notin rushed
      PROVE  AtHead(n, rev)
  <2>1. CASE goal = "verify"
    <3> DEFINE M == MergedNodes(C, new)
               kept == {i \in Active : nodes[i].src \notin C}
    <3>1. n = M
      BY <2>1 DEF Incremental
    <3>2. /\ ActiveIn(M) = DOMAIN new \cup kept
          /\ \A i \in DOMAIN new : M[i] = new[i]
          /\ \A i \in kept \ DOMAIN new : M[i] = nodes[i]
      BY <1>1, <1>3, <1>7, MergedNodesIs
    <3>3. \A i \in kept : nodes[i].rev \in {NoRev, rev}
      BY <1>5, <1>9, <2>1 DEF AtHead, Active
    <3>4. \A i \in DOMAIN new : new[i].rev \in {NoRev, rev}
      BY <1>6, <1>7, <1>9
    <3> HIDE DEF M, kept, n
    <3>5. AtHead(M, rev)
      BY <3>2, <3>3, <3>4 DEF AtHead
    <3> QED
      BY <3>1, <3>5
  <2>2. CASE goal = "rebuild"
    <3>1. n = FullNodes(new)
      BY <2>2 DEF Incremental
    <3>2. ActiveIn(n) = DOMAIN new /\ \A i \in DOMAIN new : n[i] = new[i]
      BY <1>1, <1>7, <3>1, FullNodesIs
    <3> QED
      BY <1>6, <1>7, <1>9, <3>2 DEF AtHead
  <2> QED
    BY <1>9, <2>1, <2>2
<1> HIDE DEF n, E
<1>10. clean \in BOOLEAN
  OBVIOUS
<1> HIDE DEF clean
<1>11. goal \in {"rebuild", "verify"} /\ p \notin rushed => AtHead(R, rev)
  BY <1>1, <1>8, <1>9, <1>10, ReviewedAtHead
<1> HIDE DEF R
<1>12. p \notin rushed => Steady(s, nodes, rev)
  BY <1>4, <1>11 DEF Steady, Refreshing
<1> QED
  BY <1>1, <1>4, <1>12, SteadyStep

LEMMA ReplaceSteady ==
  ASSUME TypeOK, SteadyOnes, NEW p \in Proc, Replace(p)
  PROVE  SteadyOnes'
<1>1. /\ proc[p].pc = "merged"
      /\ nodes' = proc[p].nodes /\ rev' = rev
      /\ rushed' = rushed \cup {q \in Proc \ {p} : Verifying(q)}
      /\ proc'[p] = Recording(proc[p].goal, proc[p].record)
      /\ \A q \in Proc \ {p} : proc'[q] = proc[q]
  BY DEF Replace, At, Become, git, TypeOK
<1> SUFFICES ASSUME NEW q \in Proc \ rushed' PROVE Steady(proc'[q], nodes', rev)
  BY <1>1 DEF SteadyOnes
<1>2. CASE q = p
  <2>1. proc[p].goal \in {"rebuild", "verify"} => AtHead(nodes', rev)
    BY <1>1, <1>2 DEF SteadyOnes, Steady, Refreshing
  <2> QED
    BY <1>1, <1>2, <2>1, RecordingSteady
<1>3. CASE q # p
  BY <1>1, <1>3, Elsewhere
<1> QED
  BY <1>2, <1>3

LEMMA RecordSteady ==
  ASSUME TypeOK, SteadyOnes, NEW p \in Proc, NEW v, Record(p, v)
  PROVE  SteadyOnes'
<1>1. /\ Become(p, Recording(proc[p].goal, proc[p].record \ {v}))
      /\ proc[p].pc = "recording"
      /\ UNCHANGED <<nodes, rev, rushed>>
  BY DEF Record, At, git, graph
<1>2. p \notin rushed /\ proc[p].goal \in {"rebuild", "verify"} => AtHead(nodes, rev)
  BY <1>1 DEF SteadyOnes, Steady, Refreshing
<1>3. p \notin rushed => Steady(Recording(proc[p].goal, proc[p].record \ {v}), nodes, rev)
  BY <1>2, RecordingSteady
<1> QED
  BY <1>1, <1>3, SteadyStep

LEMMA ReviewNodeSteady ==
  ASSUME TypeOK, SteadyOnes, NEW p \in Proc, NEW i \in Id, ReviewNode(p, i)
  PROVE  SteadyOnes'
<1> DEFINE todo == proc[p].todo \ {i}
           s == IF todo = {} THEN Idle ELSE [pc |-> "reviewing", todo |-> todo]
<1>1. Become(p, s) /\ UNCHANGED <<rev, rushed>>
  BY DEF ReviewNode, git
<1>2. Steady(s, nodes', rev)
  BY DEF Idle, Steady, Refreshing
<1> HIDE DEF s
<1>3. nodes \in Nodes
  BY DEF TypeOK, Nodes
<1>4. AtHead(nodes, rev) => AtHead(nodes', rev)
  <2>1. CASE nodes' = nodes
    BY <2>1
  <2>2. CASE nodes[i] # NoNode /\ nodes' = [nodes EXCEPT ![i].status = "reviewed"]
    <3>1. nodes[i] \in Node
      BY <1>3, <2>2 DEF Nodes
    <3>2. nodes'[i] = [nodes[i] EXCEPT !.status = "reviewed"]
      BY <1>3, <2>2 DEF Nodes
    <3>3. /\ [nodes[i] EXCEPT !.status = "reviewed"].active = nodes[i].active
          /\ [nodes[i] EXCEPT !.status = "reviewed"].rev = nodes[i].rev
      BY <3>1 DEF Node, NodeAt
    <3>4. \A j \in Id \ {i} : nodes'[j] = nodes[j]
      BY <1>3, <2>2 DEF Nodes
    <3> QED
      BY <2>2, <3>2, <3>3, <3>4 DEF AtHead, ActiveIn
  <2> QED
    BY <2>1, <2>2 DEF ReviewNode
<1> QED
  BY <1>1, <1>2, <1>4, SteadyStep

LEMMA NextSteady == IInv /\ SteadyOnes /\ [Next]_vars => SteadyOnes'
<1> SUFFICES ASSUME IInv, SteadyOnes, [Next]_vars PROVE SteadyOnes'
  OBVIOUS
<1>0. TypeOK
  BY DEF IInv
<1>1. CASE UNCHANGED vars \/ \E p \in Path : \E c \in Draft[p] : Edit(p, c)
  <2>1. UNCHANGED <<nodes, rev, proc, rushed>>
    BY <1>1 DEF vars, git, graph, Edit
  <2> QED
    BY <2>1 DEF SteadyOnes
<1>2. CASE Commit
  <2>1. proc' = proc /\ rushed' = {p \in Proc : Verifying(p)}
    BY <1>2 DEF Commit
  <2> QED
    BY <2>1, Elsewhere DEF SteadyOnes
<1>3. ASSUME NEW p \in Proc, NEW goal \in Job[p], Run(p, goal) PROVE SteadyOnes'
  BY <1>0, <1>3, ScanSteady DEF Run
<1>4. ASSUME NEW p \in Proc, VerifyScan(p) PROVE SteadyOnes'
  <2>1. proc[p].goal = "verify" /\ p \notin rushed => AtHead(nodes, rev)
    BY <1>4 DEF VerifyScan, At, SteadyOnes, Steady
  <2> QED
    BY <1>0, <1>4, <2>1, ScanSteady DEF VerifyScan
<1>5. ASSUME NEW p \in Proc, Verify(p) PROVE SteadyOnes'
  <2> DEFINE s == Started(IF MustRebuild THEN "rebuild" ELSE "verify")
  <2>1. Become(p, s) /\ UNCHANGED <<nodes, rev, rushed>>
    BY <1>5 DEF Verify, git, graph
  <2>2. Steady(s, nodes, rev)
    BY <1>0, NoRebuild DEF Started, Steady, Refreshing
  <2> HIDE DEF s
  <2> QED
    BY <1>0, <2>1, <2>2, SteadyStep
<1>6. ASSUME NEW p \in Proc, Evaluated(p) \/ Kill(p) PROVE SteadyOnes'
  <2>1. /\ Become(p, Idle) /\ UNCHANGED <<nodes, rev>>
        /\ rushed \ {p} \subseteq rushed'
    BY <1>6 DEF Evaluated, Kill, git, graph
  <2>2. Steady(Idle, nodes, rev)
    BY DEF Idle, Steady, Refreshing
  <2> QED
    BY <1>0, <2>1, <2>2, SteadyStep
<1>7. ASSUME NEW p \in Proc, NEW i \in Id, Review(p, i) PROVE SteadyOnes'
  <2> DEFINE s == [pc |-> "reviewing", todo |-> Closure(i)]
  <2>1. Become(p, s) /\ UNCHANGED <<nodes, rev, rushed>>
    BY <1>7 DEF Review, git, graph
  <2>2. Steady(s, nodes, rev)
    BY DEF Steady, Refreshing
  <2> HIDE DEF s
  <2> QED
    BY <1>0, <2>1, <2>2, SteadyStep
<1> QED
  BY <1>0, <1>1, <1>2, <1>3, <1>4, <1>5, <1>6, <1>7,
     MergeSteady, ReplaceSteady, RecordSteady, ReviewNodeSteady DEF Next

(* Whatever was indexed and committed before, and whoever was killed: when *)
(* a verification nobody disturbed comes to evaluate its rules, every node *)
(* in force is of the commit that is HEAD.                                 *)
THEOREM VerifiedHead == Spec => []VerifiedAtHead
<1>1. Spec => []SteadyOnes
  BY InitSteady, NextSteady, IInvAlways, PTL DEF Spec
<1>2. SteadyOnes => VerifiedAtHead
  BY DEF SteadyOnes, Steady, VerifiedAtHead, AtHead, Active, At
<1> QED
  BY <1>1, <1>2, PTL
=============================================================================
