---------------------------- MODULE Config_proof ----------------------------
(***************************************************************************)
(* Proofs about the two abstract specifications of the configuration:      *)
(* module Overlay, what deep_merge does to layers of any shape and number, *)
(* and module Placeholders, what _interpolate does to texts of any number  *)
(* that refer to each other in any way.  TLC checks that ConfigResolver    *)
(* implements both.                                                        *)
(***************************************************************************)
EXTENDS Overlay, Placeholders, FiniteSetTheorems, TLAPS

----------------------------------------------------------------------------
(* Module Overlay.                                                         *)

MergeTypes == /\ layers \in [1..Depth -> Trees]
              /\ next \in 1..Depth + 1

MergeInv == MergeTypes /\ NoOrphans /\ LaterLayersWin

\* The initial state: nothing has been merged.
LEMMA MergeInitInv ==
  ASSUME ProperLayers, MergeInit
  PROVE  MergeInv
  <1>1. MergeTypes
    BY DEF ProperLayers, MergeInit, MergeTypes
  <1>2. DOMAIN tree = {} /\ 1..next-1 = {}
    BY DEF MergeInit
  <1>3. NoOrphans
    BY <1>2 DEF NoOrphans, IsTree
  <1>4. LaterLayersWin
    BY <1>2 DEF LaterLayersWin
  <1> QED
    BY <1>1, <1>3, <1>4 DEF MergeInv

\* deep_merge of two trees is a tree: what is above a path of the override is
\* there with it, and what is above a surviving path survives.
LEMMA MergedIsTree ==
  ASSUME ProperLayers,
         NEW base, DOMAIN base \subseteq Path, IsTree(base),
         NEW over \in Trees
  PROVE  /\ DOMAIN Merged(base, over) \subseteq Path
         /\ IsTree(Merged(base, over))
  <1> DEFINE m == Merged(base, over)
  <1>1. DOMAIN m = DOMAIN over \cup Survivors(base, over)
    BY DEF Merged
  <1>2. \A p \in DOMAIN m : m[p] = Held(base, over, p)
    BY DEF Merged
  <1>3. DOMAIN over \subseteq Path /\ IsTree(over)
    BY DEF ProperLayers, Path
  <1>4. DOMAIN m \subseteq Path
    BY <1>1, <1>3 DEF Survivors
  <1>5. ASSUME NEW p \in DOMAIN m, NEW q \in Path, Above(q, p)
        PROVE  q \in DOMAIN m /\ m[q] = Map
    <2>1. CASE p \in DOMAIN over
      <3>1. q \in DOMAIN over /\ over[q] = Map
        BY <2>1, <1>3, <1>5 DEF IsTree
      <3> QED
        BY <3>1, <1>1, <1>2 DEF Held
    <2>2. CASE p \in Survivors(base, over)
      <3>1. q \in DOMAIN base /\ base[q] = Map
        BY <2>2, <1>5 DEF IsTree, Survivors
      <3>2. ASSUME NEW r \in DOMAIN over, Above(r, q)
            PROVE  over[r] = Map
        <4>1. p \in Path /\ r \in Path
          BY <1>3, <1>4
        <4>2. Above(r, p)
          BY <4>1, <3>2, <1>5 DEF ProperLayers
        <4> QED
          BY <4>2, <2>2 DEF Survivors
      <3>3. q \in Survivors(base, over)
        BY <3>1, <3>2 DEF Survivors
      <3>4. q \in DOMAIN over => over[q] = Map
        BY <2>2, <1>5 DEF Survivors
      <3> QED
        BY <3>1, <3>3, <3>4, <1>1, <1>2 DEF Held
    <2> QED
      BY <2>1, <2>2, <1>1
  <1> QED
    BY <1>4, <1>5 DEF IsTree

\* The last setter of a path, one layer further: the new layer if it sets the
\* path, and otherwise the old one unless the new layer hides the path.
LEMMA LastSetterStep ==
  ASSUME ProperLayers, MergeTypes, Merge, NEW i \in 1..next, NEW p
  PROVE  LastSetter(i, p)' <=>
           \/ i = next /\ Sets(next, p)
           \/ i < next /\ LastSetter(i, p) /\ ~Sets(next, p) /\ ~Hides(next, p)
  <1>1. next \in Nat /\ next' = next + 1 /\ layers' = layers
    BY DEF ProperLayers, Merge, MergeTypes
  <1>2. \A j : (Sets(j, p)' <=> Sets(j, p)) /\ (Hides(j, p)' <=> Hides(j, p))
    BY <1>1 DEF Sets, Hides
  <1>3. LastSetter(i, p)' <=>
          Sets(i, p) /\ \A j \in i+1..next : ~Sets(j, p) /\ ~Hides(j, p)
    BY <1>1, <1>2 DEF LastSetter
  <1>4. CASE i = next
    <2>1. i+1..next = {}
      BY <1>1, <1>4
    <2> QED
      BY <2>1, <1>3, <1>4, <1>1
  <1>5. CASE i < next
    <2>1. i+1..next = (i+1..next-1) \cup {next}
      BY <1>1, <1>5
    <2> QED
      BY <2>1, <1>3, <1>5, <1>1 DEF LastSetter
  <1> QED
    BY <1>1, <1>4, <1>5

\* A merge keeps the invariant.
LEMMA MergeStep ==
  ASSUME ProperLayers, MergeInv, Merge
  PROVE  MergeInv'
  <1> DEFINE over == layers[next]
  <1> USE DEF MergeInv
  <1>1. /\ next \in Nat /\ next \in 1..Depth /\ next' = next + 1
        /\ layers' = layers /\ over \in Trees
    BY DEF ProperLayers, Merge, MergeTypes
  <1>2. MergeTypes'
    BY <1>1 DEF ProperLayers, MergeTypes
  <1>3. tree' = Merged(tree, over)
    BY DEF Merge
  <1>4. NoOrphans'
    <2>1. DOMAIN tree \subseteq Path /\ IsTree(tree)
      BY DEF NoOrphans
    <2>2. /\ DOMAIN Merged(tree, over) \subseteq Path
          /\ IsTree(Merged(tree, over))
      BY <2>1, <1>1, MergedIsTree
    <2> QED
      BY <2>2, <1>3 DEF NoOrphans, IsTree
  <1>5. /\ DOMAIN tree' = DOMAIN over \cup Survivors(tree, over)
        /\ \A p \in DOMAIN tree' : tree'[p] = Held(tree, over, p)
    BY <1>3 DEF Merged
  <1>6. ASSUME NEW p \in Path
        PROVE  p \in DOMAIN tree' <=>
                 Sets(next, p) \/ (p \in DOMAIN tree /\ ~Hides(next, p))
    BY <1>5 DEF Sets, Hides, Survivors
  <1>7. ASSUME NEW p \in Path
        PROVE  /\ p \in DOMAIN tree' <=> \E i \in 1..next : LastSetter(i, p)'
               /\ \A i \in 1..next :
                    LastSetter(i, p)' =>
                      LET value == layers[i][p]
                      IN  \/ value = Map /\ tree'[p] = Map
                          \/ value # Map /\ (Tagged(value) \/ tree'[p] = Taken(value))
    <2>0. MergeTypes
      OBVIOUS
    <2>1. /\ p \in DOMAIN tree <=> \E i \in 1..next-1 : LastSetter(i, p)
          /\ \A i \in 1..next-1 :
               LastSetter(i, p) =>
                 LET value == layers[i][p]
                 IN  \/ value = Map /\ tree[p] = Map
                     \/ value # Map /\ (Tagged(value) \/ tree[p] = Taken(value))
      BY DEF LaterLayersWin
    <2>2. \A i \in 1..next : LastSetter(i, p)' <=>
            \/ i = next /\ Sets(next, p)
            \/ i < next /\ LastSetter(i, p) /\ ~Sets(next, p) /\ ~Hides(next, p)
      BY <2>0, LastSetterStep
    <2>3. 1..next = (1..next-1) \cup {next} /\ \A i \in 1..next-1 : i < next
      BY <1>1
    <2>4. p \in DOMAIN tree' <=> \E i \in 1..next : LastSetter(i, p)'
      BY <2>1, <2>2, <2>3, <1>6, <1>1
    <2>5. ASSUME NEW i \in 1..next, LastSetter(i, p)'
          PROVE  \/ layers[i][p] = Map /\ tree'[p] = Map
                 \/ /\ layers[i][p] # Map
                    /\ Tagged(layers[i][p]) \/ tree'[p] = Taken(layers[i][p])
      <3>1. tree'[p] = Held(tree, over, p)
        BY <2>4, <2>5, <1>5
      <3>2. CASE i = next
        <4>1. p \in DOMAIN over
          BY <3>2, <2>2, <2>5, <1>1 DEF Sets
        <4> QED
          BY <4>1, <3>1, <3>2 DEF Held
      <3>3. CASE i < next
        <4>1. LastSetter(i, p) /\ p \notin DOMAIN over /\ i \in 1..next-1
          BY <3>3, <2>2, <2>3, <2>5, <1>1 DEF Sets
        <4>2. tree'[p] = tree[p]
          BY <4>1, <3>1 DEF Held
        <4> QED
          BY <4>1, <4>2, <2>1
      <3> QED
        BY <3>2, <3>3, <1>1
    <2> QED
      BY <2>4, <2>5
  <1>8. LaterLayersWin'
    <2>1. next' - 1 = next
      BY <1>1
    <2> QED
      BY <2>1, <1>1, <1>7 DEF LaterLayersWin
  <1> QED
    BY <1>2, <1>4, <1>8

\* The invariant of module Overlay.
LEMMA MergeInvariant == ASSUME ProperLayers PROVE MergeSpec => []MergeInv
  <1>1. MergeInit => MergeInv
    BY MergeInitInv
  <1>2. MergeInv /\ Merge => MergeInv'
    BY MergeStep
  <1>3. MergeInv /\ UNCHANGED mergeVars => MergeInv'
    BY DEF MergeInv, MergeTypes, NoOrphans, IsTree, LaterLayersWin, LastSetter,
           Sets, Hides, mergeVars
  <1> QED
    BY <1>1, <1>2, <1>3, PTL DEF MergeSpec

\* deep_merge never leaves a key below a value that is no mapping: for layers
\* of any shape and number, the result of every merge is a tree again.
THEOREM MergeLeavesNoOrphans == ASSUME ProperLayers PROVE MergeSpec => []NoOrphans
  BY MergeInvariant, PTL DEF MergeInv

\* Later layers win, path by path, for layers of any shape and number
\* (resolver.py:3; merge_layers and deep_merge).
THEOREM MergePrecedence == ASSUME ProperLayers PROVE MergeSpec => []LaterLayersWin
  BY MergeInvariant, PTL DEF MergeInv

----------------------------------------------------------------------------
(* Module Placeholders.                                                    *)

\* A set of texts that is typed as the texts of a configuration are.
Typed(g) == g \in [DOMAIN g -> Vertex(DOMAIN g)]

\* A way of n references from one text to another.
Walk(g, p, q, n) ==
  \E w \in [0..n -> DOMAIN g] :
    /\ w[0] = p
    /\ w[n] = q
    /\ \A i \in 0..n-1 : w[i+1] \in g[w[i]].refs

\* What a pass makes of a set of texts without a reference to nothing.
LEMMA SubstitutedTexts ==
  ASSUME NEW g, Typed(g), Resolvable(g)
  PROVE  /\ DOMAIN Substituted(g) = DOMAIN g
         /\ Typed(Substituted(g))
         /\ Resolvable(Substituted(g))
         /\ \A p \in DOMAIN g :
              /\ Substituted(g)[p].parts
                   = g[p].parts \cup UNION {g[q].parts : q \in g[p].refs}
              /\ Substituted(g)[p].refs = UNION {g[q].refs : q \in g[p].refs}
  <1> DEFINE h == Substituted(g)
  <1>1. DOMAIN h = DOMAIN g
    BY DEF Substituted
  <1>2. \A p \in DOMAIN g :
          h[p] = [parts |-> g[p].parts \cup UNION {g[q].parts : q \in g[p].refs},
                  refs |-> UNION {g[q].refs : q \in g[p].refs}]
    BY DEF Substituted
  <1>3. \A p \in DOMAIN g : g[p].parts \in SUBSET Parts /\ g[p].refs \subseteq DOMAIN g
    BY DEF Typed, Vertex, Resolvable
  <1>4. \A p \in DOMAIN g :
          /\ g[p].parts \cup UNION {g[q].parts : q \in g[p].refs} \in SUBSET Parts
          /\ UNION {g[q].refs : q \in g[p].refs} \in SUBSET (DOMAIN g)
    BY <1>3
  <1>5. ASSUME NEW p \in DOMAIN g
        PROVE  h[p] \in Vertex(DOMAIN g) /\ h[p].refs \subseteq DOMAIN g
    <2> DEFINE c == g[p].parts \cup UNION {g[q].parts : q \in g[p].refs}
               d == UNION {g[q].refs : q \in g[p].refs}
    <2>1. h[p] = [parts |-> c, refs |-> d]
      BY <1>2
    <2>2. c \in SUBSET Parts /\ d \in SUBSET (DOMAIN g)
      BY <1>4
    <2> HIDE DEF c, d, h
    <2> QED
      BY <2>1, <2>2 DEF Vertex
  <1>6. h \in [DOMAIN h -> Vertex(DOMAIN h)]
    <2>1. h = [p \in DOMAIN g |-> h[p]]
      BY DEF Substituted
    <2> HIDE DEF h
    <2> QED
      BY <2>1, <1>1, <1>5
  <1>7. Typed(h) /\ Resolvable(h)
    BY <1>1, <1>5, <1>6 DEF Typed, Resolvable
  <1> QED
    BY <1>1, <1>2, <1>7

\* Leads is the least set of texts that holds the text and is closed under
\* references.
LEMMA LeadsLeast ==
  ASSUME NEW g, Resolvable(g), NEW p \in DOMAIN g
  PROVE  /\ Leads(g, p) \in SUBSET (DOMAIN g)
         /\ p \in Leads(g, p)
         /\ Closed(g, Leads(g, p))
         /\ \A N \in SUBSET (DOMAIN g) : p \in N /\ Closed(g, N) => Leads(g, p) \subseteq N
  <1>1. Leads(g, p) \in SUBSET (DOMAIN g) /\ p \in Leads(g, p)
    BY DEF Leads
  <1>2. ASSUME NEW q \in Leads(g, p), NEW r \in g[q].refs
        PROVE  r \in Leads(g, p)
    <2>1. r \in DOMAIN g
      BY <1>1 DEF Resolvable
    <2>2. ASSUME NEW N \in SUBSET (DOMAIN g), p \in N, Closed(g, N)
          PROVE  r \in N
      BY <2>2 DEF Leads, Closed
    <2> QED
      BY <2>1, <2>2 DEF Leads
  <1>3. Closed(g, Leads(g, p))
    BY <1>2 DEF Closed
  <1>4. \A N \in SUBSET (DOMAIN g) : p \in N /\ Closed(g, N) => Leads(g, p) \subseteq N
    BY DEF Leads
  <1> QED
    BY <1>1, <1>3, <1>4

\* A pass does not change what a text means: two references at a time lead to
\* every second text on the way, and the ones between are in its parts.
LEMMA SubstitutedMeaning ==
  ASSUME NEW g, Typed(g), Resolvable(g), NEW p \in DOMAIN g
  PROVE  Meaning(Substituted(g), p) = Meaning(g, p)
  <1> DEFINE h == Substituted(g)
             L == Leads(g, p)
             M == Leads(h, p)
             N == M \cup UNION {g[q].refs : q \in M}
  <1>1. /\ DOMAIN h = DOMAIN g /\ Resolvable(h)
        /\ \A q \in DOMAIN g :
             /\ h[q].parts = g[q].parts \cup UNION {g[r].parts : r \in g[q].refs}
             /\ h[q].refs = UNION {g[r].refs : r \in g[q].refs}
    BY SubstitutedTexts
  <1> HIDE DEF h
  <1>2. /\ L \in SUBSET (DOMAIN g) /\ p \in L /\ Closed(g, L)
        /\ \A S \in SUBSET (DOMAIN g) : p \in S /\ Closed(g, S) => L \subseteq S
    BY LeadsLeast
  <1>3. /\ M \in SUBSET (DOMAIN g) /\ p \in M /\ Closed(h, M)
        /\ \A S \in SUBSET (DOMAIN g) : p \in S /\ Closed(h, S) => M \subseteq S
    BY LeadsLeast, <1>1
  <1>4. Meaning(g, p) = UNION {g[q].parts : q \in L}
    BY DEF Meaning
  <1>5. Meaning(h, p) = UNION {h[q].parts : q \in M}
    BY DEF Meaning
  <1> HIDE DEF L, M
  <1>6. M \subseteq L
    <2>1. Closed(h, L)
      BY <1>1, <1>2 DEF Closed
    <2> QED
      BY <2>1, <1>2, <1>3
  <1>7. L \subseteq N
    <2>1. N \in SUBSET (DOMAIN g) /\ p \in N
      BY <1>3 DEF Resolvable
    <2>2. ASSUME NEW q \in N, NEW r \in g[q].refs PROVE r \in N
      <3>1. CASE q \in M
        BY <3>1
      <3>2. CASE q \notin M
        <4>1. PICK s \in M : q \in g[s].refs
          BY <3>2
        <4>2. r \in h[s].refs
          BY <4>1, <1>1, <1>3
        <4> QED
          BY <4>2, <1>3 DEF Closed
      <3> QED
        BY <3>1, <3>2
    <2>3. Closed(g, N)
      BY <2>2 DEF Closed
    <2> QED
      BY <2>1, <2>3, <1>2
  <1>8. ASSUME NEW x \in UNION {h[q].parts : q \in M}
        PROVE  x \in UNION {g[q].parts : q \in L}
    <2>1. PICK q \in M : x \in h[q].parts
      OBVIOUS
    <2>2. q \in L /\ g[q].refs \subseteq L
      BY <1>2, <1>6 DEF Closed
    <2> QED
      BY <2>1, <2>2, <1>1, <1>2
  <1>9. ASSUME NEW x \in UNION {g[q].parts : q \in L}
        PROVE  x \in UNION {h[q].parts : q \in M}
    <2>1. PICK q \in L : x \in g[q].parts
      OBVIOUS
    <2>2. CASE q \in M
      BY <2>1, <2>2, <1>1, <1>3
    <2>3. CASE q \notin M
      <3>1. PICK s \in M : q \in g[s].refs
        BY <2>3, <1>7
      <3>2. x \in h[s].parts
        BY <3>1, <2>1, <1>1, <1>3
      <3> QED
        BY <3>2
    <2> QED
      BY <2>2, <2>3
  <1> QED
    BY <1>4, <1>5, <1>8, <1>9 DEF h

\* A pass does not break a circle of references.
LEMMA SubstitutedCycle ==
  ASSUME NEW g, Typed(g), Resolvable(g), Cyclic(g)
  PROVE  Cyclic(Substituted(g))
  <1> DEFINE h == Substituted(g)
  <1>1. /\ DOMAIN h = DOMAIN g
        /\ \A q \in DOMAIN g : h[q].refs = UNION {g[r].refs : r \in g[q].refs}
    BY SubstitutedTexts
  <1>2. PICK N \in (SUBSET (DOMAIN g)) \ {{}} : \A p \in N : g[p].refs \cap N # {}
    BY DEF Cyclic
  <1>3. ASSUME NEW p \in N PROVE h[p].refs \cap N # {}
    <2>1. PICK q \in N : q \in g[p].refs
      BY <1>2
    <2>2. PICK r \in N : r \in g[q].refs
      BY <1>2
    <2>3. r \in h[p].refs
      BY <2>1, <2>2, <1>1, <1>2
    <2> QED
      BY <2>3
  <1> QED
    BY <1>1, <1>2, <1>3 DEF Cyclic

\* Two walks make one.
LEMMA WalksJoin ==
  ASSUME NEW g, NEW p, NEW q, NEW r, NEW n \in Nat \ {0},
         Walk(g, p, q, n), Walk(g, q, r, n)
  PROVE  Walk(g, p, r, 2 * n)
  <1>1. PICK u \in [0..n -> DOMAIN g] :
          u[0] = p /\ u[n] = q /\ \A i \in 0..n-1 : u[i+1] \in g[u[i]].refs
    BY DEF Walk
  <1>2. PICK v \in [0..n -> DOMAIN g] :
          v[0] = q /\ v[n] = r /\ \A i \in 0..n-1 : v[i+1] \in g[v[i]].refs
    BY DEF Walk
  <1> DEFINE w == [i \in 0..2*n |-> IF i <= n THEN u[i] ELSE v[i-n]]
  <1>3. w \in [0..2*n -> DOMAIN g]
    <2>1. ASSUME NEW i \in 0..2*n
          PROVE  (IF i <= n THEN u[i] ELSE v[i-n]) \in DOMAIN g
      <3>1. CASE i <= n
        BY <3>1, i \in 0..n
      <3>2. CASE ~(i <= n)
        BY <3>2, i-n \in 0..n
      <3> QED
        BY <3>1, <3>2
    <2> QED
      BY <2>1
  <1>4. w[0] = p /\ w[2*n] = r
    <2>1. 0 \in 0..2*n /\ 2*n \in 0..2*n /\ 0 <= n /\ ~(2*n <= n) /\ 2*n - n = n
      OBVIOUS
    <2> QED
      BY <2>1, <1>1, <1>2
  <1>5. ASSUME NEW i \in 0..2*n-1 PROVE w[i+1] \in g[w[i]].refs
    <2>0. i \in 0..2*n /\ i+1 \in 0..2*n
      OBVIOUS
    <2>1. CASE i < n
      <3>1. i \in 0..n-1 /\ i <= n /\ i+1 <= n
        BY <2>1
      <3>2. w[i] = u[i] /\ w[i+1] = u[i+1]
        BY <3>1, <2>0
      <3> QED
        BY <3>1, <3>2, <1>1
    <2>2. CASE i = n
      <3>1. w[i] = q
        BY <2>2, <2>0, <1>1
      <3>2. ~(i+1 <= n) /\ i+1-n = 0+1 /\ 0 \in 0..n-1
        BY <2>2
      <3>3. w[i+1] = v[0+1]
        BY <3>2, <2>0
      <3> QED
        BY <3>1, <3>2, <3>3, <1>2
    <2>3. CASE i > n
      <3>1. ~(i <= n) /\ ~(i+1 <= n) /\ i+1-n = (i-n)+1 /\ i-n \in 0..n-1
        BY <2>3
      <3>2. w[i] = v[i-n] /\ w[i+1] = v[(i-n)+1]
        BY <3>1, <2>0
      <3> HIDE DEF w
      <3> QED
        BY <3>1, <3>2, <1>2
    <2> QED
      BY <2>1, <2>2, <2>3
  <1> HIDE DEF w
  <1> QED
    BY <1>3, <1>4, <1>5 DEF Walk

\* A walk of more references than there are texts with placeholders comes back
\* to one of them.
LEMMA LongWalkIsCyclic ==
  ASSUME NEW g, IsFiniteSet(DOMAIN g), NEW n \in Nat, NEW p, NEW q,
         Walk(g, p, q, n), Cardinality(Linked(g)) < n
  PROVE  Cyclic(g)
  <1>1. PICK w \in [0..n -> DOMAIN g] : \A i \in 0..n-1 : w[i+1] \in g[w[i]].refs
    BY DEF Walk
  <1> DEFINE v == [i \in 0..n-1 |-> w[i]]
  <1>2. v \in [0..n-1 -> Linked(g)]
    BY <1>1 DEF Linked
  <1>3. IsFiniteSet(Linked(g)) /\ Cardinality(Linked(g)) \in Nat
    BY FS_Subset, FS_CardinalityType DEF Linked
  <1>4. IsFiniteSet(0..n-1) /\ Cardinality(0..n-1) = n
    <2>1. 0 \in Int /\ n-1 \in Int
      OBVIOUS
    <2>2. /\ IsFiniteSet(0..n-1)
          /\ Cardinality(0..n-1) = IF 0 > n-1 THEN 0 ELSE n-1-0+1
      BY <2>1, FS_Interval
    <2>3. (IF 0 > n-1 THEN 0 ELSE n-1-0+1) = n
      BY <1>3
    <2> QED
      BY <2>2, <2>3
  <1>5. \E x, y \in 0..n-1 : x # y /\ v[x] = v[y]
    <2>1. Cardinality(Linked(g)) < Cardinality(0..n-1)
      BY <1>4
    <2> HIDE DEF v
    <2> QED
      BY <2>1, <1>2, <1>3, <1>4, FS_PigeonHole
  <1>6. PICK i, j \in 0..n-1 : i < j /\ w[i] = w[j]
    BY <1>5
  <1> DEFINE N == {w[k] : k \in i..j-1}
  <1>7. N \in (SUBSET (DOMAIN g)) \ {{}}
    <2>1. i \in i..j-1 /\ \A k \in i..j-1 : k \in 0..n
      BY <1>6
    <2>2. w[i] \in N /\ \A k \in i..j-1 : w[k] \in DOMAIN g
      BY <2>1
    <2> QED
      BY <2>2
  <1>8. ASSUME NEW x \in N PROVE g[x].refs \cap N # {}
    <2>1. PICK k \in i..j-1 : x = w[k]
      OBVIOUS
    <2>2. w[k+1] \in g[x].refs
      BY <2>1, <1>1, k \in 0..n-1
    <2>3. w[k+1] \in N
      <3>1. CASE k + 1 < j
        BY <3>1, k + 1 \in i..j-1
      <3>2. CASE k + 1 = j
        BY <3>2, <1>6, i \in i..j-1
      <3> QED
        BY <3>1, <3>2
    <2> QED
      BY <2>2, <2>3
  <1> QED
    BY <1>7, <1>8 DEF Cyclic

\* The state: the texts are those of a configuration, at the same places all
\* along, and before the first pass they are the given ones.
PassTypes == /\ IsGraph(origin)
             /\ DOMAIN text = DOMAIN origin
             /\ Typed(text)
             /\ span \in Nat \ {0}
             /\ outcome = "waiting" => text = origin /\ span = 1

\* Passes are made only while every reference leads to a text.
Sound == text = origin \/ (Resolvable(origin) /\ Resolvable(text))

\* No pass changes what a text means or hides a circle.
Faithful == /\ \A p \in DOMAIN origin : Meaning(text, p) = Meaning(origin, p)
            /\ Cyclic(origin) => Cyclic(text)

\* A placeholder that is left stands for a walk of span references.
Spanned == Resolvable(origin) =>
             \A p \in DOMAIN origin : \A q \in text[p].refs : Walk(origin, p, q, span)

PassInv == /\ PassTypes
           /\ Sound
           /\ Faithful
           /\ Spanned
           /\ outcome = "resolved" => Converged
           /\ RefusalsAreJustified

\* The initial state: no text at all.
LEMMA PassInitInv == PassInit => PassInv
  <1> SUFFICES ASSUME PassInit PROVE PassInv
    OBVIOUS
  <1>1. DOMAIN origin = {} /\ text = origin /\ span = 1 /\ outcome = "waiting"
    BY DEF PassInit
  <1>2. origin \in [DOMAIN origin -> Vertex(DOMAIN origin)]
    BY DEF PassInit
  <1>3. PassTypes
    BY <1>1, <1>2, FS_EmptySet DEF PassTypes, IsGraph, Typed
  <1> QED
    BY <1>1, <1>3 DEF PassInv, Sound, Faithful, Spanned, RefusalsAreJustified

\* A call of _interpolate: every placeholder is a walk of one reference.
LEMMA BeginStep == PassInv /\ Begin => PassInv'
  <1> SUFFICES ASSUME PassInv, Begin PROVE PassInv'
    OBVIOUS
  <1>1. /\ IsGraph(origin') /\ text' = origin' /\ span' = 1
        /\ outcome' = "interpolate"
    BY DEF Begin, PassInv, PassTypes
  <1>2. PassTypes'
    BY <1>1 DEF PassTypes, IsGraph, Typed
  <1>3. Spanned'
    <2> SUFFICES ASSUME Resolvable(origin'), NEW p \in DOMAIN origin',
                        NEW q \in origin'[p].refs
                 PROVE  Walk(origin', p, q, 1)
      BY <1>1 DEF Spanned
    <2> DEFINE w == [i \in 0..1 |-> IF i = 0 THEN p ELSE q]
    <2>1. w \in [0..1 -> DOMAIN origin']
      BY DEF Resolvable
    <2>2. w[0] = p /\ w[1] = q
      OBVIOUS
    <2>3. \A i \in 0..1-1 : i = 0
      OBVIOUS
    <2> HIDE DEF w
    <2>4. \A i \in 0..1-1 : w[i+1] \in origin'[w[i]].refs
      BY <2>2, <2>3
    <2> QED
      BY <2>1, <2>2, <2>4 DEF Walk
  <1> QED
    BY <1>1, <1>2, <1>3 DEF PassInv, Sound, Faithful, RefusalsAreJustified

\* A pass keeps the invariant, whichever way it ends.
LEMMA PassStep == PassInv /\ Pass => PassInv'
  <1> SUFFICES ASSUME PassInv, Pass PROVE PassInv'
    OBVIOUS
  <1> USE DEF PassInv
  <1>1. CASE Converged
    <2>1. /\ origin' = origin /\ text' = text /\ span' = span
          /\ outcome' = "resolved"
      BY <1>1 DEF Pass
    <2> QED
      BY <2>1, <1>1 DEF PassTypes, Sound, Faithful, Spanned, Converged,
                        RefusalsAreJustified
  <1>2. CASE ~Converged /\ ~Resolvable(text)
    <2>1. /\ origin' = origin /\ text' = text /\ span' = span
          /\ outcome' = "unresolved"
      BY <1>2 DEF Pass
    <2>2. ~Resolvable(origin)
      BY <1>2 DEF Sound
    <2> QED
      BY <2>1, <2>2 DEF PassTypes, Sound, Faithful, Spanned, RefusalsAreJustified
  <1>3. CASE ~Converged /\ Resolvable(text)
    <2>1. /\ origin' = origin /\ text' = Substituted(text) /\ span' = 2 * span
          /\ outcome' \in {"interpolate", "unresolved"}
          /\ outcome' = "unresolved" => passes' = MaxPasses
      BY <1>3 DEF Pass
    <2>2. /\ DOMAIN text = DOMAIN origin /\ Typed(text) /\ IsGraph(origin)
          /\ span \in Nat \ {0}
      BY DEF PassTypes
    <2>3. Resolvable(origin)
      BY <1>3 DEF Sound
    <2>4. /\ DOMAIN text' = DOMAIN text /\ Typed(text)' /\ Resolvable(text)'
          /\ \A p \in DOMAIN text :
               text'[p].refs = UNION {text[q].refs : q \in text[p].refs}
      BY <2>1, <2>2, <1>3, SubstitutedTexts DEF Typed, Resolvable
    <2>5. PassTypes'
      BY <2>1, <2>2, <2>4 DEF PassTypes, IsGraph
    <2>6. Sound'
      BY <2>1, <2>3, <2>4 DEF Sound, Resolvable
    <2>7. Faithful'
      <3>1. \A p \in DOMAIN origin : Meaning(Substituted(text), p) = Meaning(origin, p)
        BY <2>2, <1>3, SubstitutedMeaning DEF Faithful
      <3>2. Cyclic(origin) => Cyclic(Substituted(text))
        BY <2>2, <1>3, SubstitutedCycle DEF Faithful
      <3> QED
        BY <3>1, <3>2, <2>1 DEF Faithful
    <2>8. Spanned'
      <3>1. ASSUME NEW p \in DOMAIN origin, NEW r \in text'[p].refs
            PROVE  Walk(origin, p, r, 2 * span)
        <4>1. PICK q \in text[p].refs : r \in text[q].refs
          BY <2>2, <2>4
        <4>2. q \in DOMAIN origin
          BY <1>3, <2>2 DEF Resolvable
        <4>3. Walk(origin, p, q, span) /\ Walk(origin, q, r, span)
          BY <4>1, <4>2, <2>3 DEF Spanned
        <4> QED
          BY <4>3, <2>2, WalksJoin
      <3> QED
        BY <3>1, <2>1 DEF Spanned
    <2>9. RefusalsAreJustified'
      <3>1. PICK p \in DOMAIN text : text[p].refs # {}
        BY <1>3 DEF Converged
      <3>2. PICK q \in text[p].refs : Walk(origin, p, q, span)
        BY <3>1, <2>2, <2>3 DEF Spanned
      <3>3. IsFiniteSet(DOMAIN origin) /\ Cardinality(Linked(origin)) \in Nat
        BY <2>2, FS_Subset, FS_CardinalityType DEF IsGraph, Linked
      <3>4. Cyclic(origin) \/ span <= Cardinality(Linked(origin))
        BY <3>2, <3>3, <2>2, LongWalkIsCyclic
      <3>5. span <= Cardinality(Linked(origin))
              => 2 * span <= 2 * Cardinality(Linked(origin))
        BY <3>3, <2>2
      <3> QED
        BY <3>4, <3>5, <2>1 DEF RefusalsAreJustified
    <2>10. outcome' # "resolved"
      BY <2>1
    <2> QED
      BY <2>5, <2>6, <2>7, <2>8, <2>9, <2>10
  <1> QED
    BY <1>1, <1>2, <1>3

\* The invariant of module Placeholders.
LEMMA PassInvariant == PassSpec => []PassInv
  <1>1. PassInv /\ UNCHANGED passVars => PassInv'
    BY DEF PassInv, PassTypes, Sound, Faithful, Spanned, Converged,
           RefusalsAreJustified, passVars
  <1> QED
    BY PassInitInv, BeginStep, PassStep, <1>1, PTL DEF PassSpec

\* When nothing is left to replace, every text is what it means.
LEMMA ConvergedTexts == PassInv => ResolvedTextsAreExact
  <1> SUFFICES ASSUME PassInv, outcome = "resolved"
               PROVE  /\ Resolvable(origin)
                      /\ ~Cyclic(origin)
                      /\ \A p \in DOMAIN origin :
                           text[p] = [parts |-> Meaning(origin, p), refs |-> {}]
    BY DEF ResolvedTextsAreExact
  <1>1. /\ \A p \in DOMAIN text : text[p].refs = {}
        /\ DOMAIN text = DOMAIN origin
        /\ text \in [DOMAIN text -> Vertex(DOMAIN text)]
    BY DEF PassInv, Converged, PassTypes, Typed
  <1>2. Resolvable(origin)
    BY <1>1 DEF PassInv, Sound, Resolvable
  <1>3. ~Cyclic(text)
    BY <1>1 DEF Cyclic
  <1>4. ASSUME NEW p \in DOMAIN origin
        PROVE  text[p] = [parts |-> Meaning(origin, p), refs |-> {}]
    <2>1. Leads(text, p) = {p}
      <3>1. p \in Leads(text, p)
        BY <1>1 DEF Leads
      <3>2. {p} \in SUBSET (DOMAIN text) /\ Closed(text, {p})
        BY <1>1 DEF Closed
      <3>3. Leads(text, p) \subseteq {p}
        BY <3>2 DEF Leads
      <3> QED
        BY <3>1, <3>3
    <2>2. Meaning(text, p) = text[p].parts
      BY <2>1 DEF Meaning
    <2>3. Meaning(origin, p) = text[p].parts
      BY <2>2 DEF PassInv, Faithful
    <2>4. text[p] = [parts |-> text[p].parts, refs |-> text[p].refs]
      BY <1>1 DEF Vertex
    <2> QED
      BY <2>3, <2>4, <1>1
  <1> QED
    BY <1>2, <1>3, <1>4 DEF PassInv, Faithful

\* A configuration that _interpolate returns is what its placeholders mean, for
\* any number of texts and any limit on passes.
THEOREM InterpolationExact == PassSpec => []ResolvedTextsAreExact
  BY PassInvariant, ConvergedTexts, PTL

\* _interpolate refuses a configuration only for a reference to nothing or a
\* circular one, or, at the limit on passes, if at least half of two to the power
\* of that limit of its texts have placeholders.
THEOREM InterpolationRefuses == PassSpec => []RefusalsAreJustified
  BY PassInvariant, PTL DEF PassInv
=============================================================================
