------------------------------- MODULE Overlay -------------------------------
(***************************************************************************)
(* What the fold of deep_merge over the layers of a configuration promises *)
(* (config/merger.py), path by path and without its recursion.  A tree is  *)
(* a function on the paths that are there: one that leads to a mapping     *)
(* holds Map, any other the value it leads to.  Of paths it is only known  *)
(* which is above which.  ConfigResolver, which follows the code, is       *)
(* checked to implement this module.                                       *)
(***************************************************************************)
EXTENDS Naturals

CONSTANTS Above(_, _),      \* the first path is a proper prefix of the second
          Map,              \* held by a path to a mapping
          Tagged(_),        \* a value is a list tagged !append or !merge_by
          Taken(_),         \* _copy of a value
          Joined(_, _, _),  \* what a tagged list becomes, given the tree it is
                            \* merged into and its path
          Trees,            \* what a layer may hold
          Depth             \* how many layers there are

Path == UNION {DOMAIN t : t \in Trees}

\* Whatever is above a path is there, and is a mapping.
IsTree(t) == \A p \in DOMAIN t : \A q \in Path :
               Above(q, p) => q \in DOMAIN t /\ t[q] = Map

\* What the constants have to be.
ProperLayers ==
  /\ Depth \in Nat
  /\ \A p, q, r \in Path : Above(p, q) /\ Above(q, r) => Above(p, r)
  /\ \A t \in Trees : IsTree(t)

VARIABLES layers,   \* the layers, in merge order
          next,     \* the layer to merge next
          tree      \* the result so far

mergeVars == <<layers, next, tree>>

\* The paths of the base that no value of the override replaces from above.
Survivors(base, over) ==
  {p \in DOMAIN base : \A q \in DOMAIN over : Above(q, p) => over[q] = Map}

\* What a path holds after the merge.
Held(base, over, p) == IF p \notin DOMAIN over THEN base[p]
                       ELSE IF over[p] = Map THEN Map
                       ELSE IF Tagged(over[p]) THEN Joined(base, p, over[p])
                       ELSE Taken(over[p])

\* deep_merge of two mappings.
Merged(base, over) == [p \in DOMAIN over \cup Survivors(base, over) |->
                         Held(base, over, p)]

MergeInit == /\ layers \in [1..Depth -> Trees]
             /\ next = 1
             /\ tree = [p \in {} |-> Map]

\* merge_layers: one layer.
Merge == /\ next <= Depth
         /\ tree' = Merged(tree, layers[next])
         /\ next' = next + 1
         /\ UNCHANGED layers

MergeSpec == MergeInit /\ [][Merge]_mergeVars

----------------------------------------------------------------------------
(* Properties.                                                             *)

Sets(i, p) == p \in DOMAIN layers[i]

Hides(i, p) == \E q \in DOMAIN layers[i] : Above(q, p) /\ layers[i][q] # Map

\* Of the layers that have been merged, i is the last with a say on the path.
LastSetter(i, p) == /\ Sets(i, p)
                    /\ \A j \in i+1..next-1 : ~Sets(j, p) /\ ~Hides(j, p)

\* Later layers win (resolver.py:3), for any number of layers of any depth: a
\* path is there exactly if some layer has set it and no later one has put a
\* value in the place of a mapping above it, and it holds what the last layer
\* that set it says, whatever the others did to the blocks around it.
LaterLayersWin ==
  \A p \in Path :
    /\ p \in DOMAIN tree <=> \E i \in 1..next-1 : LastSetter(i, p)
    /\ \A i \in 1..next-1 :
         LastSetter(i, p) =>
           LET value == layers[i][p]
           IN  \/ value = Map /\ tree[p] = Map
               \/ value # Map /\ (Tagged(value) \/ tree[p] = Taken(value))

\* The result is a tree: no merge leaves a key hanging below a value that is
\* not a mapping, or below nothing (_merge_mappings never sees such a base).
NoOrphans == DOMAIN tree \subseteq Path /\ IsTree(tree)
=============================================================================
