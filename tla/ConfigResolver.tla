--------------------------- MODULE ConfigResolver ---------------------------
(***************************************************************************)
(* How the layers of the configuration become one effective configuration  *)
(* (config/merger.py, config/resolver.py): a fold of deep_merge over the   *)
(* layers, later ones winning, then the table's identity and the derived   *)
(* defaults, and then repeated substitution of ${...} placeholders until a *)
(* pass replaces nothing.                                                  *)
(*                                                                         *)
(* A text, never empty, is the set of literal parts it is made of and the  *)
(* set of dotted paths its placeholders refer to; a path is a sequence of  *)
(* keys.  A value tagged !append or !merge_by is a list with a strategy.   *)
(* The blocks `table' and `target' are mappings or null, business_key is a *)
(* list, and entries of a !merge_by list are told apart by a text.         *)
(***************************************************************************)
EXTENDS Naturals, Sequences, SequencesExt, TLC

CONSTANTS Layers,      \* what a configuration file may hold
          Depth,       \* how many layers there are
          MergeKey,    \* the key of !merge_by:<key>
          Identity,    \* names given by table and environment, not by a file
          LowerCase,   \* the parts and keys that str.lower changes
          MaxPasses    \* _MAX_INTERPOLATION_PASSES

ASSUME ResolverAssumption == Depth \in Nat /\ MaxPasses \in Nat \ {0}

VARIABLES layers,     \* the layers, in merge order
          next,       \* the layer to merge next
          merged,     \* what merge_layers has made of them so far
          completed,  \* what _interpolate is given
          config,     \* what _interpolate has made of it so far
          passes,     \* passes that have replaced something
          phase

vars == <<layers, next, merged, completed, config, passes, phase>>

\* A resolution ends resolved, or in an error of the merge, of a domain that
\* does not match its directory, or of the placeholders.
Phase == {"merge", "interpolate", "resolved", "unmergeable", "misplaced",
          "unresolved"}

----------------------------------------------------------------------------
(* Configuration values.                                                   *)

Text(parts, refs) == [kind |-> "text", parts |-> parts, refs |-> refs]
Mapping(at) == [kind |-> "map", at |-> at]
List(items) == [kind |-> "list", items |-> items]
AppendList(items) == [kind |-> "append", items |-> items]
MergeByList(items) == [kind |-> "merge_by", items |-> items]

\* YAML's null, a key that is not there, and a ConfigMergeError.
Null == [kind |-> "null"]
Missing == [kind |-> "missing"]
Error == [kind |-> "error"]

IsMap(v) == v.kind = "map"
IsStrategyList(v) == v.kind \in {"append", "merge_by"}
IsList(v) == v.kind = "list" \/ IsStrategyList(v)

\* The values that are directly inside a value.
Children(v) == IF IsMap(v) THEN {v.at[k] : k \in DOMAIN v.at}
               ELSE IF IsList(v) THEN {v.items[i] : i \in DOMAIN v.items}
               ELSE {}

\* A value and everything inside it.
RECURSIVE Inside(_)
Inside(v) == {v} \cup UNION {Inside(w) : w \in Children(v)}

Texts(v) == {w \in Inside(v) : w.kind = "text"}

\* Python's truth of a value.
Truthy(v) == /\ v.kind \notin {"null", "missing"}
             /\ IsMap(v) => DOMAIN v.at # {}
             /\ IsList(v) => v.items # <<>>

\* _lookup_path, for a path that is split already.
LookupPath(cfg, path) ==
  FoldLeft(LAMBDA node, part : IF IsMap(node) /\ part \in DOMAIN node.at
                                 THEN node.at[part] ELSE Missing,
           cfg, path)

----------------------------------------------------------------------------
(* deep_merge.                                                             *)

\* MUTANT: a shallow copy, which leaves the tags of inner lists in place.
CopyShallow(v) == IF IsList(v) THEN List(v.items) ELSE v

\* _copy: strategy lists become plain lists.
RECURSIVE Copy(_)
Copy(v) == IF IsMap(v) THEN Mapping([k \in DOMAIN v.at |-> Copy(v.at[k])])
           ELSE IF IsList(v)
                  THEN List([i \in DOMAIN v.items |-> Copy(v.items[i])])
           ELSE v

RECURSIVE DeepMerge(_, _)

\* MUTANT: a key of the base survives an override of the same key.
MergeMappingsKeepsBase(base, override) ==
  Mapping([k \in DOMAIN base.at \cup DOMAIN override.at |->
             IF k \in DOMAIN base.at THEN Copy(base.at[k])
                                     ELSE DeepMerge(Missing, override.at[k])])

\* _merge_mappings: key by key.
MergeMappings(base, override) ==
  Mapping([k \in DOMAIN base.at \cup DOMAIN override.at |->
             IF k \notin DOMAIN override.at THEN Copy(base.at[k])
             ELSE DeepMerge(IF k \in DOMAIN base.at THEN base.at[k]
                                                    ELSE Missing,
                            override.at[k])])

\* An entry that !merge_by can match.
HasKey(item) == IsMap(item) /\ MergeKey \in DOMAIN item.at

\* `index': where an entry of this identity was put last, 0 for nowhere.
IndexOf(entries, item) ==
  LET same == {i \in DOMAIN entries : entries[i].at[MergeKey] = item.at[MergeKey]}
  IN  IF same = {} THEN 0 ELSE CHOOSE i \in same : \A j \in same : j <= i

\* MUTANT: a matching entry is replaced instead of merged.
MergeEntryReplaces(entries, item) ==
  LET position == IndexOf(entries, item)
  IN  IF position = 0 THEN Append(entries, Copy(item))
                      ELSE [entries EXCEPT ![position] = Copy(item)]

MergeEntry(entries, item) ==
  LET position == IndexOf(entries, item)
  IN  IF position = 0
        THEN Append(entries, Copy(item))
        ELSE [entries EXCEPT ![position] = DeepMerge(@, item)]

\* _merge_strategy_list.
MergeStrategyList(base, override) ==
  LET items == IF IsList(base) THEN Copy(base).items ELSE <<>>
  IN  IF override.kind = "append"
        THEN List(items \o Copy(override).items)
      ELSE IF \E item \in Children(List(items)) \cup Children(override) :
                ~HasKey(item)
        THEN Error
      ELSE List(FoldLeft(MergeEntry, items, override.items))

DeepMerge(base, override) ==
  IF IsMap(base) /\ IsMap(override) THEN MergeMappings(base, override)
  ELSE IF IsStrategyList(override) THEN MergeStrategyList(base, override)
  ELSE Copy(override)

----------------------------------------------------------------------------
(* Identity and derived defaults.                                          *)

Given(name) == Text({name}, {})

\* dict(cfg.get(block) or {})
Block(cfg, block) == LET v == LookupPath(cfg, <<block>>)
                     IN  IF IsMap(v) THEN v.at ELSE <<>>

\* A declared domain that is not the directory's.
Misplaced(cfg) == LET domain == LookupPath(cfg, <<"table", "domain">>)
                  IN  Truthy(domain) /\ domain # Given("domain")

\* _apply_identity: the domain and the environment are stamped, the name only
\* where the file has none.
ApplyIdentity(cfg) ==
  Mapping("table" :> Mapping("domain" :> Given("domain") @@ Block(cfg, "table")
                             @@ "name" :> Given("table"))
          @@ "env" :> Given("env") @@ cfg.at)

\* str.lower, which reaches into placeholders too.
Lower(v) ==
  LET lower(n) == IF n \in DOMAIN LowerCase THEN LowerCase[n] ELSE n
  IN  IF v.kind = "text"
        THEN Text({lower(n) : n \in v.parts},
                  {[i \in DOMAIN r |-> lower(r[i])] : r \in v.refs})
        ELSE v

\* A key is filled with a default unless the files have given it a value.
Fill(at, key, default) ==
  IF Truthy(default) /\ ~Truthy(LookupPath(Mapping(at), <<key>>))
    THEN key :> default @@ at ELSE at

\* _apply_derived_defaults: the table's name from the source object, merge
\* keys from the business key, clustering from the merge keys.
ApplyDerivedDefaults(cfg) ==
  LET named == Fill(Block(cfg, "target"), "table_name",
                    Lower(LookupPath(cfg, <<"table", "source_object">>)))
      keyed == Mapping(Fill(named, "merge_keys",
                            LookupPath(cfg, <<"table", "business_key">>)))
      clusters == /\ LookupPath(keyed, <<"write_mode">>) = Given("merge")
                  /\ ~Truthy(LookupPath(keyed, <<"partition_by">>))
  IN  Mapping("target" :> Mapping(
                IF clusters
                  THEN Fill(keyed.at, "cluster_by",
                            LookupPath(keyed, <<"merge_keys">>))
                  ELSE keyed.at)
              @@ cfg.at)

----------------------------------------------------------------------------
(* _interpolate.                                                           *)

\* Identity first, then the configuration.
Lookup(cfg, path) == IF Len(path) = 1 /\ path[1] \in Identity
                       THEN Given(path[1]) ELSE LookupPath(cfg, path)

\* Every path a placeholder refers to, anywhere in the configuration.
Referenced(cfg) == UNION {t.refs : t \in Texts(cfg)}

\* A path that resolves to nothing, to null, or to a list or mapping.
Unresolvable(cfg) == \E n \in Referenced(cfg) : Lookup(cfg, n).kind # "text"

\* Every placeholder of a text is replaced, from the values before the pass.
SubstituteText(cfg, t) ==
  Text(t.parts \cup UNION {Lookup(cfg, n).parts : n \in t.refs},
       UNION {Lookup(cfg, n).refs : n \in t.refs})

\* MUTANT: texts inside lists are passed over.
RECURSIVE WalkStringsSkipsLists(_, _)
WalkStringsSkipsLists(cfg, v) ==
  IF IsMap(v)
    THEN Mapping([k \in DOMAIN v.at |-> WalkStringsSkipsLists(cfg, v.at[k])])
  ELSE IF v.kind = "text" THEN SubstituteText(cfg, v)
  ELSE v

\* _walk_strings.
RECURSIVE WalkStrings(_, _)
WalkStrings(cfg, v) ==
  IF IsMap(v) THEN Mapping([k \in DOMAIN v.at |-> WalkStrings(cfg, v.at[k])])
  ELSE IF IsList(v)
    THEN List([i \in DOMAIN v.items |-> WalkStrings(cfg, v.items[i])])
  ELSE IF v.kind = "text" THEN SubstituteText(cfg, v)
  ELSE v

----------------------------------------------------------------------------
Init == /\ layers \in [1..Depth -> Layers]
        /\ next = 1
        /\ merged = Mapping(<<>>)
        /\ completed = Mapping(<<>>)
        /\ config = Mapping(<<>>)
        /\ passes = 0
        /\ phase = "merge"

\* merge_layers: the next layer; a ConfigMergeError ends the resolution.
MergeLayer == /\ phase = "merge"
              /\ next <= Depth
              /\ merged' = DeepMerge(merged, layers[next])
              /\ next' = next + 1
              /\ phase' = IF Error \in Inside(merged') THEN "unmergeable"
                                                        ELSE "merge"
              /\ UNCHANGED <<layers, completed, config, passes>>

\* The rest of resolve before the placeholders.
Complete == /\ phase = "merge"
            /\ next > Depth
            /\ IF Misplaced(merged)
                 THEN /\ phase' = "misplaced"
                      /\ UNCHANGED <<completed, config>>
                 ELSE /\ completed' = ApplyDerivedDefaults(ApplyIdentity(merged))
                      /\ config' = completed'
                      /\ phase' = "interpolate"
            /\ UNCHANGED <<layers, next, merged, passes>>

\* A pass that replaces nothing.
Converged == Referenced(config) = {}

\* One pass over all texts: nothing to replace, an error, or another pass,
\* of which there are only so many.
InterpolationPass ==
  /\ phase = "interpolate"
  /\ IF Converged
       THEN /\ phase' = "resolved"
            /\ UNCHANGED <<config, passes>>
     ELSE IF Unresolvable(config)
       THEN /\ phase' = "unresolved"
            /\ UNCHANGED <<config, passes>>
     ELSE /\ config' = WalkStrings(config, config)
          /\ passes' = passes + 1
          /\ phase' = IF passes' = MaxPasses THEN "unresolved" ELSE phase
  /\ UNCHANGED <<layers, next, merged, completed>>

Next == MergeLayer \/ Complete \/ InterpolationPass

Spec == Init /\ [][Next]_vars

----------------------------------------------------------------------------
(* Properties.                                                             *)

\* Type invariant: no strategy tag, no missing value and no error is left
\* inside an effective configuration, at any depth (_copy collapses every
\* tagged list), and there are never more passes than allowed.
TypeOK ==
  /\ layers \in [1..Depth -> Layers]
  /\ next \in 1..Depth + 1
  /\ passes \in 0..MaxPasses
  /\ phase \in Phase
  /\ phase # "unmergeable" =>
       \A v \in Inside(merged) \cup Inside(config) :
         v.kind \in {"text", "map", "list", "null"}

\* Every path through mappings, the empty one included.
RECURSIVE Paths(_)
Paths(v) == {<<>>} \cup
  (IF IsMap(v) THEN UNION {{<<k>> \o p : p \in Paths(v.at[k])} : k \in DOMAIN v.at}
               ELSE {})

Sets(i, path) == LookupPath(layers[i], path) # Missing

\* Layer i replaces something above the path by a value without keys.
Hides(i, path) ==
  \E n \in 1..Len(path) - 1 :
    LookupPath(layers[i], SubSeq(path, 1, n)).kind \notin {"map", "missing"}

\* Layer i is the last one with a say on the path.
LastSetter(i, path) == /\ Sets(i, path)
                       /\ \A j \in i+1..Depth : ~Sets(j, path) /\ ~Hides(j, path)

\* The lists that contribute to a path whose last setter is layer i: back to
\* the last layer that starts the path anew.
Contributors(i, path) ==
  LET Anew(j) == \/ Hides(j, path)
                 \/ Sets(j, path) /\ ~IsStrategyList(LookupPath(layers[j], path))
  IN  {j \in 1..i : /\ IsList(LookupPath(layers[j], path))
                    /\ \A k \in j+1..i : ~Anew(k)}

\* A tagged list never costs an entry (merger.py:34-45): whatever mixture of
\* !append and !merge_by the layers use, every entry of every contributing
\* list is in the result, with each of its attributes that no later entry of
\* the same identity sets; and !merge_by alone never makes an identity appear
\* twice.
EntriesSurvive ==
  phase = "merge" /\ next > Depth =>
    \A i \in 1..Depth : \A path \in Paths(layers[i]) \ {<<>>} :
      LET entries(j) == LookupPath(layers[j], path).items
          from == Contributors(i, path)
          result == LookupPath(merged, path).items
          same(e, f) == HasKey(f) /\ f.at[MergeKey] = e.at[MergeKey]
          overridden(j, n, a) ==
            \E k \in from : \E m \in DOMAIN entries(k) :
              /\ k > j \/ (k = j /\ m > n)
              /\ same(entries(j)[n], entries(k)[m])
              /\ a \in DOMAIN entries(k)[m].at
          distinct(items) ==
            \A m, n \in DOMAIN items : m # n => ~same(items[m], items[n])
      IN  LastSetter(i, path) /\ IsStrategyList(LookupPath(layers[i], path)) =>
            /\ \A j \in from : \A n \in DOMAIN entries(j) :
                 LET e == entries(j)[n]
                 IN  IF HasKey(e)
                       THEN \E m \in DOMAIN result :
                              /\ HasKey(result[m])
                              /\ same(e, result[m])
                              /\ \A a \in DOMAIN e.at :
                                   \/ overridden(j, n, a)
                                   \/ /\ a \in DOMAIN result[m].at
                                      /\ result[m].at[a] = Copy(e.at[a])
                       ELSE \E m \in DOMAIN result : result[m] = Copy(e)
            /\ (\A j \in from :
                  /\ LookupPath(layers[j], path).kind # "append"
                  /\ \A n \in DOMAIN entries(j) : HasKey(entries(j)[n])
                  /\ distinct(entries(j)))
               => distinct(result)

----------------------------------------------------------------------------
(* The two abstract specifications that resolve implements.                *)

Prefix(q, p) == Len(q) < Len(p) /\ q = SubSeq(p, 1, Len(q))

AMap == [kind |-> "map"]

\* A configuration as a tree of module Overlay.
Flat(v) == [p \in Paths(v) \ {<<>>} |->
              LET w == LookupPath(v, p) IN IF IsMap(w) THEN AMap ELSE w]

\* A tagged list is merged with what its path holds in a mapping that is there;
\* in a mapping that is new it is taken as it is.
JoinedList(tree, p, v) ==
  IF p \in DOMAIN tree THEN MergeStrategyList(tree[p], v)
  ELSE IF Len(p) = 1 \/ (Front(p) \in DOMAIN tree /\ tree[Front(p)] = AMap)
    THEN MergeStrategyList(Missing, v)
  ELSE Copy(v)

Layering == INSTANCE Overlay WITH
  Above <- Prefix, Map <- AMap, Tagged <- IsStrategyList, Taken <- Copy,
  Joined <- JoinedList, Trees <- {Flat(v) : v \in Layers},
  layers <- [i \in 1..Depth |-> Flat(layers[i])],
  tree <- Flat(merged)

\* merge_layers is the overlay of module Overlay: each deep_merge, however deep
\* its recursion, does to each path what Overlay says, and the steps after it
\* leave the merged layers as they are.
MergesPathByPath == Layering!MergeSpec

\* The keys and list positions that lead to the texts inside a value.
Inner(v) == IF IsMap(v) THEN v.at ELSE IF IsList(v) THEN v.items ELSE <<>>

RECURSIVE TextPlaces(_)
TextPlaces(v) ==
  IF v.kind = "text" THEN {<<>>}
  ELSE UNION {{<<k>> \o p : p \in TextPlaces(Inner(v)[k])} : k \in DOMAIN Inner(v)}

TextAt(v, place) == FoldLeft(LAMBDA node, k : Inner(node)[k], v, place)

\* A configuration as a graph of module Placeholders; each identity name is a
\* text of its own, and <<>>, which is no text's place, stands for nothing.
Graph(cfg) ==
  LET names == {<<"${", n>> : n \in Identity}
      target(path) == IF Len(path) = 1 /\ path[1] \in Identity
                        THEN <<"${", path[1]>>
                      ELSE IF LookupPath(cfg, path).kind = "text" THEN path
                      ELSE <<>>
      vertex(t) == [parts |-> t.parts, refs |-> {target(r) : r \in t.refs}]
  IN  [p \in TextPlaces(cfg) \cup names |->
         vertex(IF p \in names THEN Given(p[2]) ELSE TextAt(cfg, p))]

Started == phase \in {"interpolate", "resolved", "unresolved"}

Substitution == INSTANCE Placeholders WITH
  Parts <- STRING, Nowhere <- <<>>,
  origin <- IF Started THEN Graph(completed) ELSE <<>>,
  text <- IF Started THEN Graph(config) ELSE <<>>,
  span <- 2^passes,
  outcome <- IF Started THEN phase ELSE "waiting"

\* _interpolate is the substitution of module Placeholders: each pass over the
\* configuration, texts inside lists included, replaces what Placeholders says,
\* and ends as it says.
InterpolatesAllTexts == Substitution!PassSpec
=============================================================================
