--------------------------- MODULE Staging_proof ---------------------------
(***************************************************************************)
(* Proofs about module Staging, for every set of keys, every window, every *)
(* number of loads and of changes of the source.                           *)
(***************************************************************************)
EXTENDS Staging, FiniteSetTheorems, TLAPS

----------------------------------------------------------------------------
(* Counting.                                                               *)

\* The image of a finite set under a function.
LEMMA ImageCount ==
  ASSUME NEW S, IsFiniteSet(S), NEW f, f = [x \in S |-> f[x]]
  PROVE  /\ IsFiniteSet({f[x] : x \in S})
         /\ Cardinality({f[x] : x \in S}) \in Nat
         /\ Cardinality({f[x] : x \in S}) <= Cardinality(S)
<1> DEFINE T == {f[x] : x \in S}
<1>1. f \in Surjection(S, T)
  BY DEF Surjection
<1> HIDE DEF T
<1>2. IsFiniteSet(T) /\ Cardinality(T) <= Cardinality(S)
  BY <1>1, FS_Surjection
<1>3. Cardinality(T) \in Nat
  BY <1>2, FS_CardinalityType
<1> QED BY <1>2, <1>3 DEF T

\* The keys of the window.
KeysSeen == {raw[s].key : s \in Present}

\* Without the ones COUNT DISTINCT leaves out.
DistinctKeys == KeysSeen \ NullKeys

LEMMA WindowCounts ==
  ASSUME TypeOK
  PROVE  /\ IsFiniteSet(Present) /\ Cardinality(Present) \in Nat
         /\ IsFiniteSet(KeysSeen)
         /\ IsFiniteSet(DistinctKeys) /\ Cardinality(DistinctKeys) \in Nat
         /\ DuplicateRows = Cardinality(Present) - Cardinality(DistinctKeys)
         /\ DuplicateRows \in Nat
         /\ NullKeyRows \in Nat
         /\ NullKeyRows = 0 <=> KeysSeen \cap NullKeys = {}
<1>1. IsFiniteSet(Present) /\ Cardinality(Present) \in Nat
  BY StagingAssumption, FS_Subset, FS_CardinalityType DEF Present
<1> DEFINE f == [s \in Present |-> raw[s].key]
<1>2. KeysSeen = {f[s] : s \in Present}
  BY DEF KeysSeen
<1>3. f = [x \in Present |-> f[x]]
  OBVIOUS
<1> HIDE DEF f
<1>4. IsFiniteSet(KeysSeen) /\ Cardinality(KeysSeen) \in Nat
      /\ Cardinality(KeysSeen) <= Cardinality(Present)
  BY <1>1, <1>2, <1>3, ImageCount
<1>5. IsFiniteSet(DistinctKeys) /\ Cardinality(DistinctKeys) \in Nat
      /\ Cardinality(DistinctKeys) <= Cardinality(KeysSeen)
  <2>1. DistinctKeys \in SUBSET KeysSeen
    BY DEF DistinctKeys
  <2> QED BY <1>4, <2>1, FS_Subset, FS_CardinalityType
<1>6. DuplicateRows = Cardinality(Present) - Cardinality(DistinctKeys)
  BY DEF DuplicateRows, DistinctKeys, KeysSeen
<1>7. DuplicateRows \in Nat
  BY <1>1, <1>4, <1>5, <1>6
<1> DEFINE N == {s \in Present : raw[s].key \in NullKeys}
<1>8. IsFiniteSet(N) /\ Cardinality(N) \in Nat
  BY <1>1, FS_Subset, FS_CardinalityType
<1>9. Cardinality(N) = 0 <=> N = {}
  BY <1>8, FS_EmptySet
<1>10. N = {} <=> KeysSeen \cap NullKeys = {}
  BY DEF KeysSeen
<1> QED BY <1>1, <1>4, <1>5, <1>6, <1>7, <1>8, <1>9, <1>10 DEF NullKeyRows

----------------------------------------------------------------------------
(* The staged view.                                                        *)

\* rows holds one survivor of every key of the window and nothing else.
OneOfEachKey(rows) ==
  /\ \A r \in rows : \E s \in Survivors(r.key) : r = raw[s]
  /\ \A k \in KeysSeen : \E r \in rows : r.key = k
  /\ \A q, r \in rows : q.key = r.key => q = r

LEMMA StagingIsOneOfEach ==
  ASSUME TypeOK, NEW rows \in Stagings
  PROVE  OneOfEachKey(rows)
<1> DEFINE groups == {k \in Keys \cup NullKeys : Group(k) # {}}
           Picks == {p \in [groups -> Slots] :
                       \A k \in groups : p[k] \in Survivors(k)}
<1>1. PICK pick \in Picks : rows = {raw[pick[k]] : k \in groups}
  BY DEF Stagings
<1>2. \A k \in groups : pick[k] \in Survivors(k) /\ raw[pick[k]].key = k
  BY <1>1 DEF Survivors, Group
<1>3. \A k \in KeysSeen : k \in groups
  BY DEF KeysSeen, Group, Present, TypeOK, Row
<1>4. \A r \in rows : \E k \in groups : r = raw[pick[k]] /\ r.key = k
  BY <1>1, <1>2
<1>5. \A r \in rows : \E s \in Survivors(r.key) : r = raw[s]
  BY <1>2, <1>4
<1>6. \A k \in KeysSeen : \E r \in rows : r.key = k
  BY <1>1, <1>2, <1>3
<1>7. \A q, r \in rows : q.key = r.key => q = r
  BY <1>4
<1> QED BY <1>5, <1>6, <1>7 DEF OneOfEachKey

LEMMA StagedCounts ==
  ASSUME TypeOK, NEW rows, OneOfEachKey(rows)
  PROVE  /\ rows \subseteq Row
         /\ \A r \in rows : r # NoRow /\ r.key \in KeysSeen
         /\ IsFiniteSet(rows)
         /\ Cardinality(rows) = Cardinality(KeysSeen)
<1>1. \A r \in rows : \E s \in Present : r = raw[s]
  BY DEF OneOfEachKey, Survivors, Group
<1>2. /\ rows \subseteq Row
      /\ \A r \in rows : r # NoRow /\ r.key \in KeysSeen
  BY <1>1 DEF Present, KeysSeen, TypeOK
<1> DEFINE f == [k \in KeysSeen |-> CHOOSE r \in rows : r.key = k]
<1>3. \A k \in KeysSeen : f[k] \in rows /\ f[k].key = k
  BY DEF OneOfEachKey
<1>4. \A r \in rows : r = f[r.key]
  BY <1>2, <1>3 DEF OneOfEachKey
<1>5. f \in Surjection(KeysSeen, rows)
  BY <1>2, <1>3, <1>4 DEF Surjection
<1>6. f \in Injection(KeysSeen, rows)
  <2>1. f \in [KeysSeen -> rows] /\ DOMAIN f = KeysSeen
    BY <1>3
  <2> HIDE DEF f
  <2> QED BY <1>3, <2>1 DEF Injection, IsInjective
<1>7. IsFiniteSet(KeysSeen)
  BY WindowCounts
<1> HIDE DEF f
<1>8. IsFiniteSet(rows) /\ Cardinality(rows) = Cardinality(KeysSeen)
  BY <1>5, <1>6, <1>7, FS_Surjection
<1> QED BY <1>2, <1>8

\* The rows of a key in the target after the MERGE of these rows.
Merged(rows) == [k \in Keys |-> IF \E r \in Accepted(rows) : r.key = k
                                THEN CHOOSE r \in Accepted(rows) : r.key = k
                                ELSE target[k]]

LEMMA MergeTypes ==
  ASSUME TypeOK, NEW rows, OneOfEachKey(rows)
  PROVE  /\ Merged(rows) \in [Keys -> Row \cup {NoRow}]
         /\ Cardinality(Unmatched(rows)) \in Nat
         /\ Cardinality(Accepted(rows) \cup Unmatched(rows)) \in Nat
<1>1. rows \subseteq Row /\ IsFiniteSet(rows)
  BY StagedCounts
<1>2. /\ Unmatched(rows) \in SUBSET rows
      /\ Accepted(rows) \cup Unmatched(rows) \in SUBSET rows
  BY DEF Unmatched, Accepted
<1>3. \A k \in Keys : Merged(rows)[k] \in Row \cup {NoRow}
  <2> SUFFICES ASSUME NEW k \in Keys PROVE Merged(rows)[k] \in Row \cup {NoRow}
    OBVIOUS
  <2>1. CASE \E r \in Accepted(rows) : r.key = k
    <3>1. Merged(rows)[k] \in Accepted(rows)
      BY <2>1 DEF Merged
    <3> QED BY <1>1, <3>1 DEF Accepted
  <2>2. CASE ~\E r \in Accepted(rows) : r.key = k
    BY <2>2 DEF Merged, TypeOK
  <2> QED BY <2>1, <2>2
<1>4. Merged(rows) = [k \in Keys |-> Merged(rows)[k]]
  BY DEF Merged
<1> QED BY <1>1, <1>2, <1>3, <1>4, FS_Subset, FS_CardinalityType

\* The number of rows a MERGE copies is a number.
LEMMA CopiesAreNatural ==
  ASSUME TypeOK, IsFiniteSet(Keys), NEW rows, NEW copied \in Copies(rows)
  PROVE  copied \in Nat
<1> DEFINE K == {k \in Keys : /\ target[k] # NoRow
                              /\ \A r \in Accepted(rows) : r.key # k}
<1>1. Cardinality(K) \in Nat
  BY FS_Subset, FS_CardinalityType
<1>2. Kept(rows) \in Nat
  BY <1>1 DEF Kept, TypeOK
<1> QED BY <1>2 DEF Copies

----------------------------------------------------------------------------
(* Types.                                                                  *)

\* A load that has begun is within the bound.
LoadsInv == pc # "count" => loads < MaxLoads

LEMMA TypeInit == Init => TypeOK /\ LoadsInv
BY StagingAssumption DEF Init, TypeOK, LoadsInv, Unknown

LEMMA LoadsStep == LoadsInv /\ [Next]_vars => LoadsInv'
BY DEF LoadsInv, Next, Query, Change, CountSource, CountDuplicates,
       CountNullKeys, Merge, CollectMetrics, CheckExpectations, NextLoad, vars,
       counts

LEMMA TypeStep == TypeOK /\ LoadsInv /\ [Next]_vars => TypeOK'
<1> SUFFICES ASSUME TypeOK, LoadsInv, [Next]_vars PROVE TypeOK'
  OBVIOUS
<1> USE StagingAssumption
<1>1. CASE UNCHANGED vars
  BY <1>1 DEF vars, counts, TypeOK
<1>2. ASSUME NEW s \in Slots, NEW row \in Row \cup {NoRow}, Change(s, row)
      PROVE  TypeOK'
  <2>1. moves' \in 0..MaxMoves
    BY <1>2 DEF Change, TypeOK
  <2> QED BY <1>2, <2>1 DEF Change, TypeOK, counts
<1>3. CASE CountSource
  BY <1>3, WindowCounts DEF CountSource, TypeOK
<1>4. CASE CountDuplicates
  BY <1>4, WindowCounts DEF CountDuplicates, TypeOK
<1>5. CASE CountNullKeys
  BY <1>5, WindowCounts DEF CountNullKeys, TypeOK
<1>6. CASE Merge
  <2>1. PICK rows \in Stagings :
          /\ batch' = rows
          /\ target' = Merged(rows)
          /\ stray' = stray + Cardinality(Unmatched(rows))
          /\ lastWrite' = Cardinality(Accepted(rows) \cup Unmatched(rows))
          /\ \E copied \in Copies(rows) : lastOutput' = lastWrite' + copied
    BY <1>6 DEF Merge, Merged
  <2>2. OneOfEachKey(rows)
    BY StagingIsOneOfEach
  <2>3. /\ batch' \subseteq Row /\ target' \in [Keys -> Row \cup {NoRow}]
        /\ stray' \in Nat /\ lastWrite' \in Nat
    BY <2>1, <2>2, StagedCounts, MergeTypes DEF TypeOK
  <2>4. lastOutput' \in Nat
    BY <2>1, <2>3, CopiesAreNatural
  <2> QED BY <1>6, <2>3, <2>4 DEF Merge, TypeOK, counts
<1>7. CASE CollectMetrics
  BY <1>7 DEF CollectMetrics, TypeOK
<1>8. CASE CheckExpectations
  <2>1. PICK rows \in Stagings :
          violations' = Cardinality({r \in rows : r.bad})
    BY <1>8 DEF CheckExpectations
  <2>2. IsFiniteSet(rows)
    BY StagingIsOneOfEach, StagedCounts
  <2>3. violations' \in Nat
    BY <2>1, <2>2, FS_Subset, FS_CardinalityType
  <2> QED BY <1>8, <2>3 DEF CheckExpectations, TypeOK
<1>9. CASE NextLoad
  <2>1. loads' \in 0..MaxLoads
    BY <1>9 DEF NextLoad, LoadsInv, TypeOK
  <2> QED BY <1>9, <2>1 DEF NextLoad, TypeOK
<1> QED BY <1>1, <1>2, <1>3, <1>4, <1>5, <1>6, <1>7, <1>8, <1>9 DEF Next, Query

\* Every variable keeps its type; in particular duplicates_removed is never
\* negative, although COUNT DISTINCT leaves out NULL keys.
THEOREM TypeCorrect == Spec => []TypeOK
BY TypeInit, TypeStep, LoadsStep, PTL DEF Spec

----------------------------------------------------------------------------
(* What the counts say while the source keeps still.                       *)

\* Each count is the one of the window.
CountInv ==
  quiet =>
    /\ pc # "count" => count = Cardinality(Present)
    /\ pc \notin {"count", "duplicates"} => duplicates = DuplicateRows
    /\ pc \notin {"count", "duplicates", "nulls"} /\ NullCheckKeys
         => nullRows = NullKeyRows

\* The rows the MERGE has read, and whether it has written all of them.
MergeInv ==
  quiet /\ pc \in {"metrics", "expectations", "checked"} =>
    /\ OneOfEachKey(batch)
    /\ NullKeyRows = 0 => (lastWrite = Cardinality(DistinctKeys) <=> Mirrored)
    /\ lastOutput >= lastWrite
    /\ pc # "metrics" => written \in {lastOutput, lastWrite, Unknown}

\* The violations are those of a staged view.
ExpectationsInv ==
  quiet /\ pc = "checked" =>
    \E rows \in SUBSET Row : /\ OneOfEachKey(rows)
                             /\ violations = Cardinality({r \in rows : r.bad})

TiesInv == Ties \/ Distinct(raw)

QuietInv == CountInv /\ MergeInv /\ ExpectationsInv /\ TiesInv

\* The target holds the newest row of each key of the window.
Reflects(table) == \A k \in Keys : Group(k) # {} =>
                     \E s \in Survivors(k) : table[k] = raw[s]

\* Without NULL keys, a MERGE writes as many rows as there are keys exactly
\* when the guard rejects none of them, and then, and only then, the target
\* reflects the window.
LEMMA MergeIsExact ==
  ASSUME TypeOK, NEW rows, OneOfEachKey(rows), NullKeyRows = 0
  PROVE  Cardinality(Accepted(rows) \cup Unmatched(rows))
           = Cardinality(DistinctKeys)
         <=> Reflects(Merged(rows))
<1>1. /\ rows \subseteq Row /\ IsFiniteSet(rows)
      /\ Cardinality(rows) = Cardinality(KeysSeen)
      /\ \A r \in rows : r # NoRow /\ r.key \in KeysSeen
  BY StagedCounts
<1>2. DistinctKeys = KeysSeen /\ KeysSeen \cap NullKeys = {}
  BY WindowCounts DEF DistinctKeys
<1>3. \A r \in rows : r.key \in Keys
  BY <1>1, <1>2 DEF Row
<1>4. Unmatched(rows) = {}
  BY <1>1, <1>2 DEF Unmatched
<1>5. Accepted(rows) \in SUBSET rows
  BY DEF Accepted
<1>6. Cardinality(Accepted(rows) \cup Unmatched(rows)) = Cardinality(DistinctKeys)
        <=> Accepted(rows) = rows
  BY <1>1, <1>2, <1>4, <1>5, FS_Subset
<1>7. \A k \in Keys : Group(k) # {} <=> k \in KeysSeen
  BY DEF Group, KeysSeen
\* An accepted row is in the target.
<1>8. ASSUME NEW r \in Accepted(rows) PROVE Merged(rows)[r.key] = r
  <2>1. r \in rows /\ r.key \in Keys
    BY <1>3, <1>5
  <2>2. PICK q \in Accepted(rows) : q.key = r.key /\ Merged(rows)[r.key] = q
    BY <2>1 DEF Merged
  <2> QED BY <1>5, <2>1, <2>2 DEF OneOfEachKey
<1>9. ASSUME Accepted(rows) = rows PROVE Reflects(Merged(rows))
  <2> SUFFICES ASSUME NEW k \in Keys, k \in KeysSeen
               PROVE  \E s \in Survivors(k) : Merged(rows)[k] = raw[s]
    BY <1>7 DEF Reflects
  <2>1. PICK r \in rows : r.key = k
    BY DEF OneOfEachKey
  <2>2. PICK s \in Survivors(k) : r = raw[s]
    BY <2>1 DEF OneOfEachKey
  <2> QED BY <1>8, <1>9, <2>1, <2>2
\* A rejected row is older than the one in the target, which is then not of
\* this window.
<1>10. ASSUME Reflects(Merged(rows)), NEW r \in rows, r \notin Accepted(rows)
       PROVE  FALSE
  <2>1. r.key \in Keys /\ r.key \in KeysSeen
    BY <1>1, <1>3, <1>10
  <2>2. target[r.key] # NoRow /\ ~(r.wm >= target[r.key].wm)
    BY <1>10, <2>1 DEF Accepted
  <2>3. ~\E q \in Accepted(rows) : q.key = r.key
    BY <1>5, <1>10 DEF OneOfEachKey
  <2>4. Merged(rows)[r.key] = target[r.key]
    BY <2>1, <2>3 DEF Merged
  <2>5. PICK s \in Survivors(r.key) : target[r.key] = raw[s]
    BY <1>7, <1>10, <2>1, <2>4 DEF Reflects
  <2>6. PICK q \in Survivors(r.key) : r = raw[q]
    BY <1>10 DEF OneOfEachKey
  <2>7. raw[s].wm <= raw[q].wm
    BY <2>5, <2>6 DEF Survivors
  <2>8. raw[s].wm \in Int /\ raw[q].wm \in Int
    BY <2>5, <2>6 DEF Survivors, Group, Present, TypeOK, Row
  <2> QED BY <2>2, <2>5, <2>6, <2>7, <2>8
<1> QED BY <1>5, <1>6, <1>9, <1>10

\* A step that leaves the window alone leaves alone what is defined from it.
LEMMA WindowStays ==
  ASSUME raw' = raw
  PROVE  /\ Present' = Present /\ DuplicateRows' = DuplicateRows
         /\ NullKeyRows' = NullKeyRows /\ DistinctKeys' = DistinctKeys
         /\ \A rows : OneOfEachKey(rows)' <=> OneOfEachKey(rows)
         /\ Mirrored' <=> NullKeyRows = 0 /\ Reflects(target')
         /\ Mirrored <=> NullKeyRows = 0 /\ Reflects(target)
         /\ TiesInv' <=> TiesInv
<1>1. Present' = Present
  BY DEF Present
<1>2. /\ \A k : Group(k)' = Group(k)
      /\ KeysSeen' = KeysSeen
      /\ NullKeyRows' = NullKeyRows
      /\ DuplicateRows' = DuplicateRows
  BY <1>1 DEF Group, KeysSeen, NullKeyRows, DuplicateRows
<1>3. \A k : Survivors(k)' = Survivors(k)
  BY <1>2 DEF Survivors
<1>4. \A rows : OneOfEachKey(rows)' <=> OneOfEachKey(rows)
  BY <1>2, <1>3 DEF OneOfEachKey
<1>5. DistinctKeys' = DistinctKeys
  BY <1>2 DEF DistinctKeys
<1>6. Mirrored' <=> NullKeyRows = 0 /\ Reflects(target')
  BY <1>2, <1>3 DEF Mirrored, Reflects
<1>7. Mirrored <=> NullKeyRows = 0 /\ Reflects(target)
  BY DEF Mirrored, Reflects
<1>8. TiesInv' <=> TiesInv
  BY DEF TiesInv, Distinct
<1> QED BY <1>1, <1>2, <1>4, <1>5, <1>6, <1>7, <1>8

LEMMA QuietStep == TypeOK /\ QuietInv /\ [Next]_vars => QuietInv'
<1> SUFFICES ASSUME TypeOK, QuietInv, [Next]_vars PROVE QuietInv'
  OBVIOUS
<1>1. ASSUME NEW s \in Slots, NEW row \in Row \cup {NoRow}, Change(s, row)
      PROVE  QuietInv'
  BY <1>1 DEF Change, QuietInv, CountInv, MergeInv, ExpectationsInv, TiesInv
<1>2. CASE /\ UNCHANGED <<raw, target, lastWrite, lastOutput, batch, quiet>>
           /\ pc' = pc /\ counts' = counts
  BY <1>2, WindowStays
     DEF QuietInv, CountInv, MergeInv, ExpectationsInv, counts
<1>3. CASE CountSource
  <2>1. raw' = raw /\ pc' = "duplicates" /\ count' = Cardinality(Present)
    BY <1>3 DEF CountSource
  <2> QED BY <2>1, WindowStays
          DEF QuietInv, CountInv, MergeInv, ExpectationsInv
<1>4. CASE CountDuplicates
  <2>1. /\ raw' = raw /\ pc' \in {"nulls", "merge"} /\ duplicates' = DuplicateRows
        /\ pc = "duplicates" /\ quiet' = quiet /\ count' = count
        /\ NullCheckKeys => pc' = "nulls"
    BY <1>4 DEF CountDuplicates
  <2> QED BY <2>1, WindowStays
          DEF QuietInv, CountInv, MergeInv, ExpectationsInv
<1>5. CASE CountNullKeys
  <2>1. /\ raw' = raw /\ pc' = "merge" /\ nullRows' = NullKeyRows
        /\ pc = "nulls" /\ quiet' = quiet /\ count' = count
        /\ duplicates' = duplicates
    BY <1>5 DEF CountNullKeys
  <2> QED BY <2>1, WindowStays
          DEF QuietInv, CountInv, MergeInv, ExpectationsInv
<1>6. CASE Merge
  <2>1. PICK rows \in Stagings :
          /\ batch' = rows
          /\ target' = Merged(rows)
          /\ lastWrite' = Cardinality(Accepted(rows) \cup Unmatched(rows))
          /\ \E copied \in Copies(rows) : lastOutput' = lastWrite' + copied
    BY <1>6 DEF Merge, Merged
  <2>2. OneOfEachKey(rows)
    BY StagingIsOneOfEach
  <2>3. /\ raw' = raw /\ pc' = "metrics" /\ pc = "merge" /\ quiet' = quiet
        /\ counts' = counts
    BY <1>6 DEF Merge
  <2>4. NullKeyRows = 0 =>
          (lastWrite' = Cardinality(DistinctKeys) <=> Reflects(target'))
    BY <2>1, <2>2, MergeIsExact
  <2>5. MergeInv'
    <3>1. lastOutput' >= lastWrite'
      BY <2>1, <2>2, MergeTypes, CopiesAreNatural, StagingAssumption
    <3> QED BY <2>1, <2>2, <2>3, <2>4, <3>1, WindowStays DEF MergeInv
  <2>6. CountInv' /\ ExpectationsInv' /\ TiesInv'
    BY <2>3, WindowStays DEF QuietInv, CountInv, ExpectationsInv, counts
  <2> QED BY <2>5, <2>6 DEF QuietInv
<1>7. CASE CollectMetrics
  <2>1. /\ UNCHANGED <<raw, target, lastWrite, lastOutput, batch, quiet>>
        /\ UNCHANGED <<count, duplicates, nullRows>>
        /\ pc = "metrics" /\ pc' = "expectations"
        /\ written' \in {lastOutput, lastWrite, Unknown}
    BY <1>7 DEF CollectMetrics
  <2> QED BY <2>1, WindowStays
          DEF QuietInv, CountInv, MergeInv, ExpectationsInv
<1>8. CASE CheckExpectations
  <2>1. /\ UNCHANGED <<raw, target, lastWrite, lastOutput, batch, quiet>>
        /\ UNCHANGED <<count, duplicates, nullRows, written>>
        /\ pc = "expectations" /\ pc' = "checked"
    BY <1>8 DEF CheckExpectations
  <2>2. PICK rows \in Stagings :
          violations' = Cardinality({r \in rows : r.bad})
    BY <1>8 DEF CheckExpectations
  <2>3. OneOfEachKey(rows) /\ rows \in SUBSET Row
    BY StagingIsOneOfEach, StagedCounts
  <2>4. ExpectationsInv'
    BY <2>1, <2>2, <2>3, WindowStays DEF ExpectationsInv
  <2>5. CountInv' /\ MergeInv' /\ TiesInv'
    BY <2>1, WindowStays DEF QuietInv, CountInv, MergeInv
  <2> QED BY <2>4, <2>5 DEF QuietInv
<1>9. CASE NextLoad
  <2>1. raw' = raw /\ pc' = "count"
    BY <1>9 DEF NextLoad
  <2> QED BY <2>1, WindowStays
          DEF QuietInv, CountInv, MergeInv, ExpectationsInv
<1>10. CASE UNCHANGED vars
  BY <1>2, <1>10 DEF vars
<1> QED BY <1>1, <1>3, <1>4, <1>5, <1>6, <1>7, <1>8, <1>9, <1>10 DEF Next, Query

LEMMA Quiet == Spec => [](TypeOK /\ QuietInv)
<1>1. Init => QuietInv
  BY DEF Init, QuietInv, CountInv, MergeInv, ExpectationsInv, TiesInv
<1> QED BY <1>1, QuietStep, TypeCorrect, TypeInit, PTL DEF Spec

(***************************************************************************)
(* While the source keeps still, reconcile_row_count and check_null_keys   *)
(* judge a load exactly when rows_written is what the MERGE has inserted   *)
(* and updated: duplicates, NULL keys and rejected rows never cancel out,  *)
(* whatever the window, the target and the ties. When numOutputRows counts *)
(* copied rows too, a shortfall is still a rejected row.                   *)
(***************************************************************************)
THEOREM CountChecksAreExact == Spec => []ChecksAreExact
<1>1. ASSUME TypeOK, QuietInv PROVE ChecksAreExact
  <2> SUFFICES ASSUME pc = "checked", quiet, written # Unknown, NullCheckKeys
               PROVE  /\ written = lastWrite => (CountsOk <=> Mirrored)
                      /\ written + duplicates < count => ~Mirrored
    BY DEF ChecksAreExact
  <2>1. /\ count = Cardinality(Present) /\ duplicates = DuplicateRows
        /\ nullRows = NullKeyRows /\ written \in {lastOutput, lastWrite}
        /\ lastOutput >= lastWrite
        /\ NullKeyRows = 0 =>
             (lastWrite = Cardinality(DistinctKeys) <=> Mirrored)
    BY <1>1 DEF QuietInv, CountInv, MergeInv
  <2>2. /\ Cardinality(Present) \in Nat /\ Cardinality(DistinctKeys) \in Nat
        /\ duplicates = Cardinality(Present) - Cardinality(DistinctKeys)
        /\ nullRows \in Nat /\ lastWrite \in Nat /\ lastOutput \in Nat
    BY <1>1, <2>1, WindowCounts DEF TypeOK
  <2>3. CountsOk <=> written + duplicates = count /\ nullRows = 0
    <3>1. nullRows # Unknown
      BY <2>2 DEF Unknown
    <3>2. ReconcileRowCount = "FAILED" <=> written + duplicates # count
      BY DEF ReconcileRowCount
    <3>3. CheckNullKeys = "FAILED" <=> nullRows # 0
      BY <3>1 DEF CheckNullKeys
    <3>4. CheckDuplicates # "FAILED"
      BY DEF CheckDuplicates
    <3> QED BY <3>2, <3>3, <3>4 DEF CountsOk
  <2>4. /\ written + duplicates = count <=> written = Cardinality(DistinctKeys)
        /\ written + duplicates < count => written < Cardinality(DistinctKeys)
    <3>1. \A a, b, w \in Nat : /\ w + (a - b) = a <=> w = b
                               /\ w + (a - b) < a => w < b
      OBVIOUS
    <3>2. /\ written + (Cardinality(Present) - Cardinality(DistinctKeys))
               = Cardinality(Present)
             <=> written = Cardinality(DistinctKeys)
          /\ written + (Cardinality(Present) - Cardinality(DistinctKeys))
               < Cardinality(Present)
             => written < Cardinality(DistinctKeys)
      BY <2>1, <2>2, <3>1
    <3> QED BY <2>1, <2>2, <3>2
  <2>5. Mirrored => NullKeyRows = 0
    BY DEF Mirrored
  <2>6. ASSUME written = lastWrite PROVE CountsOk <=> Mirrored
    BY <2>1, <2>3, <2>4, <2>5, <2>6
  <2>7. ASSUME written + duplicates < count PROVE ~Mirrored
    <3>1. lastWrite < Cardinality(DistinctKeys)
      BY <2>1, <2>2, <2>4, <2>7
    <3> QED BY <2>1, <2>2, <2>5, <3>1
  <2> QED BY <2>6, <2>7
<1> QED BY <1>1, Quiet, PTL

\* Without ties there is one staged view.
LEMMA StagingIsUnique ==
  ASSUME TypeOK, Distinct(raw), NEW rows, NEW other, OneOfEachKey(rows),
         OneOfEachKey(other), NEW r \in rows
  PROVE  r \in other
<1>1. r.key \in KeysSeen
  BY StagedCounts
<1>2. PICK q \in other : q.key = r.key
  BY <1>1 DEF OneOfEachKey
<1>3. PICK s \in Survivors(r.key) : r = raw[s]
  BY DEF OneOfEachKey
<1>4. PICK t \in Survivors(r.key) : q = raw[t]
  BY <1>2 DEF OneOfEachKey
<1>5. /\ raw[s].wm <= raw[t].wm /\ raw[t].wm <= raw[s].wm
      /\ s \in Slots /\ t \in Slots /\ raw[s] # NoRow
      /\ raw[s].wm \in Int /\ raw[t].wm \in Int
  BY <1>3, <1>4 DEF Survivors, Group, Present, TypeOK, Row
<1>6. raw[s].wm = raw[t].wm
  BY <1>5
<1>7. s = t
  BY <1>2, <1>3, <1>4, <1>5, <1>6 DEF Distinct
<1> QED BY <1>2, <1>3, <1>4, <1>7

(***************************************************************************)
(* When the source keeps still and no two rows of a key tie, a load that   *)
(* passes has written no row that violates a failing expectation: the view *)
(* that Reconciler._evaluate reads again is the one the MERGE has read.    *)
(***************************************************************************)
THEOREM PassedLoadsAreGood == Spec => []PassedRowsAreGood
<1>1. ASSUME TypeOK, QuietInv PROVE PassedRowsAreGood
  <2> SUFFICES ASSUME pc = "checked", quiet, ~Ties, ExpectationAction = "fail",
                      ReportOk, NEW r \in batch
               PROVE  ~r.bad
    BY DEF PassedRowsAreGood
  <2>1. Distinct(raw) /\ OneOfEachKey(batch)
    BY <1>1 DEF QuietInv, TiesInv, MergeInv
  <2>2. PICK rows \in SUBSET Row :
          /\ OneOfEachKey(rows)
          /\ violations = Cardinality({q \in rows : q.bad})
    BY <1>1 DEF QuietInv, ExpectationsInv
  <2>3. violations = 0
    BY DEF ReportOk, EvaluateExpectation
  <2>4. IsFiniteSet(rows)
    BY <1>1, <2>2, StagedCounts
  <2>5. {q \in rows : q.bad} = {}
    BY <2>2, <2>3, <2>4, FS_Subset, FS_EmptySet
  <2>6. r \in rows
    BY <1>1, <2>1, <2>2, StagingIsUnique
  <2> QED BY <2>5, <2>6
<1> QED BY <1>1, Quiet, PTL
=============================================================================
