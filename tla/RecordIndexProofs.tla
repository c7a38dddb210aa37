--------------------------- MODULE RecordIndexProofs ---------------------------
(***************************************************************************)
(* What looking for a record in the index finds, and what reading its      *)
(* blocks leaves in the cache, for any index: the facts the theorems about *)
(* the readers rest on.                                                    *)
(***************************************************************************)
EXTENDS RecordIndex, RecordCache, FiniteSetTheorems, WellFoundedInduction, TLAPS

(* A set of natural numbers has a least element. *)
LEMMA HasLeast ==
  ASSUME NEW S, S \subseteq Nat, S # {}
  PROVE  \E x \in S : \A y \in S : x <= y
<1>1. PICK x \in S : \A y \in S : ~(<<y, x>> \in OpToRel(<, Nat))
  BY WFMin, NatLessThanWellFounded, Zenon
<1>2. \A y \in S : ~(y < x)
  BY <1>1 DEF OpToRel
<1> QED
  BY <1>2

(* What holds at 0 and is handed on from each number below n to the next *)
(* holds up to n.                                                        *)
LEMMA Induction ==
  ASSUME NEW n \in Nat, NEW S, 0 \in S, \A k \in 0..(n-1) : k \in S => k + 1 \in S
  PROVE  0..n \subseteq S
<1> DEFINE Out == (0..n) \ S
<1> SUFFICES ASSUME Out # {} PROVE FALSE
  OBVIOUS
<1>1. Out \subseteq Nat
  OBVIOUS
<1>2. PICK x \in Out : \A y \in Out : x <= y
  <2> HIDE DEF Out
  <2> QED BY <1>1, HasLeast
<1>3. x - 1 \in 0..(n-1) /\ x - 1 \in S
  BY <1>2
<1> QED
  BY <1>3

(* f starts at base and goes on by the steps.                              *)
Iterates(f, n, base, step) == f[0] = base /\ \A i \in 1..n : f[i] = step[i][f[i-1]]

(* There is such a function: what a recursive definition chooses exists. *)
LEMMA Recursion ==
  ASSUME NEW n \in Nat, NEW D, NEW base \in D, NEW step \in [1..n -> [D -> D]]
  PROVE  \E f \in [0..n -> D] : Iterates(f, n, base, step)
<1> DEFINE S == {k \in 0..n : \E f \in [0..k -> D] : Iterates(f, k, base, step)}
<1>1. 0 \in S
  <2>1. [i \in 0..0 |-> base] \in [0..0 -> D] /\ Iterates([i \in 0..0 |-> base], 0, base, step)
    BY DEF Iterates
  <2> QED BY <2>1
<1>2. ASSUME NEW k \in 0..(n-1), k \in S PROVE k + 1 \in S
  <2>1. PICK f \in [0..k -> D] : Iterates(f, k, base, step)
    BY <1>2
  <2> DEFINE g == [i \in 0..(k+1) |-> IF i = k + 1 THEN step[k + 1][f[k]] ELSE f[i]]
  <2>2. g \in [0..(k+1) -> D]
    <3>1. k + 1 \in 1..n /\ f[k] \in D
      OBVIOUS
    <3>2. step[k + 1][f[k]] \in D
      BY <3>1
    <3> QED
      BY <3>2
  <2>3. g[0] = base
    BY <2>1 DEF Iterates
  <2>4. ASSUME NEW i \in 1..(k+1) PROVE g[i] = step[i][g[i-1]]
    <3>1. CASE i = k + 1
      <4>1. g[k + 1] = step[k + 1][f[k]] /\ g[k] = f[k] /\ i - 1 = k
        BY <3>1
      <4> HIDE DEF g
      <4> QED
        BY <3>1, <4>1
    <3>2. CASE i \in 1..k
      BY <3>2, <2>1 DEF Iterates
    <3> QED BY <3>1, <3>2
  <2>5. Iterates(g, k + 1, base, step)
    BY <2>3, <2>4 DEF Iterates
  <2> HIDE DEF g
  <2> QED
    BY <2>2, <2>5
<1>3. n \in S
  <2> HIDE DEF S
  <2>1. 0..n \subseteq S
    BY <1>1, <1>2, Induction
  <2> QED
    BY <2>1
<1> QED
  BY <1>3

(* A set of records has a last one. *)
LEMMA HasLast ==
  ASSUME NEW S, S \subseteq Index, S # {}
  PROVE  \E x \in S : \A y \in S : y <= x
<1> DEFINE fromEnd == {N - i : i \in S}
<1>1. fromEnd \subseteq Nat /\ fromEnd # {}
  BY RecordIndexAssumption DEF Index
<1>2. PICK x \in fromEnd : \A y \in fromEnd : x <= y
  BY <1>1, HasLeast, Zenon
<1>3. PICK i \in S : x = N - i
  BY <1>2
<1>4. \A j \in S : N - i <= N - j
  BY <1>2, <1>3
<1>5. i \in S /\ \A j \in S : j <= i
  BY <1>4, RecordIndexAssumption DEF Index
<1> QED
  BY <1>5

(* gotoTime stays in the file. *)
LEMMA LowerBoundType ==
  ASSUME NEW t
  PROVE  LowerBound(t) \in 0..N
<1> DEFINE S == {i \in Index : Timestamp[i] < t}
<1>1. IsFiniteSet(0..(N - 1)) /\ Cardinality(0..(N - 1)) = N
  BY FS_Interval, RecordIndexAssumption
<1>2. IsFiniteSet(S) /\ Cardinality(S) <= N
  BY <1>1, FS_Subset DEF Index
<1>3. Cardinality(S) \in Nat
  BY <1>2, FS_CardinalityType
<1> QED
  BY <1>2, <1>3, RecordIndexAssumption DEF LowerBound

(* Min and Max of records are records of the set, none before, none behind. *)
LEMMA MinFound ==
  ASSUME NEW S, S \subseteq Index, S # {}
  PROVE  Min(S) \in S /\ \A i \in S : Min(S) <= i
<1>1. S \subseteq Nat
  BY RecordIndexAssumption DEF Index
<1>2. \E i \in S : \A j \in S : i <= j
  BY <1>1, HasLeast
<1> QED
  BY <1>2 DEF Min

LEMMA MaxFound ==
  ASSUME NEW S, S \subseteq Index, S # {}
  PROVE  Max(S) \in S /\ \A i \in S : i <= Max(S)
<1>1. \E i \in S : \A j \in S : i >= j
  BY HasLast DEF Index
<1> QED
  BY <1>1 DEF Max, Index

(* The record looked up by stream, types and number is a record. *)
LEMMA RecordOfType ==
  \A s, types, k : RecordOf(s, types, k) \subseteq Index
BY DEF RecordOf, RecordsOf

-----------------------------------------------------------------------------
(* How many records of S are in front of i. *)
Rank(S, i) == Cardinality({j \in S : j < i})

(* Records are ordered by their index. *)
LEMMA IndexOrder ==
  /\ Index \subseteq Nat
  /\ \A i \in Index : ~(i < i)
  /\ \A i, k \in Index : ~(i < k) /\ ~(k < i) => i = k
  /\ \A i, k \in Index : i < k => ~(k < i)
BY RecordIndexAssumption DEF Index

(* Sets of records are finite. *)
LEMMA RecordsFinite ==
  ASSUME NEW S, S \subseteq Index
  PROVE  IsFiniteSet(S) /\ Cardinality(S) \in Nat /\ Cardinality(S) <= N
<1>1. IsFiniteSet(0..(N - 1)) /\ Cardinality(0..(N - 1)) = N
  BY FS_Interval, RecordIndexAssumption
<1>2. IsFiniteSet(S) /\ Cardinality(S) <= N
  BY <1>1, FS_Subset DEF Index
<1> QED
  BY <1>2, FS_CardinalityType

(* Later records have a greater rank. *)
LEMMA RankGrows ==
  ASSUME NEW S, S \subseteq Index, NEW i \in S, NEW k \in S, i < k
  PROVE  Rank(S, i) \in Nat /\ Rank(S, k) \in Nat /\ Rank(S, i) < Rank(S, k)
<1> DEFINE A == {j \in S : j < i}
           B == {j \in S : j < k}
<1>1. A \subseteq Index /\ B \subseteq Index
  OBVIOUS
<1>2. A \subseteq B /\ i \in B /\ i \notin A
  BY RecordIndexAssumption DEF Index
<1> HIDE DEF A, B
<1>3. IsFiniteSet(B) /\ Cardinality(A) \in Nat /\ Cardinality(B) \in Nat
  BY <1>1, RecordsFinite
<1>4. Cardinality(A) <= Cardinality(B) /\ Cardinality(A) # Cardinality(B)
  <2>1. A \in SUBSET B
    BY <1>2
  <2>2. Cardinality(A) <= Cardinality(B) /\ (Cardinality(B) = Cardinality(A) => B = A)
    BY <1>3, <2>1, FS_Subset
  <2> QED
    BY <1>2, <2>2
<1>5. Cardinality(A) < Cardinality(B)
  BY <1>3, <1>4
<1> QED
  BY <1>3, <1>5 DEF Rank, A, B

(* The ranks of the records of S are 0 to |S| - 1. *)
LEMMA RankOnto ==
  ASSUME NEW S, S \subseteq Index
  PROVE  /\ \A i \in S : Rank(S, i) \in 0..(Cardinality(S) - 1)
         /\ \A k \in 0..(Cardinality(S) - 1) : \E i \in S : Rank(S, i) = k
<1> DEFINE n == Cardinality(S)
           rank == [i \in S |-> Rank(S, i)]
           T == 0..(n - 1)
<1>1. IsFiniteSet(S) /\ n \in Nat
  BY RecordsFinite
<1>2. ASSUME NEW i \in S PROVE Rank(S, i) \in 0..(n - 1)
  <2> DEFINE A == {j \in S : j < i}
  <2>1. A \subseteq Index /\ A \in SUBSET S /\ i \notin A
    BY IndexOrder
  <2> HIDE DEF A
  <2>2. Cardinality(A) \in Nat /\ Cardinality(A) <= n /\ Cardinality(A) # n
    BY <1>1, <2>1, FS_Subset, RecordsFinite
  <2> QED
    BY <1>1, <2>2 DEF Rank, A
<1>3. IsFiniteSet(T) /\ Cardinality(T) = n
  BY <1>1, FS_Interval
<1>4. rank \in Injection(S, T)
  <2>1. rank \in [S -> T]
    BY <1>2
  <2>2. ASSUME NEW i \in S, NEW k \in S, Rank(S, i) = Rank(S, k) PROVE i = k
    <3>1. ~(i < k) /\ ~(k < i)
      BY <2>2, RankGrows
    <3> QED
      BY <3>1, IndexOrder
  <2>3. IsInjective(rank)
    BY <2>2 DEF IsInjective
  <2> QED
    BY <2>1, <2>3 DEF Injection
<1>5. rank \in Surjection(S, T)
  <2> HIDE DEF rank, T, n
  <2> QED
    BY <1>3, <1>4, FS_Injection DEF n
<1> QED
  BY <1>2, <1>5 DEF Surjection

(* InOrder lists each record of a set once, in the order of the index. *)
LEMMA InOrderLists ==
  ASSUME NEW S, S \subseteq Index
  PROVE  /\ Cardinality(S) \in Nat /\ Cardinality(S) <= N
         /\ DOMAIN InOrder(S) = 1..Cardinality(S) /\ Len(InOrder(S)) = Cardinality(S)
         /\ Range(InOrder(S)) = S
         /\ \A a, b \in 1..Cardinality(S) : a < b => InOrder(S)[a] < InOrder(S)[b]
<1> DEFINE n == Cardinality(S)
           list == InOrder(S)
<1>1. n \in Nat /\ n <= N
  BY RecordsFinite
<1>2. DOMAIN list = 1..n
  BY DEF InOrder
<1>3. ASSUME NEW a \in 1..n PROVE list[a] \in S /\ Rank(S, list[a]) = a - 1
  <2>1. a - 1 \in 0..(n - 1)
    BY <1>1
  <2>2. \E i \in S : Rank(S, i) = a - 1
    BY <2>1, RankOnto
  <2>3. list[a] = CHOOSE i \in S : Rank(S, i) = a - 1
    BY DEF InOrder, Rank
  <2> QED
    BY <2>2, <2>3
<1>4. ASSUME NEW i \in S PROVE \E a \in 1..n : list[a] = i
  <2>1. Rank(S, i) \in 0..(n - 1)
    BY RankOnto
  <2> DEFINE a == Rank(S, i) + 1
  <2>2. a \in 1..n /\ a - 1 = Rank(S, i)
    BY <1>1, <2>1
  <2> HIDE DEF a
  <2>3. list[a] \in S /\ Rank(S, list[a]) = Rank(S, i)
    BY <1>3, <2>2
  <2>4. ~(list[a] < i) /\ ~(i < list[a])
    BY <2>3, RankGrows
  <2>5. list[a] = i
    BY <2>3, <2>4, IndexOrder
  <2> QED
    BY <2>2, <2>5
<1>5. Range(list) = S
  BY <1>2, <1>3, <1>4 DEF Range
<1>6. ASSUME NEW a \in 1..n, NEW b \in 1..n, a < b PROVE list[a] < list[b]
  <2>1. /\ list[a] \in S /\ list[b] \in S
        /\ Rank(S, list[a]) = a - 1 /\ Rank(S, list[b]) = b - 1
    BY <1>3
  <2>2. list[a] # list[b]
    BY <1>1, <1>6, <2>1
  <2>3. ~(list[b] < list[a])
    <3> SUFFICES ASSUME list[b] < list[a] PROVE FALSE
      OBVIOUS
    <3>1. b - 1 < a - 1
      BY <2>1, RankGrows
    <3> QED
      BY <1>1, <1>6, <3>1
  <2> QED
    BY <2>1, <2>2, <2>3, IndexOrder
<1>7. Len(list) = n
  BY <1>1, <1>2
<1> QED
  BY <1>1, <1>2, <1>5, <1>6, <1>7

(* The list is a sequence of records of the set. *)
LEMMA InOrderSeq ==
  ASSUME NEW S, S \subseteq Index
  PROVE  InOrder(S) \in Seq(S)
<1>1. /\ Cardinality(S) \in Nat /\ DOMAIN InOrder(S) = 1..Cardinality(S)
      /\ Range(InOrder(S)) = S
  BY InOrderLists
<1>2. \A a \in 1..Cardinality(S) : InOrder(S)[a] \in S
  BY <1>1 DEF Range
<1>3. InOrder(S) = [a \in 1..Cardinality(S) |-> InOrder(S)[a]]
  BY DEF InOrder
<1> QED
  BY <1>1, <1>2, <1>3

-----------------------------------------------------------------------------
(* What is listed and looked up ahead of an index.                         *)

(* The least element of a set of numbers is its minimum. *)
LEMMA MinIs ==
  ASSUME NEW S, S \subseteq Nat, NEW m \in S, \A i \in S : m <= i
  PROVE  Min(S) = m
<1>1. \A x \in S : (\A i \in S : x <= i) => x = m
  OBVIOUS
<1> QED
  BY <1>1 DEF Min

(* The first record of the enabled streams from an index on is the first   *)
(* one getEnabledStreamsRecordsInfo lists from there, whether it lists all *)
(* records or those of some streams.                                       *)
LEMMA ListedFirst ==
  ASSUME NEW enabled, enabled \subseteq Streams, NEW c \in 0..N,
         NEW r \in Index, c <= r, Stream[r] \in enabled,
         \A j \in c..(r - 1) : Stream[j] \notin enabled
  PROVE  LET infos == GetEnabledStreamsRecordsInfo(enabled)
             ahead == {k \in DOMAIN infos : infos[k].record_index >= c}
         IN ahead # {} /\ infos[Min(ahead)] = RecordInfo(r, r)
<1> DEFINE infos == GetEnabledStreamsRecordsInfo(enabled)
           ahead == {k \in DOMAIN infos : infos[k].record_index >= c}
<1>1. CASE Cardinality(enabled) = Cardinality(Streams)
  <2>1. enabled = Streams
    BY <1>1, StreamsAssumption, FS_Subset
  <2>2. c = r
    <3>1. \A j \in c..(r - 1) : j \in Index
      BY RecordIndexAssumption DEF Index
    <3>2. \A j \in Index : Stream[j] \in enabled
      BY <2>1, RecordIndexAssumption
    <3>3. c \notin c..(r - 1)
      BY <3>1, <3>2
    <3> QED
      BY <3>3, RecordIndexAssumption DEF Index
  <2>3. infos = [k \in 1..N |-> RecordInfo(k - 1, k - 1)]
    BY <1>1 DEF GetEnabledStreamsRecordsInfo, GetAllRecordsInfo
  <2>4. ahead = {k \in 1..N : k - 1 >= c}
    BY <2>3 DEF RecordInfo
  <2>5. Min(ahead) = c + 1
    <3>1. {k \in 1..N : k - 1 >= c} \subseteq Nat
      OBVIOUS
    <3>2. c + 1 \in {k \in 1..N : k - 1 >= c}
      BY <2>2, RecordIndexAssumption DEF Index
    <3>3. \A k \in {k \in 1..N : k - 1 >= c} : c + 1 <= k
      OBVIOUS
    <3> QED
      BY <2>4, <3>1, <3>2, <3>3, MinIs, Zenon
  <2>6. c + 1 \in 1..N /\ (c + 1) - 1 = r
    BY <2>2, RecordIndexAssumption DEF Index
  <2>7. infos[c + 1] = RecordInfo(r, r) /\ c + 1 \in ahead
    BY <2>2, <2>3, <2>4, <2>6
  <2> QED
    BY <2>5, <2>7, Zenon
<1>2. CASE Cardinality(enabled) # Cardinality(Streams)
  <2> DEFINE S == {i \in Index : Stream[i] \in enabled}
             list == InOrder(S)
             n == Cardinality(S)
  <2>1. S \subseteq Index /\ r \in S
    OBVIOUS
  <2>2. infos = [k \in DOMAIN list |-> RecordInfo(list[k], list[k])]
    BY <1>2 DEF GetEnabledStreamsRecordsInfo
  <2>3. \A i \in S : Stream[i] \in enabled
    OBVIOUS
  <2> HIDE DEF S
  <2>4. /\ n \in Nat /\ DOMAIN list = 1..n /\ Range(list) = S
        /\ \A a, b \in 1..n : a < b => list[a] < list[b]
    BY <2>1, InOrderLists
  <2>5. PICK m \in 1..n : list[m] = r
    BY <2>1, <2>4 DEF Range
  <2>6. \A k \in 1..n : list[k] \in S
    BY <2>4 DEF Range
  <2> HIDE DEF list, n
  <2>7. ahead = {k \in 1..n : list[k] >= c}
    BY <2>2, <2>4 DEF RecordInfo
  <2>8. \A k \in 1..n : list[k] >= c => m <= k
    <3> SUFFICES ASSUME NEW k \in 1..n, list[k] >= c, k < m PROVE FALSE
      BY <2>4, <2>5
    <3>1. list[k] < r /\ list[k] \in S
      BY <2>4, <2>5, <2>6
    <3>2. \A j \in Index : j >= c /\ j < r => j \in c..(r - 1)
      BY RecordIndexAssumption DEF Index
    <3> QED
      BY <2>1, <2>3, <3>1, <3>2
  <2>9. m \in ahead /\ Min(ahead) = m
    <3>1. m \in ahead /\ ahead \subseteq Nat
      BY <2>4, <2>5, <2>7, RecordIndexAssumption DEF Index
    <3>2. \A k \in ahead : m <= k
      BY <2>7, <2>8
    <3> HIDE DEF ahead
    <3> QED
      BY <3>1, <3>2, MinIs
  <2>10. infos[m] = RecordInfo(r, r)
    BY <2>2, <2>4, <2>5
  <2> QED
    BY <2>9, <2>10, Zenon
<1> QED
  BY <1>1, <1>2, Zenon

(* The first of a set of records from an index on is the one getNextIndex  *)
(* answers for it.                                                         *)
LEMMA NextIndexIsFirst ==
  ASSUME NEW enabled, NEW s, NEW types, NEW c \in 0..N, NEW r \in Index, c <= r,
         r \in Matching(enabled, {s}, types),
         \A j \in c..(r - 1) : j \notin Matching(enabled, {s}, types)
  PROVE  GetNextIndex(enabled, s, types, c) = r
<1> DEFINE M == Matching(enabled, {s}, types)
           S == {j \in M : j >= c}
<1>1. M \subseteq Index /\ r \in M
  BY DEF Matching
<1>2. GetNextIndex(enabled, s, types, c) = FirstOf(S)
  BY DEF GetNextIndex
<1>3. S \subseteq Nat /\ r \in S
  <2>1. Index \subseteq Nat /\ r >= c
    BY RecordIndexAssumption DEF Index
  <2> HIDE DEF M
  <2> QED
    BY <1>1, <2>1
<1> HIDE DEF M
<1>4. \A j \in S : r <= j
  <2> SUFFICES ASSUME NEW j \in M, j >= c, j < r PROVE FALSE
    BY <1>1, RecordIndexAssumption DEF Index
  <2>1. j \in c..(r - 1)
    BY <1>1, RecordIndexAssumption DEF Index
  <2> QED
    BY <2>1 DEF M
<1> HIDE DEF S
<1> QED
  BY <1>2, <1>3, <1>4, MinIs DEF FirstOf

-----------------------------------------------------------------------------
(* The blocks of a record.                                                 *)

(* The lists of blocks of record r. *)
BlockLists(r) == Seq({r} \X Nat)

(* read goes through the first n blocks of the record. *)
Reading(read, kind, blocks, r, n) ==
  /\ read[0] = blocks
  /\ \A b \in 1..n : read[b] = AddBlock(kind, read[b - 1], r, b - 1)

LEMMA AddBlockType ==
  ASSUME NEW kind, NEW r, NEW blocks \in BlockLists(r), NEW b \in Nat
  PROVE  AddBlock(kind, blocks, r, b) \in BlockLists(r)
<1>1. <<r, b>> \in {r} \X Nat
  OBVIOUS
<1> DEFINE D == {r} \X Nat
           x == <<r, b>>
<1>2. Append(blocks, x) \in Seq(D) /\ <<x>> \in Seq(D) /\ blocks \in Seq(D)
  <2>1. x \in D /\ blocks \in Seq(D)
    BY DEF BlockLists
  <2> HIDE DEF x, D
  <2> QED
    BY <2>1
<1>3. SetBlock(blocks, r, b) \in Seq(D)
  BY <1>2, Zenon DEF SetBlock
<1> QED
  BY <1>2, <1>3, Zenon DEF AddBlock, BlockLists

(* What ReadBlocks computes: its function exists, and is one such.         *)
LEMMA ReadBlocksReads ==
  ASSUME NEW cache, NEW r, NEW n \in Nat, NEW kind \in Kinds, cache[kind] \in BlockLists(r)
  PROVE  \E read : Reading(read, kind, cache[kind], r, n) /\ ReadBlocks(cache, r, n)[kind] = read[n]
<1> DEFINE D == BlockLists(r)
           step == [b \in 1..n |-> [blocks \in D |-> AddBlock(kind, blocks, r, b - 1)]]
           P(read) == read = [b \in 0..n |->
                                IF b = 0 THEN cache[kind] ELSE AddBlock(kind, read[b - 1], r, b - 1)]
           g == CHOOSE read : P(read)
<1>1. step \in [1..n -> [D -> D]]
  <2>1. \A b \in 1..n : b - 1 \in Nat
    OBVIOUS
  <2>2. \A b \in 1..n, blocks \in D : AddBlock(kind, blocks, r, b - 1) \in D
    BY <2>1, AddBlockType
  <2> QED
    BY <2>2
<1>2. \A b \in 1..n, blocks \in D : step[b][blocks] = AddBlock(kind, blocks, r, b - 1)
  OBVIOUS
<1>3. PICK read \in [0..n -> D] : Iterates(read, n, cache[kind], step)
  <2> HIDE DEF step, D
  <2>1. cache[kind] \in D
    BY DEF D
  <2> QED
    BY <1>1, <2>1, Recursion
<1>4. P(read)
  <2> HIDE DEF step, D
  <2>1. read[0] = cache[kind] /\ \A b \in 1..n : read[b] = step[b][read[b - 1]]
    BY <1>3 DEF Iterates
  <2>2. \A b \in 1..n : read[b - 1] \in D
    BY <1>3
  <2>3. \A b \in 1..n : read[b] = AddBlock(kind, read[b - 1], r, b - 1)
    BY <1>2, <2>1, <2>2
  <2>4. \A b \in 0..n : read[b] = IF b = 0 THEN cache[kind] ELSE AddBlock(kind, read[b - 1], r, b - 1)
    BY <2>1, <2>3
  <2> QED
    BY <1>3, <2>4
<1>5. P(g)
  <2> HIDE DEF P
  <2> QED BY <1>4
<1>6. ReadBlocks(cache, r, n)[kind] = g[n]
  BY DEF ReadBlocks
<1>7. Reading(g, kind, cache[kind], r, n)
  <2> HIDE DEF g
  <2>1. \A b \in 0..n : g[b] = IF b = 0 THEN cache[kind] ELSE AddBlock(kind, g[b - 1], r, b - 1)
    BY <1>5
  <2> QED
    BY <2>1 DEF Reading
<1> HIDE DEF g
<1> QED
  BY <1>6, <1>7

(* setBlock takes the second block of a record for one a longer record     *)
(* left behind if the first is of its kind.                                *)
FirstTwoDiffer(r) ==
  Len(Blocks[r]) >= 2 /\ Blocks[r][1] = Blocks[r][2] => Blocks[r][1] = "layout"

(* A list of one kind, while the blocks of a record are read into it: the  *)
(* blocks of this kind so far, and never as many as there are in front of  *)
(* the next one, which setBlock would take for another record's.           *)
ListOK(list, r, n, kind) ==
  /\ list \in BlockLists(r)
  /\ ListsOwnBlocks(list, r, n, kind)
  /\ kind # "layout" /\ n >= 2 => Len(list) < n
  /\ n = 1 => Len(list) <= 1
  /\ n = 0 => list = <<>>

(* One more block. *)
LEMMA OwnBlocksGrow ==
  ASSUME NEW r, NEW n \in Nat, NEW kind
  PROVE  OwnBlocks(r, n + 1, kind) =
           IF Blocks[r][n + 1] = kind THEN OwnBlocks(r, n, kind) \cup {<<r, n>>}
                                      ELSE OwnBlocks(r, n, kind)
<1>1. {i \in 1..(n + 1) : Blocks[r][i] = kind} =
        IF Blocks[r][n + 1] = kind THEN {i \in 1..n : Blocks[r][i] = kind} \cup {n + 1}
                                   ELSE {i \in 1..n : Blocks[r][i] = kind}
  OBVIOUS
<1> QED
  BY <1>1 DEF OwnBlocks

LEMMA ListAppended ==
  ASSUME NEW r, NEW n \in Nat, NEW kind, NEW list, ListOK(list, r, n, kind),
         Blocks[r][n + 1] = kind, NEW grown, grown = Append(list, <<r, n>>)
  PROVE  /\ grown \in BlockLists(r)
         /\ ListsOwnBlocks(grown, r, n + 1, kind)
         /\ Len(grown) = Len(list) + 1
<1>1. list \in Seq({r} \X Nat) /\ <<r, n>> \in {r} \X Nat
  BY DEF ListOK, BlockLists
<1>2. /\ grown \in Seq({r} \X Nat) /\ Len(grown) = Len(list) + 1
      /\ Len(list) \in Nat /\ DOMAIN list = 1..Len(list) /\ DOMAIN grown = 1..(Len(list) + 1)
      /\ \A i \in 1..Len(list) : grown[i] = list[i]
      /\ grown[Len(list) + 1] = <<r, n>>
  BY <1>1
<1>3. Range(grown) = Range(list) \cup {<<r, n>>}
  <2> DEFINE x == <<r, n>>
  <2>1. grown[Len(list) + 1] = x
    BY <1>2
  <2> HIDE DEF x
  <2>2. \A i \in DOMAIN grown : grown[i] \in Range(list) \cup {x}
    BY <1>2, <2>1 DEF Range
  <2>3. \A i \in DOMAIN list : list[i] \in Range(grown)
    BY <1>2 DEF Range
  <2>4. x \in Range(grown)
    <3>1. Len(list) + 1 \in DOMAIN grown
      BY <1>2
    <3> QED
      BY <2>1, <3>1 DEF Range
  <2>5. Range(grown) \subseteq Range(list) \cup {x}
    BY <2>2 DEF Range
  <2>6. Range(list) \subseteq Range(grown)
    BY <2>3 DEF Range
  <2> QED
    BY <2>4, <2>5, <2>6 DEF x
<1>4. \A i \in DOMAIN list : list[i][2] \in Nat /\ list[i][2] < n
  <2> SUFFICES ASSUME NEW i \in DOMAIN list PROVE list[i][2] \in Nat /\ list[i][2] < n
    OBVIOUS
  <2>1. list[i] \in OwnBlocks(r, n, kind)
    BY DEF ListOK, ListsOwnBlocks, Range
  <2>2. PICK b \in 1..n : list[i] = <<r, b - 1>>
    BY <2>1 DEF OwnBlocks
  <2> QED
    BY <2>2
<1>5. \A i, j \in DOMAIN grown : i < j => grown[i][2] < grown[j][2]
  <2> SUFFICES ASSUME NEW i \in DOMAIN grown, NEW j \in DOMAIN grown, i < j
               PROVE  grown[i][2] < grown[j][2]
    OBVIOUS
  <2>1. i \in 1..Len(list) /\ grown[i] = list[i]
    BY <1>2
  <2>2. CASE j = Len(list) + 1
    <3>1. grown[j][2] = n
      BY <1>2, <2>2
    <3> QED
      BY <1>2, <1>4, <2>1, <3>1
  <2>3. CASE j \in 1..Len(list)
    <3>1. list[i][2] < list[j][2]
      BY <1>2, <2>1, <2>3 DEF ListOK, ListsOwnBlocks
    <3> QED
      BY <1>2, <2>1, <2>3, <3>1
  <2> QED
    BY <1>2, <2>2, <2>3
<1>6. Range(grown) = OwnBlocks(r, n + 1, kind)
  BY <1>3, OwnBlocksGrow DEF ListOK, ListsOwnBlocks
<1> QED
  BY <1>2, <1>5, <1>6 DEF BlockLists, ListsOwnBlocks

(* The block after the first n leaves the list as it should be.            *)
LEMMA AddBlockOK ==
  ASSUME NEW r, Blocks[r] \in Seq(Kinds), FirstTwoDiffer(r), NEW kind \in Kinds,
         NEW n \in 0..(Len(Blocks[r]) - 1), NEW list, ListOK(list, r, n, kind)
  PROVE  ListOK(AddBlock(kind, list, r, n), r, n + 1, kind)
<1>1. n \in Nat /\ list \in Seq({r} \X Nat) /\ Len(list) \in Nat
  BY DEF ListOK, BlockLists
<1>2. CASE Blocks[r][n + 1] # kind
  <2>1. AddBlock(kind, list, r, n) = list
    BY <1>2 DEF AddBlock
  <2>2. OwnBlocks(r, n + 1, kind) = OwnBlocks(r, n, kind)
    BY <1>1, <1>2, OwnBlocksGrow
  <2>3. n = 0 => Len(list) = 0
    BY DEF ListOK
  <2>4. /\ kind # "layout" /\ n + 1 >= 2 => Len(list) < n + 1
        /\ n + 1 = 1 => Len(list) <= 1
    BY <1>1, <2>3 DEF ListOK
  <2> QED
    BY <1>1, <2>1, <2>2, <2>4 DEF ListOK, ListsOwnBlocks
<1>3. CASE Blocks[r][n + 1] = kind
  <2> DEFINE longer == Append(list, <<r, n>>)
  <2>1. /\ longer \in BlockLists(r)
        /\ ListsOwnBlocks(longer, r, n + 1, kind)
        /\ Len(longer) = Len(list) + 1
    <3> HIDE DEF longer
    <3>1. longer = Append(list, <<r, n>>)
      BY DEF longer
    <3> QED
      <4>1. n \in Nat /\ ListOK(list, r, n, kind) /\ Blocks[r][n + 1] = kind
        BY <1>1, <1>3
      <4>2. ListsOwnBlocks(longer, r, n + 1, kind)
        BY <4>1, <3>1, ListAppended, Zenon
      <4>3. longer \in BlockLists(r)
        BY <4>1, <3>1, ListAppended
      <4>4. Len(longer) = Len(list) + 1
        BY <4>1, <3>1, ListAppended
      <4> QED
        BY <4>2, <4>3, <4>4, Zenon
  <2>2. n = 0 => list = <<>> /\ Len(list) = 0
    <3>1. Len(<<>>) = 0
      OBVIOUS
    <3> QED
      BY <3>1, Zenon DEF ListOK
  <2>3. kind # "layout" /\ n = 1 => Len(list) = 0
    <3> SUFFICES ASSUME kind # "layout", n = 1, Len(list) # 0 PROVE FALSE
      BY <1>1
    <3>1. 1 \in DOMAIN list
      BY <1>1
    <3>2. list[1] \in OwnBlocks(r, n, kind)
      BY <3>1 DEF ListOK, ListsOwnBlocks, Range
    <3>3. Blocks[r][1] = kind
      BY <3>2 DEF OwnBlocks
    <3> QED
      BY <1>3, <3>3 DEF FirstTwoDiffer
  <2>4. kind # "layout" /\ n > 0 => Len(list) < n
    BY <1>1, <2>3 DEF ListOK
  <2>5. AddBlock(kind, list, r, n) = longer
    <3>1. n = 0 => <<<<r, n>>>> = longer
      <4> DEFINE x == <<r, n>>
      <4>1. Append(<<>>, x) = <<x>>
        <5> HIDE DEF x
        <5> QED
          OBVIOUS
      <4> QED
        BY <2>2, <4>1, Zenon
    <3>2. kind # "layout" => n = 0 \/ ~(Len(list) >= n)
      BY <1>1, <2>4
    <3>4. kind # "layout" => SetBlock(list, r, n) = longer
      BY <3>1, <3>2, Zenon DEF SetBlock
    <3> QED
      BY <1>3, <3>4, Zenon DEF AddBlock
  <2> HIDE DEF longer
  <2>6. /\ kind # "layout" /\ n + 1 >= 2 => Len(longer) < n + 1
        /\ n + 1 = 1 => Len(longer) <= 1
        /\ n + 1 # 0
    BY <1>1, <2>1, <2>2, <2>4
  <2> QED
    BY <2>1, <2>5, <2>6 DEF ListOK
<1> QED
  BY <1>2, <1>3

(* Read into an empty cache, the first n blocks of a record are there, each *)
(* once and in the order of the record.                                     *)
LEMMA ReadBlocksExact ==
  ASSUME NEW r, Blocks[r] \in Seq(Kinds), FirstTwoDiffer(r), NEW n \in 0..Len(Blocks[r])
  PROVE  HoldsOwnBlocks(ReadBlocks(EmptyCache, r, n), r, n)
<1> SUFFICES ASSUME NEW kind \in Kinds
             PROVE  ListOK(ReadBlocks(EmptyCache, r, n)[kind], r, n, kind)
  BY DEF HoldsOwnBlocks, ListOK
<1>1. EmptyCache[kind] = <<>> /\ EmptyCache[kind] \in BlockLists(r) /\ n \in Nat
  BY DEF EmptyCache, BlockLists
<1>2. PICK read : /\ Reading(read, kind, <<>>, r, n)
                  /\ ReadBlocks(EmptyCache, r, n)[kind] = read[n]
  BY <1>1, ReadBlocksReads
<1> DEFINE S == {b \in 0..n : ListOK(read[b], r, b, kind)}
<1>3. 0 \in S
  <2>1. OwnBlocks(r, 0, kind) = {} /\ Range(<<>>) = {}
    BY DEF OwnBlocks, Range
  <2>2. Len(<<>>) = 0 /\ DOMAIN <<>> = {}
    OBVIOUS
  <2>3. /\ <<>> \in BlockLists(r)
        /\ \A i, j \in DOMAIN <<>> : i < j => <<>>[i][2] < <<>>[j][2]
        /\ ~(0 >= 2) /\ 0 # 1
    BY <2>2 DEF BlockLists
  <2>4. ListOK(<<>>, r, 0, kind)
    BY <2>1, <2>3, Zenon DEF ListOK, ListsOwnBlocks
  <2> QED
    BY <1>1, <1>2, <2>4 DEF Reading
<1>4. ASSUME NEW b \in 0..(n - 1), b \in S PROVE b + 1 \in S
  <2>1. b + 1 \in 1..n /\ b + 1 \in 0..n /\ (b + 1) - 1 = b /\ b \in 0..(Len(Blocks[r]) - 1)
    OBVIOUS
  <2>2. read[b + 1] = AddBlock(kind, read[b], r, b)
    BY <1>2, <2>1 DEF Reading
  <2>3. ListOK(read[b], r, b, kind)
    BY <1>4
  <2>4. ListOK(read[b + 1], r, b + 1, kind)
    BY <2>1, <2>2, <2>3, AddBlockOK
  <2> QED
    BY <2>1, <2>4
<1>5. n \in S
  <2> HIDE DEF S
  <2>1. 0..n \subseteq S
    BY <1>1, <1>3, <1>4, Induction
  <2> QED
    BY <1>1, <2>1
<1> QED
  BY <1>2, <1>5
=============================================================================
