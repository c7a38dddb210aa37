--------------------------- MODULE VRSReaderProofs ---------------------------
(***************************************************************************)
(* Theorems about VRSReader, for any file, streams and records that fail.  *)
(***************************************************************************)
EXTENDS VRSReader, RecordIndexProofs

-----------------------------------------------------------------------------
(* Looking for records.                                                    *)

(* What skipIgnoredRecords finds: nothing of the set is in front of it. *)
LEMMA FirstFromFound ==
  ASSUME TypeOK, NEW S
  PROVE  LET i == FirstFrom(S) IN
         /\ i \in cursor..N
         /\ i = N \/ i \in S
         /\ \A j \in cursor..(i - 1) : j \notin S
<1> DEFINE T == {i \in cursor..N : i = N \/ i \in S}
<1>1. T \subseteq Nat /\ N \in T
  BY RecordIndexAssumption DEF TypeOK
<1>2. PICK x \in T : \A y \in T : x <= y
  BY <1>1, HasLeast
<1>3. /\ x \in cursor..N
      /\ x = N \/ x \in S
      /\ \A j \in cursor..(x - 1) : j \notin S
  BY <1>1, <1>2, RecordIndexAssumption DEF TypeOK
<1> QED
  BY <1>3 DEF FirstFrom

(* The governing configuration is the last one in front of the record. *)
LEMMA PrevConfigFound ==
  ASSUME NEW r, ConfigsBefore(r) # {}
  PROVE  PrevConfig(r) \in ConfigsBefore(r) /\ \A c \in ConfigsBefore(r) : c <= PrevConfig(r)
<1>1. \E c \in ConfigsBefore(r) : \A d \in ConfigsBefore(r) : d <= c
  BY HasLast DEF ConfigsBefore
<1> QED
  BY <1>1 DEF PrevConfig

-----------------------------------------------------------------------------
(* Type correctness.                                                       *)

(* The player's configurations stay records or None. *)
LEMMA InForceAfterType ==
  ASSUME NEW config \in [Streams -> Index \cup {None}], NEW r \in Index, NEW n
  PROVE  InForceAfter(config, r, n) \in [Streams -> Index \cup {None}]
BY DEF InForceAfter

LEMMA InForceAfterConfigType ==
  ASSUME TypeOK, NEW r \in Index
  PROVE  InForceAfterConfig(r) \in [Streams -> Index \cup {None}]
<1>1. CASE NeedsConfig(r)
  <2>1. PrevConfig(r) \in Index
    BY <1>1, PrevConfigFound DEF NeedsConfig, ConfigsBefore
  <2> QED
    BY <1>1, <2>1, InForceAfterType DEF InForceAfterConfig, TypeOK
<1>2. CASE ~NeedsConfig(r)
  BY <1>2 DEF InForceAfterConfig, TypeOK
<1> QED
  BY <1>1, <1>2

LEMMA RememberConfigType ==
  ASSUME TypeOK, NEW r \in Index, RememberConfig(r)
  PROVE  lastReadConfig' \in [Streams -> Index \cup {None}]
<1>1. CASE NeedsConfig(r)
  <2>1. PrevConfig(r) \in Index
    BY <1>1, PrevConfigFound DEF NeedsConfig, ConfigsBefore
  <2> QED
    BY <1>1, <2>1 DEF RememberConfig, TypeOK
<1>2. CASE ~NeedsConfig(r)
  BY <1>2 DEF RememberConfig, TypeOK
<1> QED
  BY <1>1, <1>2

(* A cache has a list for each kind, whatever is read into it. *)
LEMMA CacheType ==
  /\ DOMAIN EmptyCache = Kinds
  /\ \A c, r, n : DOMAIN ReadBlocks(c, r, n) = Kinds
BY DEF EmptyCache, ReadBlocks

(* A read, wherever it is told to begin, ends within the types. *)
LEMMA ReadType ==
  ASSUME TypeOK, NEW c \in 0..N, ReadNextRecordInternal(c)
  PROVE  TypeOK'
<1>1. /\ file' = file /\ enabled' = enabled /\ trailing' = trailing
      /\ file' \in {"unopened", "open", "closed"} /\ enabled' \subseteq Streams
      /\ trailing' \in [TypeIds \X RecordTypes -> 0..MaxTrailing]
  BY DEF ReadNextRecordInternal, TypeOK
<1>2. CASE c = N /\ cursor' = N /\ returned' = None /\ UNCHANGED <<cache, inForce, lastReadConfig>>
  BY <1>1, <1>2, RecordIndexAssumption DEF TypeOK
<1>3. CASE c < N /\ ConfigReadFails(c)
  <2>1. c \in Index
    BY <1>3, RecordIndexAssumption DEF Index
  <2>2. PrevConfig(c) \in Index
    BY <1>3, PrevConfigFound DEF ConfigReadFails, NeedsConfig, ConfigsBefore
  <2>3. inForce' \in [Streams -> Index \cup {None}]
    BY <1>3, <2>2, InForceAfterType DEF ConfigReadFails, TypeOK
  <2>4. DOMAIN cache' = Kinds
    BY <1>3, CacheType DEF ConfigReadFails
  <2> QED
    BY <1>1, <1>3, <2>1, <2>3, <2>4 DEF ConfigReadFails, TypeOK
<1>4. CASE c < N /\ RecordReadFails(c)
  <2>1. c \in Index
    BY <1>4, RecordIndexAssumption DEF Index
  <2>2. inForce' \in [Streams -> Index \cup {None}]
    BY <1>4, <2>1, InForceAfterConfigType, InForceAfterType DEF RecordReadFails
  <2>3. lastReadConfig' \in [Streams -> Index \cup {None}]
    BY <1>4, <2>1, RememberConfigType DEF RecordReadFails
  <2>4. DOMAIN cache' = Kinds
    BY <1>4, CacheType DEF RecordReadFails
  <2> QED
    BY <1>1, <1>4, <2>1, <2>2, <2>3, <2>4 DEF RecordReadFails, TypeOK
<1>5. CASE c < N /\ RecordRead(c)
  <2>1. c \in Index /\ c + 1 \in 0..N
    BY <1>5, RecordIndexAssumption DEF Index
  <2>2. inForce' \in [Streams -> Index \cup {None}]
    BY <1>5, <2>1, InForceAfterConfigType, InForceAfterType DEF RecordRead
  <2>3. lastReadConfig' \in [Streams -> Index \cup {None}]
    BY <1>5, <2>1, RememberConfigType DEF RecordRead
  <2>4. inForce'[Stream[c]] \in Index \cup {None}
    BY <2>1, <2>2, RecordIndexAssumption
  <2>5. DOMAIN cache' = Kinds /\ cursor' \in 0..N
    BY <1>5, <2>1, CacheType DEF RecordRead
  <2>6. /\ DOMAIN returned' = {"index", "blocks", "config"}
        /\ returned'.index \in Index /\ returned'.config \in Index \cup {None}
    BY <1>5, <2>1, <2>4 DEF RecordRead
  <2> QED
    BY <1>1, <2>2, <2>3, <2>5, <2>6 DEF TypeOK
<1> QED
  BY <1>2, <1>3, <1>4, <1>5 DEF ReadNextRecordInternal

(* The calls that read. *)
Reads ==
  \/ ReadNextRecord
  \/ \E s \in Streams, types \in TypeFilters : ReadNextRecordOf({s}, types)
  \/ \E id \in TypeIds, types \in TypeFilters :
       ReadNextRecordOf({s \in Streams : TypeIdOf[s] = id}, types)
  \/ \E i \in Index : ReadRecord(i)
  \/ \E s \in Streams, types \in TypeFilters, k \in 0..N : ReadRecordOf(s, types, k)

(* Each way of reading begins within the file. *)
LEMMA ReadBegins ==
  ASSUME TypeOK, Reads
  PROVE  \/ \E c \in 0..N : ReadNextRecordInternal(c)
         \/ /\ cursor' = N /\ returned' = None
            /\ UNCHANGED <<file, enabled, cache, inForce, lastReadConfig, trailing>>
<1>1. \A S : FirstFrom(S) \in 0..N
  BY FirstFromFound, RecordIndexAssumption DEF TypeOK
<1>2. Index \subseteq 0..N /\ \A s, types, k : RecordOf(s, types, k) \subseteq Index
  BY RecordIndexAssumption DEF Index, RecordOf, RecordsOf
<1> QED
  BY <1>1, <1>2, Zenon DEF Reads, ReadNextRecord, SkipIgnoredRecords, ReadNextRecordOf, ReadRecord,
       ReadRecordOf

LEMMA InitType == Init => TypeOK
BY RecordIndexAssumption, ReaderAssumption, CacheType DEF Init, TypeOK

LEMMA StepType == TypeOK /\ [Next]_vars => TypeOK'
<1> SUFFICES ASSUME TypeOK, [Next]_vars PROVE TypeOK'
  OBVIOUS
<1>1. CASE Open
  BY <1>1, RecordIndexAssumption DEF Open, TypeOK
<1>2. CASE Close
  BY <1>2 DEF Close, TypeOK
<1>3. ASSUME NEW S \in SUBSET Streams, EnableStreams(S) PROVE TypeOK'
  BY <1>3 DEF EnableStreams, TypeOK
<1>4. ASSUME NEW id \in TypeIds, NEW types \in TypeFilters, NEW n \in 0..MaxTrailing,
             SkipTrailingBlocks(id, types, n)
      PROVE  TypeOK'
  <2>1. trailing' \in [TypeIds \X RecordTypes -> 0..MaxTrailing]
    BY <1>4 DEF SkipTrailingBlocks, TypeOK
  <2> QED
    BY <1>4, <2>1 DEF SkipTrailingBlocks, TypeOK
<1>5. ASSUME NEW i \in -1..N, GotoRecord(i) PROVE TypeOK'
  BY <1>5, RecordIndexAssumption DEF GotoRecord, Index, TypeOK
<1>6. ASSUME NEW t \in 0..N, GotoTime(t) PROVE TypeOK'
  BY <1>6, LowerBoundType DEF GotoTime, TypeOK
<1>7. ASSUME NEW c \in 0..N, ReadNextRecordInternal(c) PROVE TypeOK'
  BY <1>7, ReadType
<1>8. CASE /\ cursor' = N /\ returned' = None
           /\ UNCHANGED <<file, enabled, cache, inForce, lastReadConfig, trailing>>
  BY <1>8, RecordIndexAssumption DEF TypeOK
<1>9. CASE UNCHANGED vars
  BY <1>9 DEF vars, TypeOK
<1> QED
  BY <1>1, <1>2, <1>3, <1>4, <1>5, <1>6, <1>7, <1>8, <1>9, ReadBegins DEF Next, Reads

(* The reader is well typed whatever is in the file, is asked for, and     *)
(* fails: in particular the cursor never leaves the file.                  *)
THEOREM TypeCorrect == Spec => []TypeOK
BY InitType, StepType, PTL DEF Spec

-----------------------------------------------------------------------------
(* The blocks of a record.                                                 *)

(* No record has more blocks read than it has. *)
LEMMA BlockCountType ==
  ASSUME TypeOK, NEW r \in Index
  PROVE  Blocks[r] \in Seq(Kinds) /\ BlockCount(r) \in 0..Len(Blocks[r])
<1>1. Blocks[r] \in Seq(Kinds) /\ Len(Blocks[r]) \in Nat
  BY ReaderAssumption
<1>2. trailing[<<TypeIdOf[Stream[r]], Type[r]>>] \in Nat
  <2>1. <<TypeIdOf[Stream[r]], Type[r]>> \in TypeIds \X RecordTypes
    BY RecordIndexAssumption DEF TypeIds
  <2>2. trailing \in [TypeIds \X RecordTypes -> 0..MaxTrailing]
    BY DEF TypeOK
  <2>3. \A k \in TypeIds \X RecordTypes : trailing[k] \in Nat
    BY <2>2
  <2> QED
    BY <2>1, <2>3
<1> QED
  BY <1>1, <1>2 DEF BlockCount

(* A record read from an enabled stream comes with its own blocks, those   *)
(* asked for and in its order, for any file in which no record begins with *)
(* two blocks of one kind other than a data layout: setBlock would drop    *)
(* the first of them.                                                      *)
THEOREM ReadsExactBlocks ==
  ASSUME \A r \in Index : FirstTwoDiffer(r)
  PROVE  Spec => ExactBlocks
<1> DEFINE Exact ==
      returned' # returned /\ returned' # None /\ cache = EmptyCache =>
        (Stream[returned'.index] \in enabled =>
           HoldsOwnBlocks(returned'.blocks, returned'.index, BlockCount(returned'.index)))
<1>1. ASSUME TypeOK, NEW c \in 0..N, ReadNextRecordInternal(c) PROVE Exact
  <2> SUFFICES ASSUME returned' # None, cache = EmptyCache, Stream[returned'.index] \in enabled
               PROVE  HoldsOwnBlocks(returned'.blocks, returned'.index, BlockCount(returned'.index))
    OBVIOUS
  <2>1. c < N /\ RecordRead(c)
    BY <1>1 DEF ReadNextRecordInternal, ConfigReadFails, RecordReadFails
  <2>2. c \in Index
    BY <2>1, RecordIndexAssumption DEF Index
  <2>3. /\ returned'.index = c
        /\ returned'.blocks = ReadBlocks(CacheAfterConfig(c), c, Delivered(c))
    BY <2>1 DEF RecordRead
  <2>4. CacheAfterConfig(c) = EmptyCache /\ Delivered(c) = BlockCount(c)
    BY <2>3 DEF CacheAfterConfig, Delivered
  <2>5. HoldsOwnBlocks(ReadBlocks(EmptyCache, c, BlockCount(c)), c, BlockCount(c))
    BY <1>1, <2>2, BlockCountType, ReadBlocksExact
  <2> QED
    BY <2>3, <2>4, <2>5
<1>2. ASSUME returned' = None \/ returned' = returned PROVE Exact
  BY <1>2
<1>3. TypeOK /\ [Next]_vars => [Exact]_vars
  <2> HIDE DEF Exact
  <2> SUFFICES ASSUME TypeOK, Next PROVE Exact
    OBVIOUS
  <2>1. CASE Reads
    BY <1>1, <1>2, <2>1, ReadBegins
  <2>2. CASE ~Reads
    <3>1. returned' = None
      BY <2>2 DEF Next, Reads, Open, Close, EnableStreams, SkipTrailingBlocks, GotoRecord, GotoTime
    <3> QED
      BY <1>2, <3>1
  <2> QED
    BY <2>1, <2>2
<1> QED
  BY <1>3, TypeCorrect, PTL DEF Spec, ExactBlocks

-----------------------------------------------------------------------------
(* Reading on.                                                             *)

(* What a read does to the cursor, and when it returns something. *)
LEMMA ReadMoves ==
  ASSUME NEW c \in 0..N, ReadNextRecordInternal(c)
  PROVE  \/ cursor' = c /\ returned' = None
         \/ /\ c < N /\ cursor' = c + 1
            /\ RecordRead(c)
            /\ returned' # None => returned'.index = c
BY DEF ReadNextRecordInternal, ConfigReadFails, RecordReadFails, RecordRead

(* None is not a record handed to Python. *)
NoneIsNoRecord == \A i, blocks, config :
                    None # [index |-> i, blocks |-> blocks, config |-> config]

(* Reading on returns the next record of an enabled stream, for any file,  *)
(* streams enabled and failures.                                           *)
THEOREM ReadsOn ==
  ASSUME NoneIsNoRecord
  PROVE  Spec => NextRecordIsNext
<1> DEFINE Next1 ==
      ReadNextRecord =>
        /\ \A i \in cursor..(cursor' - 1) :
             Stream[i] \in enabled => returned' # None /\ returned'.index = i
        /\ returned' # None => returned'.index >= cursor
<1>1. ASSUME TypeOK, ReadNextRecord PROVE Next1
  <2> DEFINE S == {i \in Index : Stream[i] \in enabled}
             c == FirstFrom(S)
  <2>1. c \in cursor..N /\ \A i \in cursor..(c - 1) : i \notin S
    BY <1>1, FirstFromFound
  <2>2. c \in 0..N /\ cursor \in 0..N /\ ReadNextRecordInternal(c)
    BY <1>1, <2>1, RecordIndexAssumption DEF ReadNextRecord, SkipIgnoredRecords, TypeOK
  <2>3. \A i \in cursor..(c - 1) : Stream[i] \notin enabled
    BY <2>1, <2>2, RecordIndexAssumption DEF Index
  <2> HIDE DEF S, c
  <2>4. CASE cursor' = c /\ returned' = None
    BY <2>3, <2>4
  <2>5. CASE c < N /\ cursor' = c + 1 /\ RecordRead(c)
    <3>1. returned' # None /\ returned'.index = c
      BY <2>2, <2>5, NoneIsNoRecord DEF NoneIsNoRecord, RecordRead
    <3>2. \A i \in cursor..(cursor' - 1) : i \in cursor..(c - 1) \/ i = c
      BY <2>2, <2>5, RecordIndexAssumption
    <3> QED
      BY <2>1, <2>2, <2>3, <3>1, <3>2, RecordIndexAssumption
  <2> QED
    BY <2>2, <2>4, <2>5, ReadMoves
<1>2. TypeOK /\ [Next]_vars => [Next1]_vars
  BY <1>1 DEF Next1
<1> QED
  BY <1>2, TypeCorrect, PTL DEF Spec, NextRecordIsNext

(* A read that returns something returns the first record looked for. *)
LEMMA ReturnsFirst ==
  ASSUME TypeOK, NEW S, ReadNextRecordInternal(FirstFrom(S)), returned' # None
  PROVE  /\ returned'.index \in Index /\ cursor \in 0..N /\ cursor <= returned'.index
         /\ returned'.index \in S
         /\ \A j \in cursor..(returned'.index - 1) : j \notin S
<1>1. PICK c \in cursor..N : /\ c = FirstFrom(S) /\ (c = N \/ c \in S)
                             /\ \A j \in cursor..(c - 1) : j \notin S
  BY FirstFromFound
<1>2. c \in 0..N /\ cursor \in 0..N /\ ReadNextRecordInternal(c)
  BY <1>1, RecordIndexAssumption DEF TypeOK
<1>3. c < N /\ RecordRead(c)
  BY <1>2, ReadMoves
<1>4. returned'.index = c
  BY <1>3 DEF RecordRead
<1> QED
  BY <1>1, <1>2, <1>3, <1>4, RecordIndexAssumption DEF Index

(* What the index says comes next is what is read next, for any file,      *)
(* streams enabled, order of calls and failures: the first record of       *)
(* getEnabledStreamsRecordsInfo from the cursor on, and the one that       *)
(* getNextIndex names.                                                     *)
THEOREM InfosForetell == Spec => InfosForetellReads
<1> DEFINE Listed ==
             LET infos == GetEnabledStreamsRecordsInfo(enabled)
                 ahead == {k \in DOMAIN infos : infos[k].record_index >= cursor}
             IN ahead # {} /\ infos[Min(ahead)] = RecordInfo(returned'.index, returned'.index)
           Foretold ==
             returned' # returned /\ returned' # None =>
               /\ ReadNextRecord => Listed
               /\ \A s \in Streams, types \in TypeFilters :
                    ReadNextRecordOf({s}, types) =>
                      returned'.index = GetNextIndex(enabled, s, types, cursor)
<1>1. ASSUME TypeOK, returned' # None, ReadNextRecord PROVE Listed
  <2> DEFINE S == {i \in Index : Stream[i] \in enabled}
             r == returned'.index
  <2>1. ReadNextRecordInternal(FirstFrom(S))
    BY <1>1 DEF ReadNextRecord, SkipIgnoredRecords
  <2>2. /\ r \in Index /\ cursor \in 0..N /\ cursor <= r
        /\ r \in S /\ \A j \in cursor..(r - 1) : j \notin S
    <3> HIDE DEF S, r
    <3> QED
      BY <1>1, <2>1, ReturnsFirst DEF r
  <2>3. \A j \in cursor..(r - 1) : j \in Index
    BY <2>2, RecordIndexAssumption DEF Index
  <2>4. Stream[r] \in enabled /\ \A j \in cursor..(r - 1) : Stream[j] \notin enabled
    BY <2>2, <2>3
  <2>5. enabled \subseteq Streams
    BY <1>1 DEF TypeOK
  <2> HIDE DEF r
  <2> QED
    BY <2>2, <2>4, <2>5, ListedFirst DEF r
<1>2. ASSUME TypeOK, returned' # None, NEW s \in Streams, NEW types \in TypeFilters,
             ReadNextRecordOf({s}, types)
      PROVE  returned'.index = GetNextIndex(enabled, s, types, cursor)
  <2> DEFINE r == returned'.index
             M == Matching(enabled, {s}, types)
  <2>1. ReadNextRecordInternal(FirstFrom(M))
    BY <1>2 DEF ReadNextRecordOf
  <2> HIDE DEF r, M
  <2>2. /\ r \in Index /\ cursor \in 0..N /\ cursor <= r
        /\ r \in M /\ \A j \in cursor..(r - 1) : j \notin M
    BY <1>2, <2>1, ReturnsFirst DEF r
  <2> QED
    BY <2>2, NextIndexIsFirst DEF r, M
<1>3. TypeOK /\ [Next]_vars => [Foretold]_vars
  BY <1>1, <1>2 DEF Foretold
<1> QED
  BY <1>3, TypeCorrect, PTL DEF Spec, InfosForetellReads

-----------------------------------------------------------------------------
(* Decoding under the right configuration.                                 *)

(* How VRSReader's __init__ and its users go about it: streams are enabled *)
(* before they are read, configuration records are left to the automatic   *)
(* reading and have one block, the layout.                                 *)
Disciplined ==
  /\ EnableLate = FALSE /\ "configuration" \notin ReadTypes
  /\ \A i \in Index : Type[i] = "configuration" => Blocks[i] = <<"layout">>

(* The inductive invariant: what the reader remembers to have read is what *)
(* the player has in force.  Without it "it is the one I read last" would  *)
(* not do as a reason not to read the configuration again.                 *)
RememberedInForce ==
  \A s \in enabled : lastReadConfig[s] # None => inForce[s] = lastReadConfig[s]

(* Whatever limit is set, the block of a configuration record is read. *)
LEMMA ConfigIsOneBlock ==
  ASSUME TypeOK, Disciplined, NEW c \in Index, Type[c] = "configuration"
  PROVE  BlockCount(c) = 1 /\ Blocks[c][1] = "layout"
<1>1. Blocks[c] = <<"layout">> /\ Len(Blocks[c]) = 1
  BY DEF Disciplined
<1>2. <<TypeIdOf[Stream[c]], Type[c]>> \in TypeIds \X RecordTypes
  BY RecordIndexAssumption DEF TypeIds, RecordTypes
<1> DEFINE limit == trailing[<<TypeIdOf[Stream[c]], Type[c]>>]
<1>3. limit \in 0..MaxTrailing
  BY <1>2, Zenon DEF TypeOK
<1>4. limit = 0 \/ limit > 1 \/ limit = 1
  BY <1>3, ReaderAssumption
<1> HIDE DEF limit
<1>5. BlockCount(c) = IF limit = 0 \/ limit > Len(Blocks[c]) THEN Len(Blocks[c]) ELSE limit
  BY DEF BlockCount, limit
<1> QED
  BY <1>1, <1>3, <1>4, <1>5

(* Once the configuration was read, the player has it in force if it has   *)
(* the stream at all, and has nothing else changed.                        *)
LEMMA InForceAfterConfigIs ==
  ASSUME TypeOK, Disciplined, NEW r \in Index
  PROVE  InForceAfterConfig(r) =
           IF NeedsConfig(r) /\ Stream[r] \in enabled
             THEN [inForce EXCEPT ![Stream[r]] = PrevConfig(r)]
             ELSE inForce
<1>1. CASE ~NeedsConfig(r)
  BY <1>1 DEF InForceAfterConfig
<1>2. CASE NeedsConfig(r)
  <2> DEFINE c == PrevConfig(r)
  <2>1. c \in Index /\ Stream[c] = Stream[r] /\ Type[c] = "configuration"
    BY <1>2, PrevConfigFound DEF NeedsConfig, ConfigsBefore
  <2> HIDE DEF c
  <2>2. BlockCount(c) = 1 /\ Blocks[c][1] = "layout"
    BY <2>1, ConfigIsOneBlock
  <2>3. CASE Stream[r] \in enabled
    <3>1. Delivered(c) = 1
      BY <2>1, <2>2, <2>3 DEF Delivered
    <3>2. InForceAfter(inForce, c, 1) = [inForce EXCEPT ![Stream[c]] = c]
      BY <2>1, <2>2 DEF InForceAfter
    <3> QED
      BY <1>2, <2>1, <2>3, <3>1, <3>2 DEF InForceAfterConfig, c
  <2>4. CASE Stream[r] \notin enabled
    <3>1. Delivered(c) = 0
      BY <2>1, <2>4 DEF Delivered
    <3>2. InForceAfter(inForce, c, 0) = inForce
      BY DEF InForceAfter
    <3> QED
      BY <1>2, <2>4, <3>1, <3>2 DEF InForceAfterConfig, c
  <2> QED
    BY <2>3, <2>4
<1> QED
  BY <1>1, <1>2

(* A record the program asks for is no configuration: it leaves what the   *)
(* player has in force alone.                                              *)
LEMMA InForceAfterRecord ==
  ASSUME Disciplined, NEW config, NEW r \in Index, Type[r] \in ReadTypes, NEW n
  PROVE  InForceAfter(config, r, n) = config
BY DEF InForceAfter, Disciplined

(* What a read that gets past its configuration does to both memories.     *)
LEMMA ReadRemembers ==
  ASSUME TypeOK, Disciplined, RememberedInForce,
         NEW r \in Index, Type[r] \in ReadTypes, RememberConfig(r),
         enabled' = enabled, inForce' = InForceAfterConfig(r)
  PROVE  /\ RememberedInForce'
         /\ Stream[r] \in enabled /\ AutoRead /\ Type[r] = "data" /\ ConfigsBefore(r) # {}
              => inForce'[Stream[r]] = PrevConfig(r)
<1>1. CASE NeedsConfig(r)
  <2>1. Stream[r] \in Streams
    BY RecordIndexAssumption
  <2>2. lastReadConfig' = [lastReadConfig EXCEPT ![Stream[r]] = PrevConfig(r)]
    BY <1>1 DEF RememberConfig
  <2>3. Stream[r] \in enabled => inForce' = [inForce EXCEPT ![Stream[r]] = PrevConfig(r)]
    BY <1>1, InForceAfterConfigIs
  <2>4. Stream[r] \notin enabled => inForce' = inForce
    BY <1>1, InForceAfterConfigIs
  <2> QED
    BY <2>1, <2>2, <2>3, <2>4 DEF RememberedInForce, TypeOK
<1>2. CASE ~NeedsConfig(r)
  <2>1. lastReadConfig' = lastReadConfig /\ inForce' = inForce
    BY <1>2, InForceAfterConfigIs DEF RememberConfig
  <2>2. ASSUME Stream[r] \in enabled, AutoRead, Type[r] = "data", ConfigsBefore(r) # {}
        PROVE  inForce[Stream[r]] = PrevConfig(r)
    <3>1. lastReadConfig[Stream[r]] = PrevConfig(r)
      BY <1>2, <2>2 DEF NeedsConfig
    <3>2. None \notin Index
      BY RecordIndexAssumption DEF Index
    <3>3. PrevConfig(r) \in Index
      BY <2>2, PrevConfigFound DEF ConfigsBefore
    <3> QED
      BY <2>2, <3>1, <3>2, <3>3 DEF RememberedInForce
  <2> QED
    BY <2>1, <2>2 DEF RememberedInForce
<1> QED
  BY <1>1, <1>2
(* No read separates the two memories: one that fails on the configuration *)
(* has delivered none of its one block.                                    *)
LEMMA ReadKeepsRemembered ==
  ASSUME TypeOK, Disciplined, RememberedInForce, NEW c \in 0..N, ReadNextRecordInternal(c)
  PROVE  RememberedInForce'
<1>1. enabled' = enabled
  BY DEF ReadNextRecordInternal
<1>2. CASE UNCHANGED <<inForce, lastReadConfig>>
  BY <1>1, <1>2 DEF RememberedInForce
<1>3. CASE c < N /\ Type[c] \in ReadTypes /\ ConfigReadFails(c)
  <2>1. c \in Index
    BY <1>3, RecordIndexAssumption DEF Index
  <2>2. PrevConfig(c) \in Index /\ Type[PrevConfig(c)] = "configuration"
    BY <1>3, PrevConfigFound DEF ConfigReadFails, NeedsConfig, ConfigsBefore
  <2>3. DeliveredByFailure(PrevConfig(c)) = {0}
    BY <2>2, ConfigIsOneBlock DEF DeliveredByFailure
  <2>4. InForceAfter(inForce, PrevConfig(c), 0) = inForce
    BY DEF InForceAfter
  <2>5. inForce' = inForce /\ lastReadConfig' = lastReadConfig
    BY <1>3, <2>3, <2>4 DEF ConfigReadFails
  <2> QED
    BY <1>2, <2>5
<1>4. CASE c < N /\ Type[c] \in ReadTypes /\ (RecordReadFails(c) \/ RecordRead(c))
  <2>1. c \in Index
    BY <1>4, RecordIndexAssumption DEF Index
  <2>2. RememberConfig(c) /\ inForce' = InForceAfterConfig(c)
    BY <1>4, <2>1, InForceAfterRecord DEF RecordReadFails, RecordRead
  <2> QED
    BY <1>1, <1>4, <2>1, <2>2, ReadRemembers
<1> QED
  BY <1>2, <1>3, <1>4 DEF ReadNextRecordInternal

LEMMA StepRemembered ==
  ASSUME Disciplined, TypeOK, RememberedInForce, [Next]_vars
  PROVE  RememberedInForce'
<1>1. CASE Open
  BY <1>1 DEF Open, RememberedInForce, TypeOK
<1>2. CASE Close
  BY <1>2 DEF Close, RememberedInForce
<1>3. ASSUME NEW S \in SUBSET Streams, EnableStreams(S) PROVE RememberedInForce'
  BY <1>3 DEF EnableStreams, RememberedInForce, Disciplined
<1>4. ASSUME NEW id \in TypeIds, NEW types \in TypeFilters, NEW n \in 0..MaxTrailing,
             SkipTrailingBlocks(id, types, n)
      PROVE  RememberedInForce'
  BY <1>4 DEF SkipTrailingBlocks, RememberedInForce
<1>5. ASSUME NEW i \in -1..N, GotoRecord(i) PROVE RememberedInForce'
  BY <1>5 DEF GotoRecord, RememberedInForce
<1>6. ASSUME NEW t \in 0..N, GotoTime(t) PROVE RememberedInForce'
  BY <1>6 DEF GotoTime, RememberedInForce
<1>7. ASSUME NEW c \in 0..N, ReadNextRecordInternal(c) PROVE RememberedInForce'
  BY <1>7, ReadKeepsRemembered
<1>8. CASE UNCHANGED <<enabled, inForce, lastReadConfig>>
  BY <1>8 DEF RememberedInForce
<1>9. CASE UNCHANGED vars
  BY <1>8, <1>9 DEF vars
<1> QED
  BY <1>1, <1>2, <1>3, <1>4, <1>5, <1>6, <1>7, <1>8, <1>9, ReadBegins DEF Next, Reads

(* For any file and order of calls of a disciplined program, through       *)
(* failures and limits, the configuration readConfigurationRecord does not *)
(* read again is the one the player of an enabled stream has in force.     *)
THEOREM ConfigRemembered ==
  ASSUME Disciplined
  PROVE  Spec => []RememberedInForce
<1>1. Init => RememberedInForce
  BY DEF Init, RememberedInForce
<1>2. TypeOK /\ RememberedInForce /\ [Next]_vars => RememberedInForce'
  BY StepRemembered
<1> QED
  BY <1>1, <1>2, TypeCorrect, PTL DEF Spec

(* With automatic configuration reading a data record is never decoded     *)
(* under another configuration than the last one in front of it, for any   *)
(* file and order of calls of a disciplined program.                       *)
THEOREM DecodesUnderItsConfig ==
  ASSUME Disciplined
  PROVE  Spec => DecodedUnderItsConfig
<1> DEFINE Decoded ==
      returned' # returned /\ returned' # None =>
        LET r == returned'.index IN
        AutoRead /\ Type[r] = "data" /\ Stream[r] \in enabled =>
          \A c \in Index :
            Stream[c] = Stream[r] /\ Type[c] = "configuration" /\ c < r =>
              returned'.config # None /\ c <= returned'.config /\ returned'.config < r
<1>1. ASSUME TypeOK, RememberedInForce, NEW r \in Index, Type[r] \in ReadTypes,
             enabled' = enabled, RecordRead(r), AutoRead, Type[r] = "data",
             Stream[r] \in enabled, NEW c \in ConfigsBefore(r)
      PROVE  /\ returned'.index = r
             /\ returned'.config # None /\ c <= returned'.config /\ returned'.config < r
  <2>1. inForce' = InForceAfterConfig(r) /\ RememberConfig(r)
    BY <1>1, InForceAfterRecord DEF RecordRead
  <2>2. inForce'[Stream[r]] = PrevConfig(r)
    BY <1>1, <2>1, ReadRemembers
  <2>3. /\ PrevConfig(r) \in Index /\ PrevConfig(r) < r /\ c <= PrevConfig(r)
    BY <1>1, PrevConfigFound DEF ConfigsBefore
  <2>4. None \notin Index
    BY RecordIndexAssumption DEF Index
  <2> QED
    BY <1>1, <2>2, <2>3, <2>4 DEF RecordRead
<1>2. ASSUME TypeOK, RememberedInForce, NEW r \in 0..N, ReadNextRecordInternal(r)
      PROVE  Decoded
  <2>1. CASE returned' = None
    BY <2>1
  <2>2. CASE r < N /\ Type[r] \in ReadTypes /\ RecordRead(r)
    <3>1. r \in Index /\ enabled' = enabled /\ returned'.index = r
      BY <1>2, <2>2, RecordIndexAssumption DEF ReadNextRecordInternal, RecordRead, Index
    <3>2. ASSUME AutoRead, Type[r] = "data", Stream[r] \in enabled, NEW c \in Index,
                 Stream[c] = Stream[r], Type[c] = "configuration", c < r
          PROVE  returned'.config # None /\ c <= returned'.config /\ returned'.config < r
      <4>1. c \in ConfigsBefore(r)
        BY <3>2 DEF ConfigsBefore
      <4> QED
        BY <1>1, <1>2, <2>2, <3>1, <3>2, <4>1
    <3> QED
      BY <3>1, <3>2
  <2> QED
    BY <1>2, <2>1, <2>2 DEF ReadNextRecordInternal, ConfigReadFails, RecordReadFails
<1>3. ASSUME TypeOK, RememberedInForce, Next PROVE Decoded
  <2>1. CASE \/ Open \/ Close
             \/ \E S \in SUBSET Streams : EnableStreams(S)
             \/ \E id \in TypeIds, types \in TypeFilters, n \in 0..MaxTrailing :
                  SkipTrailingBlocks(id, types, n)
             \/ \E i \in -1..N : GotoRecord(i)
             \/ \E t \in 0..N : GotoTime(t)
    <3>1. returned' = None
      BY <2>1 DEF Open, Close, EnableStreams, SkipTrailingBlocks, GotoRecord, GotoTime
    <3> QED
      BY <3>1
  <2>2. CASE Reads
    <3>1. (\E r \in 0..N : ReadNextRecordInternal(r)) \/ returned' = None
      BY <1>3, <2>2, ReadBegins
    <3> HIDE DEF Decoded
    <3>2. returned' = None => Decoded
      BY DEF Decoded
    <3> QED
      BY <1>2, <1>3, <3>1, <3>2
  <2> QED
    BY <1>3, <2>1, <2>2 DEF Next, Reads
<1>4. TypeOK /\ RememberedInForce /\ [Next]_vars => [Decoded]_vars
  BY <1>3 DEF Decoded
<1> QED
  BY <1>4, TypeCorrect, ConfigRemembered, PTL DEF Spec, DecodedUnderItsConfig

-----------------------------------------------------------------------------
(* The reader implements RecordSource.                                     *)

(* A record that is delivered was read, and under what governs it. *)
LEMMA DeliveredGoverned ==
  ASSUME Disciplined, TypeOK, RememberedInForce,
         NEW r \in Index, Type[r] \in ReadTypes, enabled' = enabled, RecordRead(r)
  PROVE  Source!Next
<1>1. inForce' = InForceAfterConfig(r) /\ RememberConfig(r)
  BY InForceAfterRecord DEF RecordRead
<1>2. /\ cursor' = r + 1 /\ r + 1 \in 0..N /\ r \in 0..(N - 1)
      /\ returned'.index = r /\ returned'.config = inForce'[Stream[r]]
  BY RecordIndexAssumption DEF RecordRead, Index
<1>3. CASE DeliveredRecord' = None
  BY <1>2, <1>3 DEF Source!Next, Source!DeliverNothing
<1>4. CASE DeliveredRecord' # None
  <2>1. /\ Type[r] = "data" /\ Stream[r] \in enabled
        /\ DeliveredRecord' = [record |-> r, config |-> inForce'[Stream[r]]]
    BY <1>2, <1>4 DEF DeliveredRecord
  <2>2. inForce'[Stream[r]] \in 0..(N - 1) \cup {None}
    <3>1. inForce' \in [Streams -> Index \cup {None}]
      BY <1>1, InForceAfterConfigType
    <3> QED
      BY <3>1, RecordIndexAssumption DEF Index
  <2>3. GoverningConfig[r] # None => inForce'[Stream[r]] = GoverningConfig[r]
    BY <1>1, <2>1, ReadRemembers DEF GoverningConfig
  <2> QED
    BY <1>2, <2>1, <2>2, <2>3 DEF Source!Next, Source!Deliver
<1> QED
  BY <1>3, <1>4

LEMMA StepImplements ==
  ASSUME Disciplined, TypeOK, RememberedInForce, [Next]_vars
  PROVE  [Source!Next]_<<cursor, DeliveredRecord>>
<1>1. cursor' \in 0..N
  BY StepType DEF TypeOK
<1>2. ASSUME returned' = None PROVE Source!Next
  BY <1>1, <1>2 DEF Source!Next, Source!DeliverNothing, DeliveredRecord
<1>3. ASSUME NEW c \in 0..N, ReadNextRecordInternal(c) PROVE Source!Next
  <2>1. CASE returned' = None
    BY <1>2, <2>1
  <2>2. CASE c < N /\ Type[c] \in ReadTypes /\ RecordRead(c)
    <3>1. c \in Index /\ enabled' = enabled
      BY <1>3, <2>2, RecordIndexAssumption DEF ReadNextRecordInternal, Index
    <3> QED
      BY <2>2, <3>1, DeliveredGoverned
  <2> QED
    BY <1>3, <2>1, <2>2 DEF ReadNextRecordInternal, ConfigReadFails, RecordReadFails
<1>4. CASE UNCHANGED vars
  BY <1>4 DEF vars, DeliveredRecord
<1>5. CASE \/ Open \/ Close
           \/ \E S \in SUBSET Streams : EnableStreams(S)
           \/ \E id \in TypeIds, types \in TypeFilters, n \in 0..MaxTrailing :
                SkipTrailingBlocks(id, types, n)
           \/ \E i \in -1..N : GotoRecord(i)
           \/ \E t \in 0..N : GotoTime(t)
  <2>1. returned' = None
    BY <1>5 DEF Open, Close, EnableStreams, SkipTrailingBlocks, GotoRecord, GotoTime
  <2> QED
    BY <1>2, <2>1
<1>6. CASE Reads
  BY <1>2, <1>3, <1>6, ReadBegins
<1> QED
  BY <1>4, <1>5, <1>6 DEF Next, Reads

(* The reader over one file is a record source, for any file, any records  *)
(* that fail and any order of the calls of a disciplined program: what it  *)
(* delivers is decoded under the configuration that governs it.            *)
THEOREM IsRecordSource ==
  ASSUME Disciplined
  PROVE  Spec => ImplementsRecordSource
<1>1. Init => Source!Init
  BY DEF Init, Source!Init, DeliveredRecord
<1>2. TypeOK /\ RememberedInForce /\ [Next]_vars => [Source!Next]_<<cursor, DeliveredRecord>>
  BY StepImplements
<1> QED
  BY <1>1, <1>2, TypeCorrect, ConfigRemembered, PTL DEF Spec, ImplementsRecordSource, Source!Spec
=============================================================================
