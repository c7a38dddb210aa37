------------------------- MODULE MultiVRSReaderProofs -------------------------
(***************************************************************************)
(* Theorems about MultiVRSReader, for any files, streams that share their  *)
(* ids or not, and records that fail.                                      *)
(***************************************************************************)
EXTENDS MultiVRSReader, RecordIndexProofs

-----------------------------------------------------------------------------
(* Type correctness, and the options of the players.                       *)

(* The state of the players: well typed, with options made from the        *)
(* configuration in force.  The second half is what makes OptionsAreCurrent *)
(* survive a read that normalises with options it already has.             *)
PlayerOK(p) ==
  /\ DOMAIN p.cache = Kinds
  /\ p.inForce \in [Streams -> Index \cup {None}]
  /\ p.options \in [Streams -> {{}} \cup {{c} : c \in Index \cup {None}}]
  /\ \A s \in Streams : p.options[s] \subseteq {p.inForce[s]}

Inv == TypeOK /\ OptionsAreCurrent

LEMMA CacheType ==
  /\ DOMAIN EmptyCache = Kinds
  /\ \A c, r, n : DOMAIN ReadBlocks(c, r, n) = Kinds
BY DEF EmptyCache, ReadBlocks

(* A record with the fields of a player, and no other. *)
IsPlayer(p) == p = [cache |-> p.cache, inForce |-> p.inForce, options |-> p.options]

(* Giving a player the blocks of a record keeps its options current.       *)
LEMMA PlayType ==
  ASSUME NEW p, IsPlayer(p), PlayerOK(p), NEW at \in Index, NEW r \in Index, NEW n
  PROVE  IsPlayer(Play(p, at, r, n)) /\ PlayerOK(Play(p, at, r, n))
<1> DEFINE q == [p EXCEPT !.cache = ReadBlocks(@, r, n)]
<1>1. IsPlayer(q) /\ PlayerOK(q)
  BY CacheType DEF IsPlayer, PlayerOK
<1> HIDE DEF q
<1>2. Stream[r] \in Streams
  BY RecordIndexAssumption
<1> DEFINE q2 == Capture(q, r, n)
<1>3. IsPlayer(q2) /\ PlayerOK(q2)
  BY <1>1, <1>2 DEF Capture, IsPlayer, PlayerOK
<1> HIDE DEF q2
<1>4. IsPlayer(Normalize(q2, at, r, n)) /\ PlayerOK(Normalize(q2, at, r, n))
  BY <1>2, <1>3 DEF Normalize, IsPlayer, PlayerOK
<1> QED
  BY <1>4 DEF Play, q, q2

LEMMA PlayerNow ==
  ASSUME Inv
  PROVE  IsPlayer(Player) /\ PlayerOK(Player)
BY DEF Inv, TypeOK, OptionsAreCurrent, IsPlayer, PlayerOK, Player

LEMMA PrevConfigFound ==
  ASSUME NEW r, ConfigsBefore(r) # {}
  PROVE  PrevConfig(r) \in ConfigsBefore(r) /\ \A c \in ConfigsBefore(r) : c <= PrevConfig(r)
BY MaxFound DEF ConfigsBefore, PrevConfig

LEMMA AfterConfigType ==
  ASSUME Inv, NEW r \in Index
  PROVE  IsPlayer(AfterConfig(r)) /\ PlayerOK(AfterConfig(r))
<1>1. CASE NeedsConfig(r)
  <2>1. PrevConfig(r) \in Index
    BY <1>1, PrevConfigFound DEF NeedsConfig, ConfigsBefore
  <2> DEFINE p == Play(Player, r, PrevConfig(r), BlockCount(r, PrevConfig(r)))
  <2>2. IsPlayer(p) /\ PlayerOK(p)
    BY <2>1, PlayerNow, PlayType
  <2> HIDE DEF p
  <2>3. IsPlayer([p EXCEPT !.cache = EmptyCache]) /\ PlayerOK([p EXCEPT !.cache = EmptyCache])
    BY <2>2, CacheType DEF IsPlayer, PlayerOK
  <2> QED
    BY <1>1, <2>3 DEF AfterConfig, p
<1>2. CASE ~NeedsConfig(r)
  BY <1>2, PlayerNow DEF AfterConfig
<1> QED
  BY <1>1, <1>2

LEMMA SetPlayerType ==
  ASSUME NEW p, PlayerOK(p), SetPlayer(p)
  PROVE  /\ DOMAIN cache' = Kinds
         /\ inForce' \in [Streams -> Index \cup {None}]
         /\ options' \in [Streams -> {{}} \cup {{c} : c \in Index \cup {None}}]
         /\ \A s \in Streams : options'[s] \subseteq {inForce'[s]}
BY DEF PlayerOK, SetPlayer

LEMMA RememberConfigType ==
  ASSUME Inv, NEW r \in Index, RememberConfig(r)
  PROVE  lastReadConfig' \in [Streams -> Index \cup {None}]
<1>1. CASE NeedsConfig(r)
  <2>1. PrevConfig(r) \in Index
    BY <1>1, PrevConfigFound DEF NeedsConfig, ConfigsBefore
  <2> QED
    BY <1>1, <2>1 DEF RememberConfig, Inv, TypeOK
<1>2. CASE ~NeedsConfig(r)
  BY <1>2 DEF RememberConfig, Inv, TypeOK
<1> QED
  BY <1>1, <1>2

(* A read, wherever it is told to begin, keeps the invariant.              *)
LEMMA ReadInv ==
  ASSUME Inv, NEW c \in 0..N, ReadNextRecordInternal(c)
  PROVE  Inv'
<1>1. /\ file' = file /\ enabled' = enabled /\ UNCHANGED <<trailing, imageConversion, streamConversion>>
      /\ file' \in {"unopened", "open", "closed"} /\ enabled' \subseteq Streams
      /\ trailing' \in [TypeIds \X RecordTypes -> {0} \cup {skip[3] : skip \in Skips}]
      /\ imageConversion' \in {"Off", "Normalize"}
      /\ streamConversion' \in [Streams -> {"Off", "Normalize", None}]
  BY DEF ReadNextRecordInternal, settings, Inv, TypeOK
<1>2. CASE c = N /\ cursor' = N /\ returned' = None /\ UNCHANGED <<player, lastReadConfig>>
  BY <1>1, <1>2, RecordIndexAssumption DEF Inv, TypeOK, OptionsAreCurrent, player
<1>3. CASE c < N /\ ConfigReadFails(c)
  <2>1. c \in Index
    BY <1>3, RecordIndexAssumption DEF Index
  <2>2. PrevConfig(c) \in Index
    BY <1>3, PrevConfigFound DEF ConfigReadFails, NeedsConfig, ConfigsBefore
  <2>3. PICK n \in 0..(BlockCount(c, PrevConfig(c)) - 1) : SetPlayer(Play(Player, c, PrevConfig(c), n))
    BY <1>3 DEF ConfigReadFails
  <2>4. PlayerOK(Play(Player, c, PrevConfig(c), n))
    BY <2>1, <2>2, PlayerNow, PlayType
  <2>5. lastReadConfig' = lastReadConfig /\ cursor' = c /\ returned' = None
    BY <1>3 DEF ConfigReadFails
  <2> QED
    BY <1>1, <2>3, <2>4, <2>5, SetPlayerType DEF Inv, TypeOK, OptionsAreCurrent
<1>4. CASE c < N /\ RecordReadFails(c)
  <2>1. c \in Index
    BY <1>4, RecordIndexAssumption DEF Index
  <2>2. PICK n \in 0..(BlockCount(c, c) - 1) : SetPlayer(Play(AfterConfig(c), c, c, n))
    BY <1>4 DEF RecordReadFails
  <2>3. PlayerOK(Play(AfterConfig(c), c, c, n))
    BY <2>1, AfterConfigType, PlayType
  <2>4. lastReadConfig' \in [Streams -> Index \cup {None}]
    BY <1>4, <2>1, RememberConfigType DEF RecordReadFails
  <2>5. cursor' = c /\ returned' = None
    BY <1>4 DEF RecordReadFails
  <2> QED
    BY <1>1, <2>2, <2>3, <2>4, <2>5, SetPlayerType DEF Inv, TypeOK, OptionsAreCurrent
<1>5. CASE c < N /\ RecordRead(c)
  <2>1. c \in Index /\ c + 1 \in 0..N
    BY <1>5, RecordIndexAssumption DEF Index
  <2> DEFINE p == Play(AfterConfig(c), c, c, BlockCount(c, c))
  <2>2. IsPlayer(p) /\ PlayerOK(p)
    BY <2>1, AfterConfigType, PlayType
  <2>3. /\ SetPlayer([p EXCEPT !.cache = EmptyCache]) /\ cursor' = c + 1
        /\ returned' = [index |-> c, blocks |-> p.cache, config |-> p.inForce[Stream[c]]]
    BY <1>5 DEF RecordRead
  <2> HIDE DEF p
  <2>4. PlayerOK([p EXCEPT !.cache = EmptyCache])
    BY <2>2, CacheType DEF IsPlayer, PlayerOK
  <2>5. lastReadConfig' \in [Streams -> Index \cup {None}]
    BY <1>5, <2>1, RememberConfigType DEF RecordRead
  <2>6. p.inForce[Stream[c]] \in Index \cup {None}
    BY <2>1, <2>2, RecordIndexAssumption DEF PlayerOK
  <2>7. /\ DOMAIN returned' = {"index", "blocks", "config"}
        /\ returned'.index \in Index /\ returned'.config \in Index \cup {None}
    BY <2>1, <2>3, <2>6
  <2>8. cursor' \in 0..N
    BY <2>1, <2>3
  <2> QED
    BY <1>1, <2>3, <2>4, <2>5, <2>7, <2>8, SetPlayerType DEF Inv, TypeOK, OptionsAreCurrent
<1> QED
  BY <1>2, <1>3, <1>4, <1>5 DEF ReadNextRecordInternal

(* What skipIgnoredRecords finds: nothing of the set is in front of it.    *)
LEMMA FirstFromFound ==
  ASSUME TypeOK, NEW S, S \subseteq Index
  PROVE  LET i == FirstFrom(S) IN
         /\ i \in cursor..N
         /\ i = N \/ i \in S
         /\ \A j \in cursor..(i - 1) : j \notin S
<1> DEFINE ahead == {i \in S : i >= cursor}
<1>1. cursor \in 0..N /\ N \in Nat /\ \A i \in S : i \in 0..(N - 1)
  BY RecordIndexAssumption DEF TypeOK, Index
<1>2. CASE ahead = {}
  BY <1>1, <1>2 DEF FirstFrom
<1>3. CASE ahead # {}
  <2>1. Min(ahead) \in ahead /\ \A i \in ahead : Min(ahead) <= i
    BY <1>3, MinFound
  <2>2. FirstFrom(S) = Min(ahead)
    BY <1>3 DEF FirstFrom
  <2>3. Min(ahead) \in S /\ Min(ahead) >= cursor /\ Min(ahead) \in 0..(N - 1)
    BY <1>1, <2>1
  <2>4. ASSUME NEW j \in cursor..(Min(ahead) - 1) PROVE j \notin S
    <3>1. j \in Int /\ cursor <= j /\ j < Min(ahead)
      BY <1>1, <2>3
    <3>2. j \in S => j \in ahead
      BY <3>1
    <3> QED
      BY <2>1, <2>3, <3>1, <3>2
  <2>5. Min(ahead) \in cursor..N
    BY <1>1, <2>3
  <2> QED
    BY <2>2, <2>3, <2>4, <2>5
<1> QED
  BY <1>2, <1>3

(* The calls that read. *)
Reads ==
  \/ ReadNextRecord
  \/ \E s \in Streams, types \in TypeFilters : ReadNextRecordOf({s}, types)
  \/ \E id \in TypeIds, types \in TypeFilters :
       ReadNextRecordOf({s \in Streams : TypeIdOf[s] = id}, types)
  \/ \E i \in Index : ReadRecord(i)
  \/ \E s \in Streams, types \in TypeFilters, k \in 0..N : ReadRecordOf(s, types, k)

(* Each way of reading begins within the files. *)
LEMMA ReadBegins ==
  ASSUME TypeOK, Reads
  PROVE  \/ \E c \in 0..N : ReadNextRecordInternal(c)
         \/ /\ cursor' = N /\ returned' = None
            /\ UNCHANGED <<file, enabled, player, lastReadConfig, settings>>
<1>1. \A S : S \subseteq Index => FirstFrom(S) \in 0..N
  <2> SUFFICES ASSUME NEW S, S \subseteq Index PROVE FirstFrom(S) \in 0..N
    OBVIOUS
  <2>1. FirstFrom(S) \in cursor..N
    BY FirstFromFound
  <2>2. cursor \in 0..N /\ N \in Nat
    BY RecordIndexAssumption DEF TypeOK
  <2> QED
    BY <2>1, <2>2
<1>2. /\ Index \subseteq 0..N
      /\ {i \in Index : Stream[i] \in enabled} \subseteq Index
      /\ \A S, types : MultiMatching(enabled, S, types) \subseteq Index
  BY RecordIndexAssumption DEF Index, MultiMatching, Matching
<1> QED
  BY <1>1, <1>2, RecordOfType, Zenon
  DEF Reads, ReadNextRecord, ReadNextRecordOf, ReadRecord, ReadRecordOf

LEMMA InitInv == Init => Inv
BY RecordIndexAssumption, CacheType DEF Init, Inv, TypeOK, OptionsAreCurrent

(* The calls that read nothing leave the players and, but for its cursor,  *)
(* streams and settings, the reader as they are.                           *)
LEMMA NothingRead ==
  ASSUME Inv, UNCHANGED player, returned' = None,
         file' \in {"unopened", "open", "closed"}, enabled' \subseteq Streams, cursor' \in 0..N,
         lastReadConfig' = lastReadConfig \/ lastReadConfig' = [s \in Streams |-> None],
         UNCHANGED settings
           \/ /\ trailing' \in [TypeIds \X RecordTypes -> {0} \cup {skip[3] : skip \in Skips}]
              /\ imageConversion' \in {"Off", "Normalize"}
              /\ streamConversion' \in [Streams -> {"Off", "Normalize", None}]
  PROVE  Inv'
<1>1. cache' = cache /\ inForce' = inForce /\ options' = options
  BY DEF player
<1>2. /\ trailing' \in [TypeIds \X RecordTypes -> {0} \cup {skip[3] : skip \in Skips}]
      /\ imageConversion' \in {"Off", "Normalize"}
      /\ streamConversion' \in [Streams -> {"Off", "Normalize", None}]
  BY DEF settings, Inv, TypeOK
<1>3. lastReadConfig' \in [Streams -> Index \cup {None}]
  BY DEF Inv, TypeOK
<1> QED
  BY <1>1, <1>2, <1>3 DEF Inv, TypeOK, OptionsAreCurrent

LEMMA CursorEnds == N \in 0..N /\ 0 \in 0..N /\ Index \subseteq 0..N
BY RecordIndexAssumption DEF Index

LEMMA StepInv == Inv /\ [Next]_vars => Inv'
<1> SUFFICES ASSUME Inv, [Next]_vars PROVE Inv'
  OBVIOUS
<1>0. /\ file \in {"unopened", "open", "closed"} /\ enabled \subseteq Streams /\ cursor \in 0..N
      /\ trailing \in [TypeIds \X RecordTypes -> {0} \cup {k[3] : k \in Skips}]
      /\ imageConversion \in {"Off", "Normalize"}
      /\ streamConversion \in [Streams -> {"Off", "Normalize", None}]
  BY DEF Inv, TypeOK
<1>1. CASE Open
  BY <1>0, <1>1, CursorEnds, NothingRead DEF Open
<1>2. CASE Close
  BY <1>0, <1>2, NothingRead DEF Close
<1>3. ASSUME NEW S \in EnableSets, EnableStreams(S) PROVE Inv'
  BY <1>0, <1>3, NothingRead, MultiReaderAssumption DEF EnableStreams
<1>4. ASSUME NEW skip \in Skips, SkipTrailingBlocks(skip[1], skip[2], skip[3]) PROVE Inv'
  <2>1. trailing' \in [TypeIds \X RecordTypes -> {0} \cup {k[3] : k \in Skips}]
    BY <1>0, <1>4 DEF SkipTrailingBlocks
  <2> QED
    BY <1>0, <1>4, <2>1, NothingRead DEF SkipTrailingBlocks
<1>5. ASSUME NEW set \in Conversions,
             SetImageConversion(set[2]) \/ SetStreamImageConversion(set[1], set[2])
      PROVE  Inv'
  <2>1. set[2] \in {"Off", "Normalize"}
    BY MultiReaderAssumption
  <2>2. CASE SetImageConversion(set[2])
    BY <1>0, <2>1, <2>2, NothingRead DEF SetImageConversion
  <2>3. CASE SetStreamImageConversion(set[1], set[2])
    <3>1. streamConversion' \in [Streams -> {"Off", "Normalize", None}]
      BY <1>0, <2>1, <2>3 DEF SetStreamImageConversion
    <3> QED
      BY <1>0, <2>3, <3>1, NothingRead DEF SetStreamImageConversion
  <2> QED
    BY <1>5, <2>2, <2>3
<1>6. ASSUME NEW i, Goto(i) PROVE Inv'
  BY <1>0, <1>6, CursorEnds, NothingRead DEF Goto
<1>7. ASSUME NEW c \in 0..N, ReadNextRecordInternal(c) PROVE Inv'
  BY <1>7, ReadInv
<1>8. CASE /\ cursor' = N /\ returned' = None
           /\ UNCHANGED <<file, enabled, player, lastReadConfig, settings>>
  BY <1>0, <1>8, CursorEnds, NothingRead
<1>9. CASE UNCHANGED vars
  BY <1>9 DEF vars, player, settings, Inv, TypeOK, OptionsAreCurrent
<1> QED
  BY <1>1, <1>2, <1>3, <1>4, <1>5, <1>6, <1>7, <1>8, <1>9, ReadBegins
  DEF Next, Reads, GotoRecord, GotoTime, Inv

(* The reader of several files is well typed, and the options its players  *)
(* keep for normalising images are those of the configuration in force,    *)
(* for any files, ids shared or not, and calls that fail.                  *)
THEOREM OptionsCurrent == Spec => []OptionsAreCurrent
<1>1. Inv => OptionsAreCurrent
  BY DEF Inv
<1> QED
  BY <1>1, InitInv, StepInv, PTL DEF Spec

(* The types alone: the cursor, among others, never leaves the index.      *)
THEOREM TypeCorrect == Spec => []TypeOK
<1>1. Inv => TypeOK
  BY DEF Inv
<1> QED
  BY <1>1, InitInv, StepInv, PTL DEF Spec

-----------------------------------------------------------------------------
(* The blocks of a record.                                                 *)

(* No record has more blocks read than it has. *)
LEMMA BlockCountType ==
  ASSUME TypeOK, NEW r \in Index
  PROVE  Blocks[r] \in Seq(Kinds) /\ BlockCount(r, r) \in 0..Len(Blocks[r])
<1>1. Blocks[r] \in Seq(Kinds) /\ Len(Blocks[r]) \in Nat
  BY MultiReaderAssumption
<1>2. trailing[<<TypeIdOf[Stream[r]], Type[r]>>] \in Nat
  <2>1. <<TypeIdOf[Stream[r]], Type[r]>> \in TypeIds \X RecordTypes
    BY RecordIndexAssumption DEF TypeIds
  <2>2. trailing \in [TypeIds \X RecordTypes -> {0} \cup {skip[3] : skip \in Skips}]
    BY DEF TypeOK
  <2>3. {0} \cup {skip[3] : skip \in Skips} \subseteq Nat
    BY MultiReaderAssumption
  <2>4. \A k \in TypeIds \X RecordTypes : trailing[k] \in Nat
    BY <2>2, <2>3
  <2> QED
    BY <2>1, <2>4
<1> QED
  BY <1>1, <1>2 DEF BlockCount

(* The player of an enabled stream reads the blocks into the cache.        *)
LEMMA PlayCache ==
  ASSUME NEW p, IsPlayer(p), PlayerOK(p), NEW at, NEW r \in Index, NEW n, Stream[r] \in enabled
  PROVE  Play(p, at, r, n).cache = ReadBlocks(p.cache, r, n)
<1> DEFINE q == [p EXCEPT !.cache = ReadBlocks(@, r, n)]
<1>1. IsPlayer(q) /\ q.cache = ReadBlocks(p.cache, r, n)
  BY DEF IsPlayer
<1> HIDE DEF q
<1> DEFINE q2 == Capture(q, r, n)
<1>2. IsPlayer(q2) /\ q2.cache = q.cache
  BY <1>1 DEF Capture, IsPlayer
<1> HIDE DEF q2
<1>3. Normalize(q2, at, r, n).cache = q2.cache
  BY <1>2 DEF Normalize, IsPlayer
<1> QED
  BY <1>1, <1>2, <1>3 DEF Play, q, q2

(* A record read from an enabled stream comes with its own blocks, those   *)
(* asked for and in its order, whichever file it is in and whatever streams *)
(* share its id, for any files in which no record begins with two blocks   *)
(* of one kind other than a data layout.                                   *)
THEOREM ReadsExactBlocks ==
  ASSUME \A r \in Index : FirstTwoDiffer(r)
  PROVE  Spec => ExactBlocks
<1> DEFINE Exact ==
      returned' # returned /\ returned' # None /\ cache = EmptyCache =>
        LET r == returned'.index IN
        Stream[r] \in enabled => HoldsOwnBlocks(returned'.blocks, r, BlockCount(r, r))
<1>1. ASSUME Inv, NEW c \in 0..N, ReadNextRecordInternal(c) PROVE Exact
  <2> SUFFICES ASSUME returned' # None, cache = EmptyCache, Stream[returned'.index] \in enabled
               PROVE  HoldsOwnBlocks(returned'.blocks, returned'.index,
                                     BlockCount(returned'.index, returned'.index))
    BY Zenon
  <2>1. c < N /\ RecordRead(c)
    BY <1>1 DEF ReadNextRecordInternal, ConfigReadFails, RecordReadFails
  <2>2. c \in Index
    BY <2>1, RecordIndexAssumption DEF Index
  <2>3. /\ returned'.index = c
        /\ returned'.blocks = Play(AfterConfig(c), c, c, BlockCount(c, c)).cache
    BY <2>1 DEF RecordRead
  <2>4. AfterConfig(c).cache = EmptyCache
    <3>1. CASE NeedsConfig(c)
      <4> DEFINE p == Play(Player, c, PrevConfig(c), BlockCount(c, PrevConfig(c)))
      <4>1. PrevConfig(c) \in Index
        BY <3>1, PrevConfigFound DEF NeedsConfig, ConfigsBefore
      <4>2. IsPlayer(p)
        BY <1>1, <2>2, <4>1, PlayerNow, PlayType
      <4>3. AfterConfig(c) = [p EXCEPT !.cache = EmptyCache]
        BY <3>1 DEF AfterConfig
      <4> HIDE DEF p
      <4> QED
        BY <4>2, <4>3 DEF IsPlayer
    <3>2. CASE ~NeedsConfig(c)
      BY <3>2 DEF AfterConfig, Player
    <3> QED
      BY <3>1, <3>2
  <2>5. returned'.blocks = ReadBlocks(EmptyCache, c, BlockCount(c, c))
    <3>1. IsPlayer(AfterConfig(c)) /\ PlayerOK(AfterConfig(c)) /\ Stream[c] \in enabled
      BY <1>1, <2>2, <2>3, AfterConfigType
    <3> QED
      BY <2>2, <2>3, <2>4, <3>1, PlayCache
  <2>6. HoldsOwnBlocks(ReadBlocks(EmptyCache, c, BlockCount(c, c)), c, BlockCount(c, c))
    BY <1>1, <2>2, BlockCountType, ReadBlocksExact DEF Inv
  <2> QED
    BY <2>3, <2>5, <2>6
<1>2. ASSUME returned' = None \/ returned' = returned PROVE Exact
  BY <1>2
<1>3. Inv /\ [Next]_vars => [Exact]_vars
  <2> HIDE DEF Exact
  <2> SUFFICES ASSUME Inv, Next PROVE Exact
    OBVIOUS
  <2>1. CASE Reads
    BY <1>1, <1>2, <2>1, ReadBegins DEF Inv
  <2>2. CASE ~Reads
    <3>1. returned' = None
      BY <2>2 DEF Next, Reads, Open, Close, EnableStreams, SkipTrailingBlocks, SetImageConversion,
                  SetStreamImageConversion, Goto, GotoRecord, GotoTime
    <3> QED
      BY <1>2, <3>1
  <2> QED
    BY <2>1, <2>2
<1> QED
  BY <1>3, TypeCorrect, OptionsCurrent, PTL DEF Spec, ExactBlocks, Inv

-----------------------------------------------------------------------------
(* Reading on.                                                             *)

(* What a read does to the cursor, and when it returns something. *)
LEMMA ReadMoves ==
  ASSUME NEW c \in 0..N, ReadNextRecordInternal(c)
  PROVE  \/ cursor' = c /\ returned' = None
         \/ c < N /\ Type[c] \in ReadTypes /\ RecordRead(c) /\ cursor' = c + 1
BY DEF ReadNextRecordInternal, ConfigReadFails, RecordReadFails, RecordRead

(* None is not a record handed to Python. *)
NoneIsNoRecord == \A i, blocks, config :
                    None # [index |-> i, blocks |-> blocks, config |-> config]

(* Reading on returns the next record of an enabled stream, the one that   *)
(* getEnabledStreamsRecordsInfo lists first from the cursor on, for any    *)
(* files, streams enabled and failures.                                    *)
THEOREM ReadsOn ==
  ASSUME NoneIsNoRecord
  PROVE  Spec => NextRecordIsNext
<1> DEFINE Listed(r) ==
             LET infos == MultiGetEnabledStreamsRecordsInfo(enabled)
                 ahead == {k \in DOMAIN infos : infos[k].record_index >= cursor}
             IN /\ r >= cursor
                /\ ahead # {}
                /\ infos[Min(ahead)] = RecordInfo(r, r)
           Next1 ==
             ReadNextRecord =>
               /\ \A i \in cursor..(cursor' - 1) :
                    Stream[i] \in enabled => returned' # None /\ returned'.index = i
               /\ returned' # None => Listed(returned'.index)
<1>1. ASSUME TypeOK, ReadNextRecord PROVE Next1
  <2> DEFINE S == {i \in Index : Stream[i] \in enabled}
             c == FirstFrom(S)
  <2>1. /\ c \in cursor..N /\ (c = N \/ c \in S)
        /\ \A i \in cursor..(c - 1) : i \notin S
    <3>1. S \subseteq Index
      OBVIOUS
    <3> HIDE DEF S
    <3> QED
      BY <1>1, <3>1, FirstFromFound
  <2>2. c \in 0..N /\ cursor \in 0..N /\ ReadNextRecordInternal(c)
    BY <1>1, <2>1, RecordIndexAssumption DEF ReadNextRecord, TypeOK
  <2>3. \A i \in cursor..(c - 1) : Stream[i] \notin enabled
    <3> HIDE DEF c
    <3>1. \A i \in cursor..(c - 1) : i \in Index
      BY <2>2, RecordIndexAssumption DEF Index
    <3> QED
      BY <2>1, <3>1
  <2>4. c < N => c \in Index /\ Stream[c] \in enabled
    BY <2>1, <2>2, RecordIndexAssumption
  <2> HIDE DEF S, c, Listed
  <2>5. CASE cursor' = c /\ returned' = None
    BY <2>3, <2>5
  <2>6. CASE c < N /\ cursor' = c + 1 /\ RecordRead(c)
    <3>1. returned' # None /\ returned'.index = c
      BY <2>2, <2>6, NoneIsNoRecord DEF NoneIsNoRecord, RecordRead
    <3>2. \A i \in cursor..(cursor' - 1) : i \in cursor..(c - 1) \/ i = c
      BY <2>2, <2>6, RecordIndexAssumption
    <3>3. \A i \in cursor..(cursor' - 1) :
            Stream[i] \in enabled => returned' # None /\ returned'.index = i
      BY <2>3, <3>1, <3>2
    <3>4. Listed(c)
      <4>1. enabled \subseteq Streams /\ cursor <= c /\ c >= cursor
        BY <1>1, <2>1, <2>2 DEF TypeOK
      <4> QED
        BY <2>2, <2>3, <2>4, <2>6, <4>1, ListedFirst
        DEF Listed, MultiGetEnabledStreamsRecordsInfo
    <3> QED
      BY <3>1, <3>3, <3>4
  <2> QED
    BY <2>2, <2>5, <2>6, ReadMoves
<1>2. TypeOK /\ [Next]_vars => [Next1]_vars
  BY <1>1 DEF Next1
<1> QED
  BY <1>2, TypeCorrect, PTL DEF Spec, NextRecordIsNext

-----------------------------------------------------------------------------
(* The reader implements RecordSource.                                     *)

(* Streams are enabled before they are read, configuration records are     *)
(* left to the automatic reading and have one block, the layout.           *)
Disciplined ==
  /\ EnableLate = FALSE /\ "configuration" \notin ReadTypes
  /\ \A i \in Index : Type[i] = "configuration" => Blocks[i] = <<"layout">>

(* What the reader remembers to have read for an id is what the player of  *)
(* the stream has in force, if the stream has its id for itself.           *)
RememberedInForce ==
  \A s \in enabled :
    Unshared(s) /\ lastReadConfig[FileId[s]] # None => inForce[s] = lastReadConfig[FileId[s]]

(* Whatever the limit, and whichever stream it is of, the one block of a   *)
(* configuration record is read.                                           *)
LEMMA ConfigIsOneBlock ==
  ASSUME TypeOK, Disciplined, NEW at \in Index, NEW c \in Index, Type[c] = "configuration"
  PROVE  BlockCount(at, c) = 1 /\ HasBlock(c, 1, "layout")
<1>1. Blocks[c] = <<"layout">> /\ Len(Blocks[c]) = 1
  BY DEF Disciplined
<1>2. <<TypeIdOf[Stream[at]], Type[c]>> \in TypeIds \X RecordTypes
  BY RecordIndexAssumption DEF TypeIds, RecordTypes
<1> DEFINE limit == trailing[<<TypeIdOf[Stream[at]], Type[c]>>]
<1>3. limit \in {0} \cup {skip[3] : skip \in Skips}
  BY <1>2, Zenon DEF TypeOK
<1> HIDE DEF limit
<1>4. limit \in Nat
  <2>1. \A skip \in Skips : skip[3] \in Nat
    BY MultiReaderAssumption
  <2> QED
    BY <1>3, <2>1
<1>5. BlockCount(at, c) = IF limit = 0 \/ limit > Len(Blocks[c]) THEN Len(Blocks[c]) ELSE limit
  BY DEF BlockCount, limit
<1>6. BlockCount(at, c) = 1
  BY <1>1, <1>4, <1>5
<1> QED
  BY <1>1, <1>6 DEF HasBlock

(* Only a configuration record's layout changes what a player has in force. *)
LEMMA PlayInForce ==
  ASSUME NEW p, IsPlayer(p), PlayerOK(p), NEW at, NEW r \in Index, NEW n
  PROVE  Play(p, at, r, n).inForce =
           IF Stream[r] \in enabled /\ Type[r] = "configuration" /\ HasBlock(r, n, "layout")
             THEN [p.inForce EXCEPT ![Stream[r]] = r]
             ELSE p.inForce
<1> DEFINE q == [p EXCEPT !.cache = ReadBlocks(@, r, n)]
<1>1. IsPlayer(q) /\ q.inForce = p.inForce
  BY DEF IsPlayer
<1> HIDE DEF q
<1> DEFINE q2 == Capture(q, r, n)
<1>2. /\ IsPlayer(q2)
      /\ q2.inForce = IF Type[r] = "configuration" /\ HasBlock(r, n, "layout")
                        THEN [p.inForce EXCEPT ![Stream[r]] = r] ELSE p.inForce
  BY <1>1 DEF Capture, IsPlayer
<1> HIDE DEF q2
<1>3. Normalize(q2, at, r, n).inForce = q2.inForce
  BY <1>2 DEF Normalize, IsPlayer
<1> QED
  BY <1>2, <1>3 DEF Play, q, q2

LEMMA PlayerInForce == Player.inForce = inForce
BY DEF Player

(* Once the configuration was read, the player of its stream has it in     *)
(* force, if the stream has one, and nothing else has changed.             *)
LEMMA AfterConfigInForce ==
  ASSUME Inv, Disciplined, NEW r \in Index
  PROVE  AfterConfig(r).inForce =
           IF NeedsConfig(r) /\ Stream[PrevConfig(r)] \in enabled
             THEN [inForce EXCEPT ![Stream[PrevConfig(r)]] = PrevConfig(r)]
             ELSE inForce
<1>1. CASE ~NeedsConfig(r)
  BY <1>1, PlayerInForce DEF AfterConfig
<1>2. CASE NeedsConfig(r)
  <2> DEFINE c == PrevConfig(r)
             p == Play(Player, r, c, 1)
  <2>1. c \in Index /\ Type[c] = "configuration"
    BY <1>2, PrevConfigFound DEF NeedsConfig, ConfigsBefore
  <2>2. BlockCount(r, c) = 1 /\ HasBlock(c, 1, "layout")
    BY <2>1, ConfigIsOneBlock DEF Inv
  <2>3. AfterConfig(r) = [p EXCEPT !.cache = EmptyCache]
    BY <1>2, <2>2 DEF AfterConfig
  <2> HIDE DEF c
  <2>4. /\ IsPlayer(p)
        /\ p.inForce = IF Stream[c] \in enabled THEN [inForce EXCEPT ![Stream[c]] = c]
                                               ELSE inForce
    <3>1. IsPlayer(Player) /\ PlayerOK(Player) /\ Player.inForce = inForce
      BY PlayerNow, PlayerInForce
    <3> HIDE DEF Player
    <3>2. IsPlayer(p)
      BY <2>1, <3>1, PlayType
    <3>3. p.inForce = IF Stream[c] \in enabled THEN [Player.inForce EXCEPT ![Stream[c]] = c]
                                               ELSE Player.inForce
      BY <2>1, <2>2, <3>1, PlayInForce
    <3> QED
      BY <3>1, <3>2, <3>3
  <2> HIDE DEF p
  <2>5. AfterConfig(r).inForce = p.inForce
    BY <2>3, <2>4 DEF IsPlayer
  <2> QED
    BY <1>2, <2>4, <2>5 DEF c
<1> QED
  BY <1>1, <1>2

(* What a read that gets past its configuration does to both memories.     *)
LEMMA ReadRemembers ==
  ASSUME Inv, Disciplined, RememberedInForce, NEW r \in Index, RememberConfig(r),
         enabled' = enabled, inForce' = AfterConfig(r).inForce
  PROVE  /\ RememberedInForce'
         /\ Stream[r] \in enabled /\ Unshared(Stream[r]) =>
              (AutoRead /\ Type[r] = "data" /\ ConfigsBefore(r) # {} =>
                 inForce'[Stream[r]] = PrevConfig(r))
<1>1. /\ lastReadConfig \in [Streams -> Index \cup {None}]
      /\ inForce \in [Streams -> Index \cup {None}] /\ enabled \subseteq Streams
      /\ Stream[r] \in Streams /\ FileId[Stream[r]] \in Streams
  BY RecordIndexAssumption, MultiReaderAssumption DEF Inv, TypeOK
<1>2. CASE NeedsConfig(r)
  <2> DEFINE c == PrevConfig(r)
  <2>1. c \in Index /\ FileId[Stream[c]] = FileId[Stream[r]]
    BY <1>2, PrevConfigFound DEF NeedsConfig, ConfigsBefore
  <2>2. lastReadConfig' = [lastReadConfig EXCEPT ![FileId[Stream[r]]] = c]
    BY <1>2 DEF RememberConfig
  <2>3. inForce' = IF Stream[c] \in enabled THEN [inForce EXCEPT ![Stream[c]] = c] ELSE inForce
    BY <1>2, AfterConfigInForce
  <2>4. Stream[c] \in Streams
    BY <2>1, RecordIndexAssumption
  <2> HIDE DEF c
  <2>5. ASSUME NEW s \in enabled, Unshared(s), lastReadConfig'[FileId[s]] # None
        PROVE  inForce'[s] = lastReadConfig'[FileId[s]]
    <3>1. FileId[s] \in Streams
      BY <1>1, <2>5, MultiReaderAssumption
    <3>2. CASE FileId[s] = FileId[Stream[r]]
      <4>1. Stream[c] = s
        BY <2>1, <2>4, <2>5, <3>2 DEF Unshared
      <4> QED
        BY <1>1, <2>2, <2>3, <2>5, <3>2, <4>1
    <3>3. CASE FileId[s] # FileId[Stream[r]]
      <4>1. Stream[c] # s
        BY <2>1, <3>3
      <4>2. inForce'[s] = inForce[s]
        BY <1>1, <2>3, <2>5, <4>1
      <4>3. lastReadConfig'[FileId[s]] = lastReadConfig[FileId[s]]
        BY <1>1, <2>2, <3>1, <3>3
      <4> QED
        BY <2>5, <4>2, <4>3 DEF RememberedInForce
    <3> QED
      BY <3>2, <3>3
  <2>6. Stream[r] \in enabled /\ Unshared(Stream[r]) => inForce'[Stream[r]] = c
    BY <1>1, <2>1, <2>3, <2>4 DEF Unshared
  <2> QED
    BY <2>5, <2>6 DEF RememberedInForce, c
<1>3. CASE ~NeedsConfig(r)
  <2>1. lastReadConfig' = lastReadConfig /\ inForce' = inForce
    BY <1>3, AfterConfigInForce DEF RememberConfig
  <2>2. ASSUME Stream[r] \in enabled, Unshared(Stream[r]),
               AutoRead, Type[r] = "data", ConfigsBefore(r) # {}
        PROVE  inForce[Stream[r]] = PrevConfig(r)
    <3>1. lastReadConfig[FileId[Stream[r]]] = PrevConfig(r)
      BY <1>3, <2>2 DEF NeedsConfig
    <3>2. None \notin Index
      BY RecordIndexAssumption DEF Index
    <3>3. PrevConfig(r) \in Index
      BY <2>2, PrevConfigFound DEF ConfigsBefore
    <3> QED
      BY <2>2, <3>1, <3>2, <3>3 DEF RememberedInForce
  <2> QED
    BY <2>1, <2>2 DEF RememberedInForce
<1> QED
  BY <1>2, <1>3

(* A record the program asks for is no configuration: reading it leaves    *)
(* what the players have in force as its configuration left it.            *)
LEMMA RecordInForce ==
  ASSUME Inv, Disciplined, NEW r \in Index, Type[r] \in ReadTypes, NEW n
  PROVE  Play(AfterConfig(r), r, r, n).inForce = AfterConfig(r).inForce
BY AfterConfigType, PlayInForce DEF Disciplined

LEMMA ReadKeepsRemembered ==
  ASSUME Inv, Disciplined, RememberedInForce, NEW c \in 0..N, ReadNextRecordInternal(c)
  PROVE  RememberedInForce'
<1>1. enabled' = enabled
  BY DEF ReadNextRecordInternal
<1>2. CASE UNCHANGED <<inForce, lastReadConfig>>
  BY <1>1, <1>2 DEF RememberedInForce
<1>3. CASE c < N /\ Type[c] \in ReadTypes /\ ConfigReadFails(c)
  <2>1. c \in Index
    BY <1>3, RecordIndexAssumption DEF Index
  <2>2. PrevConfig(c) \in Index /\ Type[PrevConfig(c)] = "configuration"
    BY <1>3, PrevConfigFound DEF ConfigReadFails, NeedsConfig, ConfigsBefore
  <2>3. BlockCount(c, PrevConfig(c)) = 1
    BY <2>1, <2>2, ConfigIsOneBlock DEF Inv
  <2>4. 0..(BlockCount(c, PrevConfig(c)) - 1) = {0}
    BY <2>3
  <2>5. SetPlayer(Play(Player, c, PrevConfig(c), 0)) /\ lastReadConfig' = lastReadConfig
    BY <1>3, <2>4 DEF ConfigReadFails
  <2>6. ~HasBlock(PrevConfig(c), 0, "layout")
    BY DEF HasBlock
  <2>7. Play(Player, c, PrevConfig(c), 0).inForce = inForce
    BY <2>2, <2>6, PlayerNow, PlayerInForce, PlayInForce
  <2> QED
    BY <1>2, <2>5, <2>7 DEF SetPlayer
<1>4. CASE c < N /\ Type[c] \in ReadTypes /\ (RecordReadFails(c) \/ RecordRead(c))
  <2>1. c \in Index
    BY <1>4, RecordIndexAssumption DEF Index
  <2>2. RememberConfig(c) /\ inForce' = AfterConfig(c).inForce
    <3>1. CASE RecordReadFails(c)
      BY <1>4, <2>1, <3>1, RecordInForce DEF RecordReadFails, SetPlayer
    <3>2. CASE RecordRead(c)
      <4> DEFINE p == Play(AfterConfig(c), c, c, BlockCount(c, c))
      <4>1. IsPlayer(p) /\ p.inForce = AfterConfig(c).inForce
        BY <1>4, <2>1, AfterConfigType, PlayType, RecordInForce
      <4>2. RememberConfig(c) /\ SetPlayer([p EXCEPT !.cache = EmptyCache])
        BY <3>2 DEF RecordRead
      <4> HIDE DEF p
      <4> QED
        BY <4>1, <4>2 DEF SetPlayer, IsPlayer
    <3> QED
      BY <1>4, <3>1, <3>2
  <2> QED
    BY <1>1, <2>1, <2>2, ReadRemembers
<1>5. CASE c = N /\ UNCHANGED <<player, lastReadConfig>>
  BY <1>2, <1>5 DEF player
<1> QED
  BY <1>3, <1>4, <1>5 DEF ReadNextRecordInternal

LEMMA StepRemembered ==
  ASSUME Disciplined, Inv, RememberedInForce, [Next]_vars
  PROVE  RememberedInForce'
<1>0. ASSUME UNCHANGED <<enabled, player, lastReadConfig>> PROVE RememberedInForce'
  BY <1>0 DEF RememberedInForce, player
<1>1. CASE Open
  <2>1. enabled' = enabled /\ inForce' = inForce
    BY <1>1 DEF Open, player
  <2>2. lastReadConfig' = lastReadConfig \/ lastReadConfig' = [s \in Streams |-> None]
    BY <1>1 DEF Open
  <2>3. \A s \in enabled : FileId[s] \in Streams
    BY MultiReaderAssumption DEF Inv, TypeOK
  <2> QED
    BY <2>1, <2>2, <2>3 DEF RememberedInForce
<1>2. CASE Close
  BY <1>0, <1>2 DEF Close
<1>3. ASSUME NEW S \in EnableSets, EnableStreams(S) PROVE RememberedInForce'
  <2>1. /\ enabled' = enabled \cup S /\ \A s \in S : lastReadConfig[FileId[s]] = None
        /\ inForce' = inForce /\ lastReadConfig' = lastReadConfig
    BY <1>3 DEF EnableStreams, Disciplined, player
  <2> QED
    BY <2>1 DEF RememberedInForce
<1>4. ASSUME NEW skip \in Skips, SkipTrailingBlocks(skip[1], skip[2], skip[3])
      PROVE  RememberedInForce'
  BY <1>0, <1>4 DEF SkipTrailingBlocks
<1>5. ASSUME NEW set \in Conversions,
             SetImageConversion(set[2]) \/ SetStreamImageConversion(set[1], set[2])
      PROVE  RememberedInForce'
  BY <1>0, <1>5 DEF SetImageConversion, SetStreamImageConversion
<1>6. ASSUME NEW i, Goto(i) PROVE RememberedInForce'
  BY <1>0, <1>6 DEF Goto
<1>7. CASE Reads
  BY <1>0, <1>7, ReadBegins, ReadKeepsRemembered DEF Inv
<1>8. CASE UNCHANGED vars
  BY <1>0, <1>8 DEF vars
<1> QED
  BY <1>1, <1>2, <1>3, <1>4, <1>5, <1>6, <1>7, <1>8 DEF Next, Reads, GotoRecord, GotoTime

(* For any files and order of calls of a disciplined program, through      *)
(* failures and limits, the configuration readConfigurationRecord does not *)
(* read again is the one the player has in force, for every enabled stream *)
(* whose id no other file has.                                             *)
THEOREM ConfigRemembered ==
  ASSUME Disciplined
  PROVE  Spec => []RememberedInForce
<1>1. Init => RememberedInForce
  BY DEF Init, RememberedInForce
<1>2. Inv /\ RememberedInForce /\ [Next]_vars => RememberedInForce'
  BY StepRemembered
<1> QED
  BY <1>1, <1>2, InitInv, StepInv, PTL DEF Spec

(* A record that is delivered was read, and under what governs it. *)
LEMMA DeliveredGoverned ==
  ASSUME Disciplined, Inv, RememberedInForce,
         NEW r \in Index, Type[r] \in ReadTypes, enabled' = enabled, RecordRead(r)
  PROVE  Source!Next
<1> DEFINE p == Play(AfterConfig(r), r, r, BlockCount(r, r))
<1>1. IsPlayer(p) /\ PlayerOK(p) /\ p.inForce = AfterConfig(r).inForce
  BY AfterConfigType, PlayType, RecordInForce
<1>2. /\ RememberConfig(r) /\ SetPlayer([p EXCEPT !.cache = EmptyCache])
      /\ cursor' = r + 1
      /\ returned' = [index |-> r, blocks |-> p.cache, config |-> p.inForce[Stream[r]]]
  BY DEF RecordRead
<1> HIDE DEF p
<1>3. inForce' = AfterConfig(r).inForce /\ inForce' \in [Streams -> Index \cup {None}]
  BY <1>1, <1>2 DEF SetPlayer, IsPlayer, PlayerOK
<1>4. /\ r + 1 \in 0..N /\ r \in 0..(N - 1)
      /\ returned'.index = r /\ returned'.config = inForce'[Stream[r]]
  BY <1>1, <1>2, <1>3, RecordIndexAssumption DEF Index
<1>5. CASE DeliveredRecord' = None
  BY <1>2, <1>4, <1>5 DEF Source!Next, Source!DeliverNothing
<1>6. CASE DeliveredRecord' # None
  <2>1. /\ Type[r] = "data" /\ Stream[r] \in enabled
        /\ DeliveredRecord' = [record |-> r, config |-> inForce'[Stream[r]]]
    BY <1>4, <1>6 DEF DeliveredRecord
  <2>2. inForce'[Stream[r]] \in 0..(N - 1) \cup {None}
    BY <1>3, RecordIndexAssumption DEF Index
  <2>3. GoverningConfig[r] # None => inForce'[Stream[r]] = GoverningConfig[r]
    <3>1. SUFFICES ASSUME GoverningConfig[r] # None
                   PROVE  inForce'[Stream[r]] = GoverningConfig[r]
      OBVIOUS
    <3>2. /\ AutoRead /\ Unshared(Stream[r])
          /\ GoverningConfig[r] = LastOf(ConfigsInFront(r)) /\ ConfigsInFront(r) # {}
      BY <3>1 DEF GoverningConfig, LastOf
    <3>3. ConfigsInFront(r) = ConfigsBefore(r)
      <4>1. \A c \in Index : Stream[c] \in Streams
        BY RecordIndexAssumption
      <4>2. \A c \in Index : FileId[Stream[c]] = FileId[Stream[r]] <=> Stream[c] = Stream[r]
        BY <3>2, <4>1 DEF Unshared
      <4> QED
        BY <4>2 DEF ConfigsInFront, ConfigsBefore, RecordsOf
    <3>4. GoverningConfig[r] = PrevConfig(r)
      BY <3>2, <3>3 DEF LastOf, PrevConfig
    <3> QED
      BY <1>2, <1>3, <2>1, <3>2, <3>3, <3>4, ReadRemembers
  <2> QED
    BY <1>2, <1>4, <2>1, <2>2, <2>3 DEF Source!Next, Source!Deliver
<1> QED
  BY <1>5, <1>6

LEMMA StepImplements ==
  ASSUME Disciplined, Inv, RememberedInForce, [Next]_vars
  PROVE  [Source!Next]_<<cursor, DeliveredRecord>>
<1>1. cursor' \in 0..N
  BY StepInv DEF Inv, TypeOK
<1>2. ASSUME returned' = None PROVE Source!Next
  BY <1>1, <1>2 DEF Source!Next, Source!DeliverNothing, DeliveredRecord
<1>3. ASSUME NEW c \in 0..N, ReadNextRecordInternal(c) PROVE Source!Next
  <2>1. CASE returned' = None
    BY <1>2, <2>1
  <2>2. CASE c < N /\ Type[c] \in ReadTypes /\ RecordRead(c)
    <3>1. c \in Index /\ enabled' = enabled
      BY <1>3, <2>2, RecordIndexAssumption DEF ReadNextRecordInternal, Index
    <3> QED
      BY <2>2, <3>1, DeliveredGoverned
  <2> QED
    BY <1>3, <2>1, <2>2, ReadMoves
<1>4. CASE UNCHANGED vars
  BY <1>4 DEF vars, DeliveredRecord
<1>5. CASE Reads
  BY <1>2, <1>3, <1>5, ReadBegins DEF Inv
<1>6. CASE \/ Open \/ Close
           \/ \E S \in EnableSets : EnableStreams(S)
           \/ \E skip \in Skips : SkipTrailingBlocks(skip[1], skip[2], skip[3])
           \/ \E set \in Conversions :
                SetImageConversion(set[2]) \/ SetStreamImageConversion(set[1], set[2])
           \/ \E i \in -1..N : GotoRecord(i)
           \/ \E t \in 0..N : GotoTime(t)
  <2>1. returned' = None
    BY <1>6 DEF Open, Close, EnableStreams, SkipTrailingBlocks, SetImageConversion,
                SetStreamImageConversion, GotoRecord, GotoTime, Goto
  <2> QED
    BY <1>2, <2>1
<1> QED
  BY <1>4, <1>5, <1>6 DEF Next, Reads

(* The reader over several files is a record source, for any files, any    *)
(* records that fail and any order of the calls of a disciplined program:  *)
(* what it delivers of a stream that shares its id with none is decoded    *)
(* under the configuration that governs it.                                *)
THEOREM IsRecordSource ==
  ASSUME Disciplined
  PROVE  Spec => ImplementsRecordSource
<1>1. Init => Source!Init
  BY DEF Init, Source!Init, DeliveredRecord
<1>2. Inv /\ RememberedInForce /\ [Next]_vars => [Source!Next]_<<cursor, DeliveredRecord>>
  BY StepImplements
<1> QED
  BY <1>1, <1>2, InitInv, StepInv, ConfigRemembered, PTL
  DEF Spec, ImplementsRecordSource, Source!Spec

=============================================================================
