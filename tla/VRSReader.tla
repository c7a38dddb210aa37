------------------------------ MODULE VRSReader ------------------------------
(***************************************************************************)
(* The record reader over one VRS file (csrc/reader/VRSReader.cpp): its    *)
(* cursor, the streams enabled for reading, the automatic reading of the   *)
(* configuration record that governs a data record, and the cache the      *)
(* stream player fills and PyRecord empties.                               *)
(*                                                                         *)
(* Records are named by their index in the file.  Reading a record goes    *)
(* through the player of its stream, which remembers the configuration     *)
(* record it saw last (inForce): data records are decoded and normalised   *)
(* under it.                                                               *)
(***************************************************************************)
EXTENDS RecordIndex, RecordCache

CONSTANTS
  Broken,       \* records whose read may return an error
  AutoRead,     \* autoReadConfigurationRecord_
  EnableLate,   \* the program may enable a stream it has read data of before
  ReadTypes,    \* the record types the program asks for
  MaxTrailing,  \* largest block index passed to skipTrailingBlocks
  MaxLeftovers  \* bounds the datalayouts failed reads leave in the cache

ASSUME ReaderAssumption ==
  /\ Blocks \in [Index -> Seq(Kinds)]
  /\ Broken \subseteq Index /\ AutoRead \in BOOLEAN
  /\ EnableLate \in BOOLEAN /\ ReadTypes \subseteq RecordTypes
  /\ MaxTrailing \in Nat /\ MaxLeftovers \in Nat

VARIABLES
  file,            \* "unopened", "open" or "closed"
  enabled,         \* enabledStreams_
  cursor,          \* nextRecordIndex_
  cache,           \* lastRecord_
  inForce,         \* per stream, the configuration record its player saw last
  lastReadConfig,  \* lastReadConfigIndex_, None standing for UINT32_MAX
  trailing,        \* firstSkippedTrailingBlockIndex_, 0 standing for no entry
  returned         \* the PyRecord of the last read, or None after an exception

vars == <<file, enabled, cursor, cache, inForce, lastReadConfig, trailing, returned>>

TypeOK ==
  /\ file \in {"unopened", "open", "closed"}
  /\ enabled \subseteq Streams
  /\ cursor \in 0..N
  /\ DOMAIN cache = Kinds
  /\ inForce \in [Streams -> Index \cup {None}]
  /\ lastReadConfig \in [Streams -> Index \cup {None}]
  /\ trailing \in [TypeIds \X RecordTypes -> 0..MaxTrailing]
  /\ \/ returned = None
     \/ /\ DOMAIN returned = {"index", "blocks", "config"}
        /\ returned.index \in Index /\ returned.config \in Index \cup {None}

Init ==
  /\ file = "unopened" /\ enabled = {} /\ cursor = 0
  /\ cache = EmptyCache
  /\ inForce = [s \in Streams |-> None]
  /\ lastReadConfig = [s \in Streams |-> None]
  /\ trailing = [k \in TypeIds \X RecordTypes |-> 0]
  /\ returned = None

-----------------------------------------------------------------------------
(* open: the cursor is at the start, no configuration was read.  (A second *)
(* open on the same object is left out: what the VRS library keeps of the  *)
(* stream players over it is not visible in this repository.)              *)
Open ==
  /\ file = "unopened"
  /\ file' = "open"
  /\ cursor' = 0
  /\ lastReadConfig' = [s \in Streams |-> None]
  /\ returned' = None
  /\ UNCHANGED <<enabled, cache, inForce, trailing>>

(* close: closes the file and nothing else.                                *)
Close ==
  /\ file = "open"
  /\ file' = "closed"
  /\ returned' = None
  /\ UNCHANGED <<enabled, cursor, cache, inForce, lastReadConfig, trailing>>

(* enableStream, and the calls that enable several.  VRSReader's __init__  *)
(* enables every stream before it reads; a program on the bindings enables *)
(* what it wants, when it wants.                                           *)
EnableStreams(S) ==
  /\ file = "open" /\ S \ enabled # {}
  /\ EnableLate \/ \A s \in S : lastReadConfig[s] = None
  /\ enabled' = enabled \cup S
  /\ returned' = None
  /\ UNCHANGED <<file, cursor, cache, inForce, lastReadConfig, trailing>>

(* skipTrailingBlocks(typeId, recordType or "any", n); 0 removes the limit. *)
SkipTrailingBlocks(typeId, types, n) ==
  /\ trailing' = [k \in TypeIds \X RecordTypes |->
                    IF k[1] = typeId /\ k[2] \in types THEN n ELSE trailing[k]]
  /\ returned' = None
  /\ UNCHANGED <<file, enabled, cursor, cache, inForce, lastReadConfig>>

(* gotoRecord does not take an index past the end as it is. *)
GotoRecordUnchecked(i) ==
  /\ file = "open"
  /\ cursor' = i
  /\ returned' = None
  /\ UNCHANGED <<file, enabled, cache, inForce, lastReadConfig, trailing>>

(* gotoRecord: an index past the end (a negative one becomes one) leaves   *)
(* the cursor at the end.                                                  *)
GotoRecord(i) ==
  /\ file = "open"
  /\ cursor' = IF i \in Index THEN i ELSE N
  /\ returned' = None
  /\ UNCHANGED <<file, enabled, cache, inForce, lastReadConfig, trailing>>

(* gotoTime: the first record at or after a time.                          *)
GotoTime(t) ==
  /\ file = "open"
  /\ cursor' = LowerBound(t)
  /\ returned' = None
  /\ UNCHANGED <<file, enabled, cache, inForce, lastReadConfig, trailing>>

-----------------------------------------------------------------------------
(* Reading one record.                                                     *)

(* checkSkipTrailingBlocks: how many blocks of a record are read. *)
BlockCount(r) ==
  LET limit == trailing[<<TypeIdOf[Stream[r]], Type[r]>>] IN
  IF limit = 0 \/ limit > Len(Blocks[r]) THEN Len(Blocks[r]) ELSE limit

(* How many blocks the player is given: a stream that is not enabled has   *)
(* no player, readRecord succeeds and delivers nothing.                    *)
Delivered(r) == IF Stream[r] \in enabled THEN BlockCount(r) ELSE 0

(* A failing read may have delivered any of the blocks but the last.       *)
MayFail(r) == Stream[r] \in enabled /\ r \in Broken
DeliveredByFailure(r) == 0..(BlockCount(r) - 1)

(* onDataLayoutRead of a configuration record: captureNormalizeOptionsConfig. *)
InForceAfter(config, r, n) ==
  IF Type[r] = "configuration" /\ \E b \in 1..n : Blocks[r][b] = "layout"
    THEN [config EXCEPT ![Stream[r]] = r]
    ELSE config

(* configIndex_: the configuration records in front of a record. *)
ConfigsBefore(r) ==
  {c \in Index : Stream[c] = Stream[r] /\ Type[c] = "configuration" /\ c < r}

PrevConfig(r) == CHOOSE c \in ConfigsBefore(r) : \A d \in ConfigsBefore(r) : d <= c

(* Going back to data under an earlier configuration is not noticed. *)
NeedsConfigAhead(r) ==
  /\ AutoRead /\ Type[r] = "data" /\ ConfigsBefore(r) # {}
  /\ lastReadConfig[Stream[r]] \notin PrevConfig(r)..N

(* readConfigurationRecord reads the governing configuration record unless *)
(* it is the one it read last.                                             *)
NeedsConfig(r) ==
  /\ AutoRead /\ Type[r] = "data" /\ ConfigsBefore(r) # {}
  /\ lastReadConfig[Stream[r]] # PrevConfig(r)

(* The configuration's blocks are left in front of the data's. *)
KeptCache(r) ==
  IF NeedsConfig(r)
    THEN ReadBlocks(cache, PrevConfig(r), BlockCount(PrevConfig(r)))
    ELSE cache

(* lastRecord_ once the configuration was read: cleared.                   *)
CacheAfterConfig(r) == IF NeedsConfig(r) THEN EmptyCache ELSE cache

(* The configuration read fails: an IndexError, before the record is read. *)
ConfigReadFails(r) ==
  /\ NeedsConfig(r) /\ MayFail(PrevConfig(r))
  /\ \E n \in DeliveredByFailure(PrevConfig(r)) :
       /\ cache' = ReadBlocks(cache, PrevConfig(r), n)
       /\ inForce' = InForceAfter(inForce, PrevConfig(r), n)
  /\ cursor' = r
  /\ returned' = None
  /\ UNCHANGED lastReadConfig

(* What the player has in force, and what the reader remembers, once the   *)
(* configuration was read.                                                 *)
InForceAfterConfig(r) ==
  IF NeedsConfig(r) THEN InForceAfter(inForce, PrevConfig(r), Delivered(PrevConfig(r)))
                    ELSE inForce
RememberConfig(r) ==
  lastReadConfig' = IF NeedsConfig(r)
                      THEN [lastReadConfig EXCEPT ![Stream[r]] = PrevConfig(r)]
                      ELSE lastReadConfig

(* The read of the record fails: the exception leaves the cursor on the    *)
(* record and the cache as it is.                                          *)
RecordReadFails(r) ==
  /\ MayFail(r)
  /\ RememberConfig(r)
  /\ \E n \in DeliveredByFailure(r) :
       /\ inForce' = InForceAfter(InForceAfterConfig(r), r, n)
       /\ cache' = ReadBlocks(CacheAfterConfig(r), r, n)
  /\ cursor' = r
  /\ returned' = None

(* A record once read is read again by the next call. *)
RecordReadAgain(r) ==
  /\ RememberConfig(r)
  /\ inForce' = InForceAfter(InForceAfterConfig(r), r, Delivered(r))
  /\ cache' = EmptyCache
  /\ cursor' = r
  /\ returned' = [index |-> r,
                  blocks |-> ReadBlocks(CacheAfterConfig(r), r, Delivered(r)),
                  config |-> inForce'[Stream[r]]]

(* The record is read and handed to Python with the blocks in the cache.   *)
RecordRead(r) ==
  /\ RememberConfig(r)
  /\ inForce' = InForceAfter(InForceAfterConfig(r), r, Delivered(r))
  /\ cache' = EmptyCache
  /\ cursor' = r + 1
  /\ returned' = [index |-> r,
                  blocks |-> ReadBlocks(CacheAfterConfig(r), r, Delivered(r)),
                  config |-> inForce'[Stream[r]]]

(* readNextRecordInternal with the cursor at c: StopIteration at the end.  *)
ReadNextRecordInternal(c) ==
  /\ file = "open"
  /\ Len(cache["layout"]) <= MaxLeftovers
  /\ \/ /\ c = N
        /\ cursor' = N
        /\ returned' = None
        /\ UNCHANGED <<cache, inForce, lastReadConfig>>
     \/ /\ c < N /\ Type[c] \in ReadTypes
        /\ ConfigReadFails(c) \/ RecordReadFails(c) \/ RecordRead(c)
  /\ UNCHANGED <<file, enabled, trailing>>

(* The first index from the cursor on that is in a set, or the end. *)
FirstFrom(S) ==
  CHOOSE i \in cursor..N :
    /\ i = N \/ i \in S
    /\ \A j \in cursor..(i - 1) : j \notin S

(* The scan gives up one record early. *)
SkipTooFar ==
  LET c == FirstFrom({i \in Index : Stream[i] \in enabled}) IN
  IF c < N - 1 /\ c > cursor THEN c + 1 ELSE c

(* skipIgnoredRecords *)
SkipIgnoredRecords == FirstFrom({i \in Index : Stream[i] \in enabled})

(* readNextRecord()                                                        *)
ReadNextRecord == ReadNextRecordInternal(SkipIgnoredRecords)

(* readNextRecord(stream or type id, record type or "any"); a stream that  *)
(* is not enabled is a ValueError.                                         *)
ReadNextRecordOf(S, types) ==
  /\ S \cap enabled # {}
  /\ ReadNextRecordInternal(FirstFrom(Matching(enabled, S, types)))

(* readRecord(index) does not ask whether the stream is enabled.           *)
ReadRecord(i) == ReadNextRecordInternal(i)

(* readRecord(stream, type, k): without such a record the cursor goes to   *)
(* the end and an IndexError is raised.                                    *)
ReadRecordOf(s, types, k) ==
  /\ s \in enabled
  /\ \/ /\ file = "open" /\ RecordOf(s, types, k) = {}
        /\ cursor' = N
        /\ returned' = None
        /\ UNCHANGED <<file, enabled, cache, inForce, lastReadConfig, trailing>>
     \/ \E i \in RecordOf(s, types, k) : ReadNextRecordInternal(i)

Next ==
  \/ Open \/ Close
  \/ \E S \in SUBSET Streams : EnableStreams(S)
  \/ \E id \in TypeIds, types \in TypeFilters, n \in 0..MaxTrailing :
       SkipTrailingBlocks(id, types, n)
  \/ \E i \in -1..N : GotoRecord(i)
  \/ \E t \in 0..N : GotoTime(t)
  \/ ReadNextRecord
  \/ \E s \in Streams, types \in TypeFilters : ReadNextRecordOf({s}, types)
  \/ \E id \in TypeIds, types \in TypeFilters :
       ReadNextRecordOf({s \in Streams : TypeIdOf[s] = id}, types)
  \/ \E i \in Index : ReadRecord(i)
  \/ \E s \in Streams, types \in TypeFilters, k \in 0..N : ReadRecordOf(s, types, k)

Spec == Init /\ [][Next]_vars

-----------------------------------------------------------------------------
(* Properties.                                                             *)

(* A record read from an enabled stream has its own blocks, all of those   *)
(* asked for and in its order, whatever was read, skipped or configured    *)
(* before: nothing of the configuration record read on its behalf, nothing *)
(* an earlier record left behind.  Only a read that failed leaves blocks   *)
(* in the cache, and what follows it in the same cache is not judged.      *)
ExactBlocks ==
  [][returned' # returned /\ returned' # None /\ cache = EmptyCache =>
       (Stream[returned'.index] \in enabled =>
          HoldsOwnBlocks(returned'.blocks, returned'.index, BlockCount(returned'.index)))]_vars

(* With automatic configuration reading a data record is decoded under the *)
(* configuration record in front of it in its stream, in whatever order    *)
(* records are read: "always ensuring preceding configuration records are  *)
(* automatically read before any record access" (pyvrs/reader.py:140).     *)
DecodedUnderItsConfig ==
  [][returned' # returned /\ returned' # None =>
       LET r == returned'.index IN
       AutoRead /\ Type[r] = "data" /\ Stream[r] \in enabled =>
         \A c \in Index :
           Stream[c] = Stream[r] /\ Type[c] = "configuration" /\ c < r =>
             returned'.config # None /\ c <= returned'.config /\ returned'.config < r]_vars

(* Reading on never skips a record of an enabled stream: readNextRecord    *)
(* returns (or fails on) the first one from the cursor, and the cursor     *)
(* moves past a record only once it was read.                              *)
NextRecordIsNext ==
  [][ReadNextRecord =>
       /\ \A i \in cursor..(cursor' - 1) :
            Stream[i] \in enabled => returned' # None /\ returned'.index = i
       /\ returned' # None => returned'.index >= cursor]_vars

(* What the index says comes next is what is read next: the record read by *)
(* readNextRecord is the first of getEnabledStreamsRecordsInfo from the    *)
(* cursor on, and that of a stream and type the one getNextIndex names,    *)
(* whichever streams are enabled by then.                                  *)
InfosForetellReads ==
  [][returned' # returned /\ returned' # None =>
       /\ ReadNextRecord =>
            LET infos == GetEnabledStreamsRecordsInfo(enabled)
                ahead == {k \in DOMAIN infos : infos[k].record_index >= cursor}
            IN ahead # {} /\ infos[Min(ahead)] = RecordInfo(returned'.index, returned'.index)
       /\ \A s \in Streams, types \in TypeFilters :
            ReadNextRecordOf({s}, types) =>
              returned'.index = GetNextIndex(enabled, s, types, cursor)]_vars

(* What the reader has delivered, in the terms of RecordSource: a data     *)
(* record of an enabled stream.                                            *)
DeliveredRecord ==
  IF returned # None /\ Type[returned.index] = "data" /\ Stream[returned.index] \in enabled
    THEN [record |-> returned.index, config |-> returned.config]
    ELSE None

GoverningConfig ==
  [i \in Index |-> IF AutoRead /\ Type[i] = "data" /\ ConfigsBefore(i) # {} THEN PrevConfig(i)
                                                                           ELSE None]

Source == INSTANCE RecordSource
            WITH position <- cursor, delivered <- DeliveredRecord, Governing <- GoverningConfig

(* The reader over one file is a record source: every call moves the       *)
(* position within the index and delivers at most the record in front of   *)
(* it, under the configuration that governs it, whatever was read before.  *)
ImplementsRecordSource == Source!Spec
=============================================================================
