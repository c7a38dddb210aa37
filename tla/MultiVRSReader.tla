--------------------------- MODULE MultiVRSReader ---------------------------
(***************************************************************************)
(* The record reader over several VRS files read as one                    *)
(* (csrc/reader/MultiVRSReader.cpp).  The library merges the files into    *)
(* one index and gives a stream whose id is taken by a stream of another   *)
(* file a unique id of its own.  The reader works with unique ids, has one *)
(* stream player for each, and asks the record at its cursor for the       *)
(* stream a block belongs to; but the configuration records it looks up    *)
(* and remembers go by the id a stream has in its file.                    *)
(*                                                                         *)
(* Next to what VRSReader models, this module has the image conversion of  *)
(* the streams and the normalisation options a player derives from the     *)
(* configuration it saw last and keeps until it sees another one.  Of the  *)
(* conversions, "Normalize" stands for those that normalise, "Off" for the *)
(* rest; the images of a stream are of one pixel format.                   *)
(***************************************************************************)
EXTENDS RecordIndex, RecordCache

CONSTANTS
  Broken,       \* records whose read may return an error
  AutoRead,     \* autoReadConfigurationRecord_
  EnableSets,   \* the sets of streams the program enables
  EnableLate,   \* it may enable a stream it has read data of before
  ReadTypes,    \* the record types the program asks for
  Skips,        \* its skipTrailingBlocks calls: <<type id, record types, block index>>
  Conversions,  \* its setImageConversion calls: <<streams, conversion>>
  MaxLeftovers  \* bounds the datalayouts failed reads leave in the cache

ASSUME MultiReaderAssumption ==
  /\ \A s \in Streams : FileId[s] \in Streams
  /\ Blocks \in [Index -> Seq(Kinds)]
  /\ Broken \subseteq Index /\ AutoRead \in BOOLEAN /\ EnableLate \in BOOLEAN
  /\ EnableSets \subseteq SUBSET Streams /\ ReadTypes \subseteq RecordTypes
  /\ Skips \subseteq TypeIds \X TypeFilters \X Nat
  /\ Conversions \subseteq (SUBSET Streams) \X {"Off", "Normalize"}
  /\ MaxLeftovers \in Nat

VARIABLES
  file,              \* "unopened", "open" or "closed"
  enabled,           \* enabledStreams_ and the keys of playerByStreamIdMap_
  cursor,            \* nextRecordIndex_
  cache,             \* lastRecord_
  inForce,           \* per player, the configuration it saw last: streamNormalizeConfigs_
  options,           \* per player, {c}: streamNormalizeOptions_ made from c; {}: none
  lastReadConfig,    \* lastReadConfigIndex_, None standing for UINT32_MAX
  trailing,          \* firstSkippedTrailingBlockIndex_, 0 standing for no entry
  imageConversion,   \* imageConversion_
  streamConversion,  \* streamImageConversion_, None standing for no entry
  returned           \* the PyRecord of the last read, or None after an exception

settings == <<trailing, imageConversion, streamConversion>>
player == <<cache, inForce, options>>
vars == <<file, enabled, cursor, player, lastReadConfig, settings, returned>>

TypeOK ==
  /\ file \in {"unopened", "open", "closed"}
  /\ enabled \subseteq Streams
  /\ cursor \in 0..N
  /\ DOMAIN cache = Kinds
  /\ inForce \in [Streams -> Index \cup {None}]
  /\ options \in [Streams -> {{}} \cup {{c} : c \in Index \cup {None}}]
  /\ lastReadConfig \in [Streams -> Index \cup {None}]
  /\ trailing \in [TypeIds \X RecordTypes -> {0} \cup {skip[3] : skip \in Skips}]
  /\ imageConversion \in {"Off", "Normalize"}
  /\ streamConversion \in [Streams -> {"Off", "Normalize", None}]
  /\ \/ returned = None
     \/ /\ DOMAIN returned = {"index", "blocks", "config"}
        /\ returned.index \in Index /\ returned.config \in Index \cup {None}

Init ==
  /\ file = "unopened" /\ enabled = {} /\ cursor = 0
  /\ cache = EmptyCache
  /\ inForce = [s \in Streams |-> None] /\ options = [s \in Streams |-> {}]
  /\ lastReadConfig = [s \in Streams |-> None]
  /\ trailing = [k \in TypeIds \X RecordTypes |-> 0]
  /\ imageConversion = "Off" /\ streamConversion = [s \in Streams |-> None]
  /\ returned = None

-----------------------------------------------------------------------------
(* open: of all the files, or of none: without one of them the reader is   *)
(* closed again and a RuntimeError raised.                                 *)
Open ==
  /\ file = "unopened"
  /\ cursor' = 0 /\ returned' = None
  /\ \/ /\ file' = "open"
        /\ lastReadConfig' = [s \in Streams |-> None]
     \/ UNCHANGED <<file, lastReadConfig>>
  /\ UNCHANGED <<enabled, player, settings>>

(* close *)
Close ==
  /\ file = "open"
  /\ file' = "closed" /\ returned' = None
  /\ UNCHANGED <<enabled, cursor, player, lastReadConfig, settings>>

(* enableStream, enableStreams, enableStreamsByIndexes, enableAllStreams:  *)
(* each stream gets a player of its own, once.  VRSReader's __init__ enables *)
(* all before it reads; a program on the bindings enables what it wants.   *)
EnableStreams(S) ==
  /\ file = "open" /\ S \ enabled # {}
  /\ EnableLate \/ \A s \in S : lastReadConfig[FileId[s]] = None
  /\ enabled' = enabled \cup S
  /\ returned' = None
  /\ UNCHANGED <<file, cursor, player, lastReadConfig, settings>>

(* skipTrailingBlocks(typeId, recordType or "any", n); 0 removes the limit. *)
SkipTrailingBlocks(typeId, types, n) ==
  /\ trailing' = [k \in TypeIds \X RecordTypes |->
                    IF k[1] = typeId /\ k[2] \in types THEN n ELSE trailing[k]]
  /\ returned' = None
  /\ UNCHANGED <<file, enabled, cursor, player, lastReadConfig,
                 imageConversion, streamConversion>>

(* setImageConversion(conversion): of all streams, and the settings of the *)
(* single streams are forgotten.                                           *)
SetImageConversion(conversion) ==
  /\ imageConversion' = conversion
  /\ streamConversion' = [s \in Streams |-> None]
  /\ returned' = None
  /\ UNCHANGED <<file, enabled, cursor, player, lastReadConfig, trailing>>

(* setImageConversion of one stream, or of the streams of a type.          *)
SetStreamImageConversion(S, conversion) ==
  /\ file = "open"
  /\ streamConversion' = [s \in Streams |-> IF s \in S THEN conversion ELSE streamConversion[s]]
  /\ returned' = None
  /\ UNCHANGED <<file, enabled, cursor, player, lastReadConfig, trailing, imageConversion>>

(* getImageConversion *)
GetImageConversion(s) ==
  IF streamConversion[s] = None THEN imageConversion ELSE streamConversion[s]

(* gotoRecord and gotoTime through getNextRecordInfo: an index that is not *)
(* in the files, and a time behind their last record, leave the cursor at  *)
(* the end and raise.                                                      *)
Goto(i) ==
  /\ file = "open"
  /\ cursor' = IF i \in Index THEN i ELSE N
  /\ returned' = None
  /\ UNCHANGED <<file, enabled, player, lastReadConfig, settings>>

GotoRecord(i) == Goto(i)
GotoTime(t) == Goto(LowerBound(t))

-----------------------------------------------------------------------------
(* Reading one record.                                                     *)

(* checkSkipTrailingBlocks: the limit is that of the stream of the record  *)
(* at the cursor, which may be a data record its configuration is read for. *)
BlockCount(at, r) ==
  LET limit == trailing[<<TypeIdOf[Stream[at]], Type[r]>>] IN
  IF limit = 0 \/ limit > Len(Blocks[r]) THEN Len(Blocks[r]) ELSE limit

HasBlock(r, n, kind) == \E b \in 1..n : Blocks[r][b] = kind

(* The configuration is captured and the options made from the last one    *)
(* are kept. *)
CaptureKeepingOptions(p, r, n) ==
  IF Type[r] = "configuration" /\ HasBlock(r, n, "layout")
    THEN [p EXCEPT !.inForce[Stream[r]] = r]
    ELSE p

(* captureNormalizeOptionsConfig: the options made from the last one go.   *)
Capture(p, r, n) ==
  IF Type[r] = "configuration" /\ HasBlock(r, n, "layout")
    THEN [p EXCEPT !.inForce[Stream[r]] = r, !.options[Stream[r]] = {}]
    ELSE p

(* setBlock of an image that is to be normalised makes the options it has  *)
(* not got from the configuration it has.                                  *)
Normalize(p, at, r, n) ==
  IF /\ HasBlock(r, n, "image") /\ GetImageConversion(Stream[at]) = "Normalize"
     /\ p.options[Stream[r]] = {}
    THEN [p EXCEPT !.options[Stream[r]] = {p.inForce[Stream[r]]}]
    ELSE p

(* The player of record r is given its first n blocks while the cursor is  *)
(* at record at; a stream that is not enabled has no player.               *)
Play(p, at, r, n) ==
  IF Stream[r] \notin enabled THEN p
  ELSE Normalize(Capture([p EXCEPT !.cache = ReadBlocks(@, r, n)], r, n), at, r, n)

Player == [cache |-> cache, inForce |-> inForce, options |-> options]
SetPlayer(p) == cache' = p.cache /\ inForce' = p.inForce /\ options' = p.options

MayFail(r) == Stream[r] \in enabled /\ r \in Broken

(* configIndex_: the configuration records in front of a record, of every  *)
(* stream that has its id in its file.                                     *)
ConfigsBefore(r) ==
  {c \in Index : FileId[Stream[c]] = FileId[Stream[r]] /\ Type[c] = "configuration" /\ c < r}

PrevConfig(r) == Max(ConfigsBefore(r))

(* One configuration is read for an id, and never another one. *)
NeedsConfigOnce(r) ==
  /\ AutoRead /\ Type[r] = "data" /\ ConfigsBefore(r) # {}
  /\ lastReadConfig[FileId[Stream[r]]] = None

(* readConfigurationRecord reads the governing configuration record unless *)
(* it is the one it read last for that id.                                 *)
NeedsConfig(r) ==
  /\ AutoRead /\ Type[r] = "data" /\ ConfigsBefore(r) # {}
  /\ lastReadConfig[FileId[Stream[r]]] # PrevConfig(r)

(* The read of the configuration record fails: an IndexError, the record   *)
(* is not read.                                                            *)
ConfigReadFails(r) ==
  /\ NeedsConfig(r) /\ MayFail(PrevConfig(r))
  /\ \E n \in 0..(BlockCount(r, PrevConfig(r)) - 1) :
       SetPlayer(Play(Player, r, PrevConfig(r), n))
  /\ cursor' = r /\ returned' = None
  /\ UNCHANGED lastReadConfig

(* The configuration's blocks are left in front of the data's. *)
AfterConfigUncleared(r) ==
  IF NeedsConfig(r)
    THEN Play(Player, r, PrevConfig(r), BlockCount(r, PrevConfig(r)))
    ELSE Player

(* The player once the configuration record was read, its blocks cleared.  *)
AfterConfig(r) ==
  IF NeedsConfig(r)
    THEN [Play(Player, r, PrevConfig(r), BlockCount(r, PrevConfig(r))) EXCEPT !.cache = EmptyCache]
    ELSE Player

RememberConfig(r) ==
  lastReadConfig' = IF NeedsConfig(r)
                      THEN [lastReadConfig EXCEPT ![FileId[Stream[r]]] = PrevConfig(r)]
                      ELSE lastReadConfig

(* The read of the record fails half way: the cursor stays on the record,  *)
(* and the blocks it has delivered stay in the cache.                      *)
RecordReadFails(r) ==
  /\ MayFail(r)
  /\ RememberConfig(r)
  /\ \E n \in 0..(BlockCount(r, r) - 1) : SetPlayer(Play(AfterConfig(r), r, r, n))
  /\ cursor' = r /\ returned' = None

(* The record is read, and handed to Python under its unique stream id     *)
(* with the blocks in the cache.                                           *)
RecordRead(r) ==
  LET p == Play(AfterConfig(r), r, r, BlockCount(r, r)) IN
  /\ RememberConfig(r)
  /\ SetPlayer([p EXCEPT !.cache = EmptyCache])
  /\ cursor' = r + 1
  /\ returned' = [index |-> r, blocks |-> p.cache, config |-> p.inForce[Stream[r]]]

(* readNextRecordInternal with the cursor at c: StopIteration at the end.  *)
ReadNextRecordInternal(c) ==
  /\ file = "open"
  /\ Len(cache["layout"]) <= MaxLeftovers
  /\ \/ /\ c = N
        /\ cursor' = N /\ returned' = None
        /\ UNCHANGED <<player, lastReadConfig>>
     \/ /\ c < N /\ Type[c] \in ReadTypes
        /\ ConfigReadFails(c) \/ RecordReadFails(c) \/ RecordRead(c)
  /\ UNCHANGED <<file, enabled, settings>>

(* The scan begins behind the cursor. *)
FirstBehind(S) == LET ahead == {i \in S : i > cursor} IN IF ahead = {} THEN N ELSE Min(ahead)

(* The first index from the cursor on that is in a set, or the end.        *)
FirstFrom(S) == LET ahead == {i \in S : i >= cursor} IN IF ahead = {} THEN N ELSE Min(ahead)

(* readNextRecord(): skipIgnoredRecords, and the record found is read.     *)
ReadNextRecord == ReadNextRecordInternal(FirstFrom({i \in Index : Stream[i] \in enabled}))

(* readNextRecord(stream or type id, record type or "any"); a stream that  *)
(* is not enabled is a ValueError.                                         *)
ReadNextRecordOf(S, types) ==
  /\ S \cap enabled # {}
  /\ ReadNextRecordInternal(FirstFrom(MultiMatching(enabled, S, types)))

(* readRecord(index) does not ask whether the stream is enabled.           *)
ReadRecord(i) == ReadNextRecordInternal(i)

(* readRecord(stream, type, k): without such a record the cursor goes to   *)
(* the end and an IndexError is raised.                                    *)
ReadRecordOf(s, types, k) ==
  /\ file = "open" /\ s \in enabled
  /\ IF RecordOf(s, types, k) = {}
       THEN /\ cursor' = N /\ returned' = None
            /\ UNCHANGED <<file, enabled, player, lastReadConfig, settings>>
       ELSE \E i \in RecordOf(s, types, k) : ReadNextRecordInternal(i)

Next ==
  \/ Open \/ Close
  \/ \E S \in EnableSets : EnableStreams(S)
  \/ \E skip \in Skips : SkipTrailingBlocks(skip[1], skip[2], skip[3])
  \/ \E set \in Conversions :
       SetImageConversion(set[2]) \/ SetStreamImageConversion(set[1], set[2])
  \/ \E i \in -1..N : GotoRecord(i)
  \/ \E t \in 0..N : GotoTime(t)
  \/ ReadNextRecord
  \/ \E s \in Streams, types \in TypeFilters : ReadNextRecordOf({s}, types)
  \/ \E id \in TypeIds, types \in TypeFilters :
       ReadNextRecordOf({s \in Streams : TypeIdOf[s] = id}, types)
  \/ \E i \in Index : ReadRecord(i)
  \/ \E s \in Streams, types \in TypeFilters, k \in 0..N : ReadRecordOf(s, types, k)

Spec == Init /\ [][Next]_vars

-----------------------------------------------------------------------------
(* Properties.                                                             *)

(* A record read from an enabled stream has its own blocks, all of those   *)
(* the limit of its stream lets through and in its order, whichever file   *)
(* it is in: nothing of the configuration record read on its behalf, which *)
(* with ids shared by the files may be another stream's.                   *)
ExactBlocks ==
  [][returned' # returned /\ returned' # None /\ cache = EmptyCache =>
       LET r == returned'.index IN
       Stream[r] \in enabled => HoldsOwnBlocks(returned'.blocks, r, BlockCount(r, r))]_vars

(* The options a player keeps for normalising its images are always those  *)
(* of the configuration it has in force: they are thrown away whenever a   *)
(* configuration is read, for a data record or by the program, for the     *)
(* stream itself or because of another stream with its id.                 *)
OptionsAreCurrent == \A s \in Streams : options[s] \subseteq {inForce[s]}

(* Reading on never skips a record of an enabled stream: readNextRecord    *)
(* returns (or fails on) the first one from the cursor, and what it        *)
(* returns is what getEnabledStreamsRecordsInfo lists first from there.    *)
NextRecordIsNext ==
  [][ReadNextRecord =>
       /\ \A i \in cursor..(cursor' - 1) :
            Stream[i] \in enabled => returned' # None /\ returned'.index = i
       /\ returned' # None =>
            LET infos == MultiGetEnabledStreamsRecordsInfo(enabled)
                ahead == {k \in DOMAIN infos : infos[k].record_index >= cursor}
            IN /\ returned'.index >= cursor
               /\ ahead # {}
               /\ infos[Min(ahead)] = RecordInfo(returned'.index, returned'.index)]_vars

(* A stream whose id in its file no other stream has. *)
Unshared(s) == \A t \in Streams : FileId[t] = FileId[s] => t = s

DeliveredRecord ==
  IF returned # None /\ Type[returned.index] = "data" /\ Stream[returned.index] \in enabled
    THEN [record |-> returned.index, config |-> returned.config]
    ELSE None

ConfigsInFront(r) == {i \in RecordsOf(Stream[r], {"configuration"}) : i < r}

GoverningConfig ==
  [i \in Index |-> IF AutoRead /\ Type[i] = "data" /\ Unshared(Stream[i])
                    THEN LastOf(ConfigsInFront(i))
                    ELSE None]

Source == INSTANCE RecordSource
            WITH position <- cursor, delivered <- DeliveredRecord, Governing <- GoverningConfig

(* The reader over several files is a record source as the one over one    *)
(* file is, with one promise less: nothing is said of the configuration of *)
(* a stream whose id another file has too.                                 *)
ImplementsRecordSource == Source!Spec

(* With automatic configuration reading every data record is decoded under *)
(* the configuration record in front of it in its stream: "always ensuring *)
(* preceding configuration records are automatically read before any       *)
(* record access" (pyvrs/reader.py:140).                                   *)
DecodedUnderItsConfig ==
  [][returned' # returned /\ returned' # None =>
       LET r == returned'.index IN
       AutoRead /\ Type[r] = "data" /\ Stream[r] \in enabled /\ ConfigsInFront(r) # {} =>
         returned'.config = Max(ConfigsInFront(r))]_vars
=============================================================================
