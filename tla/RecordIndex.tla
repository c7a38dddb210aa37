----------------------------- MODULE RecordIndex -----------------------------
(***************************************************************************)
(* The index of an open VRS file, or of several opened as one, and what    *)
(* the two readers (csrc/reader/VRSReader.cpp and MultiVRSReader.cpp)      *)
(* answer about it.  Nothing here changes the reader: the answers are      *)
(* operators over the constants and the streams that are enabled.          *)
(*                                                                         *)
(* Records are named by their index.  A stream of several files has a      *)
(* unique id, Streams, next to the id it has in its own file, FileId; over *)
(* one file the two are the same.  None stands for an exception.           *)
(***************************************************************************)
EXTENDS Integers, FiniteSets, FiniteSetsExt, Sequences, SequencesExt

CONSTANTS
  Streams,      \* the streams, by their unique id
  FileId,       \* the id each stream has in its own file
  TypeIdOf,     \* the RecordableTypeId of each stream
  N,            \* the number of records; indices are 0..N-1
  Stream, Type, \* stream and record type of each record
  Timestamp,    \* timestamp of each record; the index is sorted by it
  None

Index == 0..(N - 1)
RecordTypes == {"configuration", "state", "data"}
TypeIds == {TypeIdOf[s] : s \in Streams}

ASSUME RecordIndexAssumption ==
  /\ N \in Nat /\ None \notin Int
  /\ Stream \in [Index -> Streams]
  /\ Type \in [Index -> RecordTypes]
  /\ Timestamp \in [Index -> Nat]
  /\ \A i, j \in Index : i < j => Timestamp[i] <= Timestamp[j]
  /\ DOMAIN FileId = Streams /\ DOMAIN TypeIdOf = Streams
  /\ \A s, t \in Streams : FileId[s] = FileId[t] => TypeIdOf[s] = TypeIdOf[t]

ASSUME StreamsAssumption == IsFiniteSet(Streams)

(* The record type arguments of a call: one type, or "any". *)
TypeFilters == {RecordTypes} \cup {{t} : t \in RecordTypes}

(* match: records of the enabled streams among S with a type in types.     *)
Matching(enabled, S, types) ==
  {i \in Index : Stream[i] \in S \cap enabled /\ Type[i] \in types}

(* The records of a stream with a type in types, whether enabled or not.   *)
RecordsOf(s, types) == {i \in Index : Stream[i] = s /\ Type[i] \in types}

(* The k-th record of a stream with a type in types (0-based), if any. *)
RecordOf(s, types, k) ==
  {i \in RecordsOf(s, types) : Cardinality({j \in RecordsOf(s, types) : j < i}) = k}

(* A set of records in the order of the index. *)
InOrder(S) ==
  [k \in 1..Cardinality(S) |-> CHOOSE i \in S : Cardinality({j \in S : j < i}) = k - 1]

(* The smallest, the greatest of a set of records, or an exception. *)
FirstOf(S) == IF S = {} THEN None ELSE Min(S)
LastOf(S) == IF S = {} THEN None ELSE Max(S)

-----------------------------------------------------------------------------
(* Looking for a record from an index on.                                  *)

(* getNextIndex of one file: the scan stops at the end, where it raises.   *)
(* An index that is not in the file is its own answer: a negative one      *)
(* compares as a large unsigned one, and only the end itself raises.       *)
GetNextIndex(enabled, s, types, i) ==
  IF i \in 0..N THEN FirstOf({j \in Matching(enabled, {s}, types) : j >= i}) ELSE i

(* getPrevIndex of one file.  From N on it looks at what is behind the     *)
(* index in memory, which may pass for a match anywhere: a set of answers. *)
GetPrevIndex(enabled, s, types, i) ==
  {LastOf({j \in Matching(enabled, {s}, types) : j <= i})} \cup N..i

(* getNextIndex of several files asks for each record: no record, no match *)
(* before it, raises.                                                      *)
MultiGetNextIndex(enabled, s, types, i) ==
  IF i \in Index THEN FirstOf({j \in Matching(enabled, {s}, types) : j >= i}) ELSE None

(* getPrevIndex of several files raises when it starts outside the index,  *)
(* but when it has gone through the records in front of i without a match  *)
(* it still holds the first of them, and answers -1.                       *)
MultiGetPrevIndex(enabled, s, types, i) ==
  LET found == {j \in Matching(enabled, {s}, types) : j <= i} IN
  {IF i \notin Index THEN None ELSE IF found = {} THEN -1 ELSE Max(found)}

-----------------------------------------------------------------------------
(* Looking for a record by its time.                                       *)

(* getRecordIndexByTime: the library's lower bound in the stream, of any   *)
(* type or of one.                                                         *)
GetRecordIndexByTime(s, types, t) ==
  FirstOf({i \in RecordsOf(s, types) : Timestamp[i] >= t})

Distance(i, t) == IF Timestamp[i] < t THEN t - Timestamp[i] ELSE Timestamp[i] - t

(* getNearestRecordIndexByTime: the library's nearest record of the stream *)
(* no further than epsilon; of two as near, either.                        *)
GetNearestRecordIndexByTime(s, types, t, epsilon) ==
  LET near == {i \in RecordsOf(s, types) : Distance(i, t) <= epsilon} IN
  IF near = {} THEN {None}
               ELSE {i \in near : \A j \in near : Distance(i, t) <= Distance(j, t)}

(* gotoTime: the first record at or after a time, the end without one.     *)
LowerBound(t) == Cardinality({i \in Index : Timestamp[i] < t})

-----------------------------------------------------------------------------
(* Lists and counts.                                                       *)

(* A record at the end of the range ends the scan. *)
RegenerateEnabledIndicesExclusive(types, S, minTimestamp, maxTimestamp) ==
  LET behind == {i \in Index : Timestamp[i] >= maxTimestamp}
      scanned == {i \in Index : \A j \in behind : i < j}
  IN InOrder({i \in scanned : /\ Timestamp[i] >= minTimestamp
                              /\ Type[i] \in types /\ Stream[i] \in S})

(* regenerateEnabledIndices: the filter's types, streams and time range;   *)
(* the first record behind the range ends the scan.                        *)
RegenerateEnabledIndices(types, S, minTimestamp, maxTimestamp) ==
  LET behind == {i \in Index : Timestamp[i] > maxTimestamp}
      scanned == {i \in Index : \A j \in behind : i < j}
  IN InOrder({i \in scanned : /\ Timestamp[i] >= minTimestamp
                              /\ Type[i] \in types /\ Stream[i] \in S})

(* getTimestampForIndex, getTimestampListForIndices: one index outside     *)
(* raises for the whole list.                                              *)
GetTimestampForIndex(i) == IF i \in Index THEN Timestamp[i] ELSE None
GetTimestampListForIndices(indices) ==
  IF Range(indices) \subseteq Index THEN [k \in DOMAIN indices |-> Timestamp[indices[k]]]
                                    ELSE None

(* getRecordInfo, of which the index it gives and the record it tells of.  *)
RecordInfo(recordIndex, record) == [record_index |-> recordIndex, record |-> record]

(* getAllRecordsInfo *)
GetAllRecordsInfo == [k \in 1..N |-> RecordInfo(k - 1, k - 1)]

(* getRecordsInfo(firstIndex, count): raises at the end, for a negative    *)
(* index (a large unsigned one) and for no records asked for.              *)
GetRecordsInfo(first, count) ==
  IF first \notin Index \/ count <= 0 THEN None
  ELSE [k \in 1..Min({N - first, count}) |-> RecordInfo(first + k - 1, first + k - 1)]

(* getRecordsInfo of several files counts the indices it gives from 0.     *)
MultiRecordInfo(recordIndex, record) == RecordInfo(recordIndex, record)
MultiGetRecordsInfo(first, count) ==
  IF first \notin Index \/ count <= 0 THEN None
  ELSE [k \in 1..Min({N - first, count}) |-> MultiRecordInfo(k - 1, first + k - 1)]

(* The records listed are numbered anew. *)
GetEnabledStreamsRecordsInfoAnew(enabled) ==
  LET records == InOrder({i \in Index : Stream[i] \in enabled}) IN
  [k \in DOMAIN records |-> RecordInfo(k - 1, records[k])]

(* getEnabledStreamsRecordsInfo: with every stream enabled all records.    *)
GetEnabledStreamsRecordsInfo(enabled) ==
  IF Cardinality(enabled) = Cardinality(Streams) THEN GetAllRecordsInfo
  ELSE LET records == InOrder({i \in Index : Stream[i] \in enabled}) IN
       [k \in DOMAIN records |-> RecordInfo(records[k], records[k])]

(* initRecordSummaries: counts by stream and type, and the types there are. *)
InitRecordSummaries ==
  [counts |-> [s \in Streams |-> [t \in RecordTypes |-> Cardinality(RecordsOf(s, {t}))]],
   types |-> {Type[i] : i \in Index}]

(* getAvailableStreamIds; getAvailableRecordTypes and getRecordsCount look *)
(* them up in the summaries.                                               *)
GetAvailableStreamIds == Streams
GetAvailableRecordTypes == InitRecordSummaries.types
GetRecordsCount(s, t) == InitRecordSummaries.counts[s][t]

(* The last record is looked up as the first one is. *)
GetStreamInfoFromFirst(s) ==
  [t \in RecordTypes |-> [count |-> Cardinality(RecordsOf(s, {t})),
                          first |-> FirstOf(RecordsOf(s, {t})),
                          last |-> FirstOf(RecordsOf(s, {t}))]]

(* getStreamInfo: counts, and the first and last record of each type.      *)
GetStreamInfo(s) ==
  [t \in RecordTypes |-> [count |-> Cardinality(RecordsOf(s, {t})),
                          first |-> FirstOf(RecordsOf(s, {t})),
                          last |-> LastOf(RecordsOf(s, {t}))]]

(* getMinAvailableTimestamp, getMaxAvailableTimestamp *)
GetMinAvailableTimestamp == IF N = 0 THEN 0 ELSE Timestamp[0]
GetMaxAvailableTimestamp == IF N = 0 THEN 0 ELSE Timestamp[N - 1]

(* getStreamSize, as the set of records whose sizes it adds up.            *)
GetStreamSize(s) == RecordsOf(s, RecordTypes)

(* getStreamSize of several files compares the ids the records have in     *)
(* their files with the unique id: that of another stream, or of none.     *)
MultiGetStreamSize(s) == {i \in Index : FileId[Stream[i]] = s}

(* The reader over several files has code of its own for what follows.  It *)
(* asks for one record after the other and for the unique id of each,      *)
(* where the reader over one file goes through the index; the answers are  *)
(* the same.                                                               *)
MultiMatching(enabled, S, types) == Matching(enabled, S, types)

MultiGetRecordIndexByTime(s, types, t) == GetRecordIndexByTime(s, types, t)

MultiGetNearestRecordIndexByTime(s, types, t, epsilon) ==
  GetNearestRecordIndexByTime(s, types, t, epsilon)

MultiRegenerateEnabledIndices(types, S, minTimestamp, maxTimestamp) ==
  RegenerateEnabledIndices(types, S, minTimestamp, maxTimestamp)

MultiGetTimestampForIndex(i) == GetTimestampForIndex(i)

MultiGetTimestampListForIndices(indices) == GetTimestampListForIndices(indices)

MultiGetAllRecordsInfo == GetAllRecordsInfo

MultiGetEnabledStreamsRecordsInfo(enabled) == GetEnabledStreamsRecordsInfo(enabled)

MultiInitRecordSummaries == InitRecordSummaries

MultiGetAvailableStreamIds == Streams

MultiGetAvailableRecordTypes == MultiInitRecordSummaries.types

MultiGetMinAvailableTimestamp == GetMinAvailableTimestamp

MultiGetMaxAvailableTimestamp == GetMaxAvailableTimestamp

MultiGetRecordsCount(s, t) == MultiInitRecordSummaries.counts[s][t]

MultiGetStreamInfo(s) == GetStreamInfo(s)
=============================================================================
