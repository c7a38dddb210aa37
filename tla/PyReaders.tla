------------------------------ MODULE PyReaders ------------------------------
(***************************************************************************)
(* The Python layer over the readers (pyvrs/reader.py, filter.py, slice.py *)
(* and base.py): one VRSReader, the filtered readers and slices made from  *)
(* it, and the tasks that iterate over them.                               *)
(*                                                                         *)
(* All these objects read through the same C++ reader, by absolute index.  *)
(* A synchronous iteration is a generator with an index of its own.  An    *)
(* asynchronous one keeps its index in the object it iterates over, looks  *)
(* at it before it awaits the record and moves it when the record arrived. *)
(* The C++ reader performs the reads in the order they were awaited in     *)
(* (AsyncReadHandler).                                                     *)
(*                                                                         *)
(* A program makes its objects, then iterates over them or asks them for   *)
(* records and indices.                                                    *)
(***************************************************************************)
EXTENDS RecordIndex, MetadataKeys

CONSTANTS
  Readers,      \* the readers opened, [async, multi], of the four there are
  Tasks,        \* generators, or asyncio tasks
  FilterCalls,  \* arguments of filtered_by_fields: sets of patterns, None where not given
  SliceCalls,   \* slices <<start, stop, step>> with a positive step
  Items,        \* indices awaited outside of an iteration
  MaxObjects,   \* bounds the filtered readers and slices made
  Times,        \* timestamps asked for
  Epsilons      \* tolerances asked for, 0 standing for 0 and for None

ASSUME PyReadersAssumption ==
  /\ Readers \subseteq [async : BOOLEAN, multi : BOOLEAN]
  /\ IsFiniteSet(Tasks) /\ Tasks # {}
  /\ MaxObjects \in Nat /\ Items \subseteq Int /\ Times \subseteq Nat /\ Epsilons \subseteq Nat
  /\ \A call \in FilterCalls :
       /\ DOMAIN call = {"stream_ids", "record_types", "min_timestamp", "max_timestamp"}
       /\ {call.min_timestamp, call.max_timestamp} \subseteq Int \cup {None}
  /\ SliceCalls \subseteq Int \X Int \X (Nat \ {0})

VARIABLES
  reader,   \* [async, multi]: which of the four readers it is
  objects,  \* the reader, filtered readers and slices, in the order they were made
  task,     \* what each task iterates over or awaits, and what it got
  queue,    \* the reads awaited, <<task, record>>, first come first served
  answer    \* what the last call returned, None for none

vars == <<reader, objects, task, queue, answer>>

(* An object: the absolute indices of its records, its _index, and for a   *)
(* filtered reader what its RecordFilter lets through.                     *)
Object(kind, indices, filter) ==
  [kind |-> kind, indices |-> indices, index |-> 0, filter |-> filter]

WholeFile ==
  IF reader.multi
    THEN [stream_ids |-> MultiGetAvailableStreamIds,
          record_types |-> MultiGetAvailableRecordTypes,
          min_timestamp |-> MultiGetMinAvailableTimestamp,
          max_timestamp |-> MultiGetMaxAvailableTimestamp]
    ELSE [stream_ids |-> GetAvailableStreamIds, record_types |-> GetAvailableRecordTypes,
          min_timestamp |-> GetMinAvailableTimestamp,
          max_timestamp |-> GetMaxAvailableTimestamp]

Ids == DOMAIN objects

(* A task: over is the object, pos the index of a generator, got how many  *)
(* of the object's records it has, the first ones and in order, or Astray, *)
(* alone whether no other task has moved the object's _index since the     *)
(* iteration began.                                                        *)
Idle == [pc |-> "idle", over |-> 0, pos |-> 0, got |-> 0, alone |-> TRUE]
Astray == -1

(* What a task has got when it is given another record. *)
Got(t, record) ==
  LET indices == objects[task[t].over].indices  got == task[t].got IN
  IF got \in 0..(Len(indices) - 1) /\ indices[got + 1] = record THEN got + 1 ELSE Astray

(* Types; and _index is moved past the end at most once by each task that  *)
(* looked at it before it got there.                                       *)
TypeOK ==
  /\ reader \in Readers
  /\ Len(objects) \in 1..(MaxObjects + 1)
  /\ \A k \in Ids : /\ objects[k].kind \in {"reader", "filtered", "slice"}
                    /\ Range(objects[k].indices) \subseteq Index
                    /\ objects[k].index \in 0..(Len(objects[k].indices) + Cardinality(Tasks) - 1)
  /\ \A t \in Tasks : /\ task[t].pc \in {"idle", "running", "next", "item", "done", "failed"}
                      /\ task[t].over \in Ids \cup {0}
                      /\ task[t].got \in Astray..N
                      /\ task[t].alone \in BOOLEAN
  /\ \A q \in Range(queue) : q[1] \in Tasks /\ q[2] \in Index

(* __init__ opens the file and enables every stream. *)
Init ==
  /\ reader \in Readers
  /\ objects = <<Object("reader", InOrder(Index), WholeFile)>>
  /\ task = [t \in Tasks |-> Idle]
  /\ queue = <<>>
  /\ answer = None

-----------------------------------------------------------------------------
(* Making filtered readers and slices.                                     *)

Given(argument, default) == IF argument = None THEN default ELSE argument

(* filter_by_stream_ids, filter_by_record_type: what any pattern matches;  *)
(* a pattern is the set of names it matches, of the file or not.           *)
FilterSetOnCondition(available, patterns) ==
  {x \in available : \E pattern \in patterns : x \in pattern}

(* filtered_by_fields: what is not given is taken from the reader.         *)
RecordFilter(call) ==
  [stream_ids |-> FilterSetOnCondition(Streams, Given(call.stream_ids, {Streams})),
   record_types |-> FilterSetOnCondition(WholeFile.record_types,
                                         Given(call.record_types, {WholeFile.record_types})),
   min_timestamp |-> Given(call.min_timestamp, WholeFile.min_timestamp),
   max_timestamp |-> Given(call.max_timestamp, WholeFile.max_timestamp)]

(* Passing(filter): what a filter is meant to let through. *)
Passing(filter) ==
  {i \in Index : /\ Stream[i] \in filter.stream_ids /\ Type[i] \in filter.record_types
                 /\ Timestamp[i] \in filter.min_timestamp..filter.max_timestamp}

(* The absolute indices of a filtered reader. *)
FilteredIndices(f) ==
  IF reader.multi
    THEN MultiRegenerateEnabledIndices(f.record_types, f.stream_ids,
                                       f.min_timestamp, f.max_timestamp)
    ELSE RegenerateEnabledIndices(f.record_types, f.stream_ids,
                                  f.min_timestamp, f.max_timestamp)

NewObject ==
  /\ Len(objects) <= MaxObjects
  /\ \A t \in Tasks : task[t] = Idle
  /\ answer' = None
  /\ UNCHANGED <<reader, task, queue>>

(* filtered_by_fields of the reader; a filtered reader cannot be filtered. *)
FilteredByFields(call) ==
  /\ NewObject
  /\ objects' = Append(objects, Object("filtered", FilteredIndices(RecordFilter(call)),
                                       RecordFilter(call)))

(* Python's slice of a sequence: negative bounds count from its end.       *)
SliceOf(indices, slice) ==
  LET n == Len(indices)
      Bound(b) == IF b < 0 THEN Max({n + b, 0}) ELSE Min({b, n})
      start == Bound(slice[1])
      stop == Bound(slice[2])
      length == IF stop <= start THEN 0 ELSE (stop - start + slice[3] - 1) \div slice[3]
  IN [j \in 1..length |-> indices[start + (j - 1) * slice[3] + 1]]

(* index_or_slice_records with a slice, of a reader or of another slice.   *)
Slice(k, slice) ==
  /\ NewObject
  /\ objects' = Append(objects, Object("slice", SliceOf(objects[k].indices, slice),
                                       objects[k].filter))

-----------------------------------------------------------------------------
(* Synchronous iteration, by a generator each.                             *)

IterSync(t, k) ==
  /\ ~reader.async /\ task[t].pc = "idle"
  /\ task' = [task EXCEPT ![t] = [Idle EXCEPT !.pc = "running", !.over = k]]
  /\ answer' = None
  /\ UNCHANGED <<reader, objects, queue>>

(* __iter__: the next record, until n_records were yielded.                *)
NextSync(t) ==
  LET o == objects[task[t].over] IN
  /\ ~reader.async /\ task[t].pc = "running"
  /\ task' = IF task[t].pos = Len(o.indices)
               THEN [task EXCEPT ![t].pc = "done"]
               ELSE [task EXCEPT ![t].pos = @ + 1,
                                 ![t].got = Got(t, o.indices[task[t].pos + 1])]
  /\ UNCHANGED <<reader, objects, queue, answer>>

-----------------------------------------------------------------------------
(* Asynchronous iteration.                                                 *)

(* The tasks that iterate over an object. *)
IteratingOver(k) == {t \in Tasks : task[t].pc \in {"running", "next"} /\ task[t].over = k}

(* __aiter__ moves the object's _index to the start, whoever uses it.      *)
Aiter(t, k) ==
  /\ reader.async /\ task[t].pc = "idle"
  /\ objects' = [objects EXCEPT ![k].index = 0]
  /\ task' = [u \in Tasks |->
                IF u = t THEN [Idle EXCEPT !.pc = "running", !.over = k,
                                           !.alone = IteratingOver(k) = {}]
                ELSE IF u \in IteratingOver(k) THEN [task[u] EXCEPT !.alone = FALSE]
                ELSE task[u]]
  /\ answer' = None
  /\ UNCHANGED <<reader, queue>>

(* __anext__ up to the await: StopAsyncIteration at the end, an IndexError *)
(* behind it.                                                              *)
Anext(t) ==
  LET o == objects[task[t].over] IN
  /\ reader.async /\ task[t].pc = "running"
  /\ IF o.index >= Len(o.indices)
       THEN /\ task' = [task EXCEPT ![t].pc = IF o.index = Len(o.indices) THEN "done"
                                                                          ELSE "failed"]
            /\ UNCHANGED queue
       ELSE /\ task' = [task EXCEPT ![t].pc = "next"]
            /\ queue' = Append(queue, <<t, o.indices[o.index + 1]>>)
  /\ UNCHANGED <<reader, objects, answer>>

(* await reader[i] outside of an iteration, with Python's negative indices. *)
AwaitItem(t, k, i) ==
  LET n == Len(objects[k].indices) IN
  /\ reader.async /\ task[t].pc = "idle" /\ i \in -n..(n - 1)
  /\ task' = [task EXCEPT ![t] = [Idle EXCEPT !.pc = "item", !.over = k]]
  /\ queue' = Append(queue, <<t, objects[k].indices[(IF i < 0 THEN i + n ELSE i) + 1]>>)
  /\ answer' = None
  /\ UNCHANGED <<reader, objects>>

(* The _index is moved by every read that arrives. *)
ArriveMoving ==
  /\ queue # <<>>
  /\ LET t == Head(queue)[1] IN
     /\ task' = [task EXCEPT ![t].got = Got(t, Head(queue)[2]),
                             ![t].pc = IF @ = "next" THEN "running" ELSE "idle"]
     /\ objects' = [objects EXCEPT ![task[t].over].index = @ + 1]
  /\ queue' = Tail(queue)
  /\ UNCHANGED <<reader, answer>>

(* A record arrives.  An iteration goes on from the await: only now is the *)
(* _index moved, from wherever it is by then.                              *)
Arrive ==
  /\ queue # <<>>
  /\ LET t == Head(queue)[1] IN
     IF task[t].pc = "next"
       THEN /\ task' = [task EXCEPT ![t].pc = "running", ![t].got = Got(t, Head(queue)[2])]
            /\ objects' = [objects EXCEPT ![task[t].over].index = @ + 1]
       ELSE /\ task' = [task EXCEPT ![t] = Idle]
            /\ UNCHANGED objects
  /\ queue' = Tail(queue)
  /\ UNCHANGED <<reader, answer>>

(* A task is cancelled while it awaits: its read is performed for nobody.  *)
Cancel(t) ==
  /\ task[t].pc \in {"next", "item"}
  /\ task' = [task EXCEPT ![t] = Idle]
  /\ \E i \in DOMAIN queue : queue[i][1] = t /\ queue' = RemoveAt(queue, i)
  /\ UNCHANGED <<reader, objects, answer>>

(* An iteration is left, after its end or before.                          *)
Leave(t) ==
  /\ task[t].pc \in {"running", "done", "failed"}
  /\ task' = [task EXCEPT ![t] = Idle]
  /\ UNCHANGED <<reader, objects, queue, answer>>

-----------------------------------------------------------------------------
(* What a program asks of the whole reader or of a filtered one, while it  *)
(* does not iterate.  A call that reads answers <<"record", index>>,       *)
(* <<"none">> for Python's None, or <<"raises">>; the others answer        *)
(* <<"index", i>> or <<"list", sequence>>.                                 *)

Ask(op, k, s, types, i, answers) ==
  /\ \E result \in answers :
       answer' = [op |-> op, over |-> k, stream |-> s, types |-> types, index |-> i,
                  result |-> result]
  /\ UNCHANGED <<reader, objects, task, queue>>

ReadRecord(i) == IF i \in Index THEN <<"record", i>> ELSE <<"raises">>

(* Python's indexing of a list: negative indices count from its end. *)
InRange(list, i) == i \in -Len(list)..(Len(list) - 1)
At(list, i) == list[(IF i < 0 THEN i + Len(list) ELSE i) + 1]

(* read_next_record of the reader: only the search's IndexError is caught. *)
ReadNextOfFile(s, types, i) ==
  LET next == IF reader.multi THEN MultiGetNextIndex(Streams, s, types, i)
                              ELSE GetNextIndex(Streams, s, types, i)
  IN {IF next = None THEN <<"none">> ELSE ReadRecord(next)}

(* read_prev_record of the reader *)
ReadPrevOfFile(s, types, i) ==
  {IF prev = None THEN <<"none">> ELSE ReadRecord(prev) :
     prev \in IF reader.multi THEN MultiGetPrevIndex(Streams, s, types, i)
                              ELSE GetPrevIndex(Streams, s, types, i)}

(* The index looked for is one before the filtered one. *)
ReadNextRecordBefore(k, s, types, i) ==
  Ask("next", k, s, types, i,
      IF objects[k].kind = "reader" THEN ReadNextOfFile(s, types, i - 1)
      ELSE IF InRange(objects[k].indices, i)
             THEN ReadNextOfFile(s, types, At(objects[k].indices, i))
             ELSE {<<"none">>})

(* read_next_record: a filtered reader translates its index and asks the   *)
(* reader of the whole file.                                               *)
ReadNextRecord(k, s, types, i) ==
  Ask("next", k, s, types, i,
      IF objects[k].kind = "reader" THEN ReadNextOfFile(s, types, i)
      ELSE IF InRange(objects[k].indices, i)
             THEN ReadNextOfFile(s, types, At(objects[k].indices, i))
             ELSE {<<"none">>})

(* read_prev_record: the same, but the translation is not guarded.         *)
ReadPrevRecord(k, s, types, i) ==
  Ask("prev", k, s, types, i,
      IF objects[k].kind = "reader" THEN ReadPrevOfFile(s, types, i)
      ELSE IF InRange(objects[k].indices, i)
             THEN ReadPrevOfFile(s, types, At(objects[k].indices, i))
             ELSE {<<"raises">>})

(* The index in the whole file of the record at a time; "if epsilon" takes *)
(* 0 for no tolerance given.                                               *)
IndexByTime(s, types, t, epsilon) ==
  IF reader.multi
    THEN IF epsilon = 0 THEN {MultiGetRecordIndexByTime(s, types, t)}
                        ELSE MultiGetNearestRecordIndexByTime(s, types, t, epsilon)
    ELSE IF epsilon = 0 THEN {GetRecordIndexByTime(s, types, t)}
                        ELSE GetNearestRecordIndexByTime(s, types, t, epsilon)

(* bisect_left: how many of a reader's records are in front of an index.   *)
BisectLeft(list, i) == Cardinality({j \in DOMAIN list : list[j] < i})

(* bisect: how many of a reader's records are not behind an index.         *)
Bisect(list, i) == Cardinality({j \in DOMAIN list : list[j] <= i})

(* get_record_index_by_time: the assertion that the stream is one of the   *)
(* reader's; a filtered reader looks the index up in its own list.         *)
GetIndexByTime(k, s, types, t, epsilon) ==
  Ask("index", k, s, types, t,
      {IF i = None THEN <<"raises">>
       ELSE IF objects[k].kind = "reader" THEN <<"index", i>>
       ELSE <<"index", Max({Bisect(objects[k].indices, i) - 1, 0}), i>> :
         i \in IF s \in objects[k].filter.stream_ids THEN IndexByTime(s, types, t, epsilon)
                                                     ELSE {None}})

(* read_record_by_time: a filtered reader passes it on.                    *)
ReadRecordByTime(k, s, types, t, epsilon) ==
  Ask("time", k, s, types, t,
      {IF i = None THEN <<"raises">> ELSE ReadRecord(i) : i \in IndexByTime(s, types, t, epsilon)})

(* get_timestamp_list, of the whole file or of what a filter lets through. *)
GetTimestampList(k) ==
  Ask("times", k, None, {}, None,
      {<<"list", IF reader.multi THEN MultiGetTimestampListForIndices(objects[k].indices)
                                 ELSE GetTimestampListForIndices(objects[k].indices)>>})

(* The timestamp of a record of the file. *)
TimestampOf(i) == IF reader.multi THEN MultiGetTimestampForIndex(i) ELSE GetTimestampForIndex(i)

(* get_timestamp_for_index: only the upper bound is checked in Python.     *)
GetTimestamp(k, i) ==
  Ask("timestamp", k, None, {}, i,
      {IF objects[k].kind = "reader"
         THEN IF TimestampOf(i) = None THEN <<"raises">> ELSE <<"list", <<TimestampOf(i)>> >>
         ELSE IF InRange(objects[k].indices, i)
                THEN <<"list", <<TimestampOf(At(objects[k].indices, i))>> >>
                ELSE <<"raises">>})

(* get_records_info of the binding under the reader.                       *)
GetInfo(first, count) ==
  LET infos == IF reader.multi THEN MultiGetRecordsInfo(first, count)
                               ELSE GetRecordsInfo(first, count)
  IN Ask("infos", 1, None, {}, first,
         {IF infos = None THEN <<"raises">> ELSE <<"list", infos>>})

(* get_stream_size, as the records it counts.                              *)
GetSize(s) ==
  Ask("size", 1, s, RecordTypes, None,
      {<<"list", InOrder(IF reader.multi THEN MultiGetStreamSize(s) ELSE GetStreamSize(s))>>})

(* get_stream_info, and get_records_count of each type, of the reader.     *)
GetInfoOfStream(s) ==
  Ask("stream", 1, s, RecordTypes, None,
      {IF reader.multi
         THEN <<"info", MultiGetStreamInfo(s), [t \in RecordTypes |-> MultiGetRecordsCount(s, t)]>>
         ELSE <<"info", GetStreamInfo(s), [t \in RecordTypes |-> GetRecordsCount(s, t)]>>})

(* record.metadata_blocks[k] of a record read, with the pieces of its data  *)
(* layout.                                                                 *)
GetMetadata(pieces) ==
  LET end == StringifyMetadataKeys(pieces) IN
  Ask("metadata", 1, None, {}, pieces,
      {IF end.raised THEN <<"raises">> ELSE <<"keys", end.filtered>>})

(* No answer depends on an earlier one: the model asks once after each     *)
(* other call.                                                             *)
Queries ==
  /\ ~reader.async /\ answer = None
  /\ \A t \in Tasks : task[t] = Idle
  /\ \/ \E k \in {j \in Ids : objects[j].kind # "slice"} :
          \/ \E s \in Streams, types \in {RecordTypes, {"data"}} :
               \/ \E i \in -1..N : ReadNextRecord(k, s, types, i) \/ ReadPrevRecord(k, s, types, i)
               \/ \E t \in Times, epsilon \in Epsilons :
                    \/ GetIndexByTime(k, s, types, t, epsilon)
                    \/ ReadRecordByTime(k, s, types, t, epsilon)
          \/ GetTimestampList(k)
          \/ \E i \in -1..N : GetTimestamp(k, i)
     \/ \E first \in -1..N, count \in 0..N : GetInfo(first, count)
     \/ \E s \in Streams : GetSize(s) \/ GetInfoOfStream(s)
     \/ \E pieces \in PieceLists : GetMetadata(pieces)

Next ==
  \/ \E call \in FilterCalls : FilteredByFields(call)
  \/ \E k \in Ids, slice \in SliceCalls : Slice(k, slice)
  \/ \E t \in Tasks, k \in Ids :
       \/ IterSync(t, k) \/ Aiter(t, k)
       \/ \E i \in Items : AwaitItem(t, k, i)
  \/ \E t \in Tasks : NextSync(t) \/ Anext(t) \/ Cancel(t) \/ Leave(t)
  \/ Arrive
  \/ Queries

Spec == Init /\ [][Next]_vars

-----------------------------------------------------------------------------
(* Properties.                                                             *)

(* An iteration that ran to its end returned the records of its reader,    *)
(* each once and in order, whatever else was read meanwhile through the    *)
(* same C++ reader: other iterations over other filters and slices, single *)
(* records, reads that were cancelled.  An asynchronous one must have been *)
(* the only one over its object.                                           *)
IterationComplete ==
  \A t \in Tasks :
    /\ task[t].alone => task[t].pc # "failed"
    /\ task[t].pc = "done" /\ task[t].alone => task[t].got = Len(objects[task[t].over].indices)

(* A filtered reader has exactly the records its filter lets through, the  *)
(* first and the last of the file, and those at its very bounds, included. *)
FilterIsExact ==
  \A k \in Ids : objects[k].kind = "filtered" =>
                   Range(objects[k].indices) = Passing(objects[k].filter)

Asked(op, kind) == answer # None /\ answer.op = op /\ objects[answer.over].kind = kind

(* From an index in the file, read_next_record finds the first matching    *)
(* record at or behind it, and read_prev_record the last one at or in      *)
(* front of it, over one file and over several; neither returns a record   *)
(* where there is none.                                                    *)
NavigationIsExact ==
  /\ Asked("next", "reader") /\ answer.index \in Index =>
       LET found == {i \in RecordsOf(answer.stream, answer.types) : i >= answer.index} IN
       IF found = {} THEN answer.result[1] # "record"
                     ELSE answer.result = <<"record", Min(found)>>
  /\ Asked("prev", "reader") /\ answer.index \in Index =>
       LET found == {i \in RecordsOf(answer.stream, answer.types) : i <= answer.index} IN
       IF found = {} THEN answer.result[1] # "record"
                     ELSE answer.result = <<"record", Max(found)>>

(* The index a filtered reader gives for a time is that of the record the  *)
(* whole reader finds, whenever that record passes the filter.             *)
IndexByTimeIsRecord ==
  Asked("index", "filtered") /\ answer.result[1] = "index" =>
    LET indices == objects[answer.over].indices IN
    answer.result[3] \in Range(indices) => indices[answer.result[2] + 1] = answer.result[3]

(* What the reader says of a stream agrees with what it finds when it      *)
(* looks for the stream's records, however it is asked: the first and last *)
(* record of each type are those a search from either end of the index     *)
(* finds, and there are as many as the summaries count; over one file,     *)
(* each entry of a list of infos is that of the record whose index it      *)
(* gives, and the size of a stream is that of its records.                 *)
AnswersAgree ==
  /\ Asked("stream", "reader") =>
       \A type \in RecordTypes :
         LET info == answer.result[2][type] IN
         /\ info.count = answer.result[3][type]
         /\ info.count = 0 <=> info.first = None
         /\ info.first # None =>
              /\ ReadNextOfFile(answer.stream, {type}, 0) = {<<"record", info.first>>}
              /\ ReadPrevOfFile(answer.stream, {type}, N - 1) = {<<"record", info.last>>}
  /\ Asked("infos", "reader") /\ ~reader.multi /\ answer.result[1] = "list" =>
       \A info \in Range(answer.result[2]) : info.record_index = info.record
  /\ Asked("size", "reader") /\ ~reader.multi =>
       answer.result[2] = InOrder({i \in Index : Stream[i] = answer.stream})

Shared(pieces, k) == \E j \in DOMAIN pieces \ {k} : pieces[j].label = pieces[k].label

(* Whatever the pieces of a data layout and their order, each is found     *)
(* under a key of its own, and nothing else is: its label, or label<type>  *)
(* where another piece has the label.  Only a label that itself reads like *)
(* such a key may be given more brackets, or make the metadata raise.      *)
EveryPieceIsFound ==
  Asked("metadata", "reader") =>
    LET pieces == answer.index  keys == answer.result[2] IN
    IF answer.result[1] = "raises" THEN KeyLikeLabel(pieces)
    ELSE /\ Cardinality(DOMAIN keys) = Len(pieces)
         /\ {keys[key] : key \in DOMAIN keys} = DOMAIN pieces
         /\ ~KeyLikeLabel(pieces) =>
              \A k \in DOMAIN pieces :
                keys[IF Shared(pieces, k) THEN pieces[k].label \o <<"<", pieces[k].type>>
                                         ELSE pieces[k].label] = k
=============================================================================
