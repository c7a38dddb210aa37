---------------------------- MODULE PyReadersProofs ----------------------------
(***************************************************************************)
(* Theorems about PyReaders, for any index, any number of tasks, filters,  *)
(* slices and objects made.                                                *)
(***************************************************************************)
EXTENDS PyReaders, RecordIndexProofs, SequenceTheorems

-----------------------------------------------------------------------------
(* The state, typed.                                                       *)

Pcs == {"idle", "running", "next", "item", "done", "failed"}

TaskSet == [pc : Pcs, over : Nat, pos : Nat, got : Astray..N, alone : BOOLEAN]

Filters == [stream_ids : SUBSET Streams, record_types : SUBSET RecordTypes,
            min_timestamp : Int, max_timestamp : Int]

(* The records of an object: no more than there are in the file.           *)
Lists == {list \in Seq(Index) : Len(list) <= N}

ObjectSet == [kind : {"reader", "filtered", "slice"}, indices : Lists, index : Nat,
              filter : Filters]

Typed ==
  /\ reader \in Readers
  /\ objects \in Seq(ObjectSet) /\ Len(objects) \in 1..(MaxObjects + 1)
  /\ task \in [Tasks -> TaskSet]
  /\ \A t \in Tasks : /\ task[t].over \in Ids \cup {0}
                      /\ task[t].pc # "idle" => task[t].over \in Ids
  /\ queue \in Seq(Tasks \X Index)

(* A task has at most one read awaited, and none while it runs.            *)
QueueInv ==
  /\ \A i \in DOMAIN queue : task[queue[i][1]].pc \in {"next", "item"}
  /\ \A i, j \in DOMAIN queue : queue[i][1] = queue[j][1] => i = j

Over(t) == objects[task[t].over]

(* A generator counts its records itself.                                  *)
SyncOK(t) ==
  /\ task[t].pc \in {"idle", "running", "done"}
  /\ task[t].pc = "running" => /\ task[t].got = task[t].pos
                               /\ task[t].pos \in 0..Len(Over(t).indices)
  /\ task[t].pc = "done" => task[t].got = Len(Over(t).indices)

(* An asynchronous iteration that is alone over its object finds _index    *)
(* where it left it, before the await and behind it.                       *)
AloneOK(t) ==
  /\ task[t].pc # "failed"
  /\ task[t].pc = "done" => task[t].got = Len(Over(t).indices)
  /\ task[t].pc \in {"running", "next"} =>
       /\ task[t].got = Over(t).index /\ task[t].got \in 0..Len(Over(t).indices)
       /\ IteratingOver(task[t].over) = {t}
  /\ task[t].pc = "next" =>
       /\ task[t].got < Len(Over(t).indices)
       /\ \A i \in DOMAIN queue :
            queue[i][1] = t => queue[i][2] = Over(t).indices[task[t].got + 1]

AsyncOK(t) == task[t].alone => AloneOK(t)

IterInv == \A t \in Tasks : IF reader.async THEN AsyncOK(t) ELSE SyncOK(t)

(* The tasks that looked at _index and will move it.                       *)
Movers(k) == {t \in Tasks : task[t].pc = "next" /\ task[t].over = k}

(* _index and those that will still move it do not get past the end by     *)
(* more than the tasks there are but one.                                  *)
MoversInv ==
  \A k \in Ids : objects[k].index + Cardinality(Movers(k))
                   <= Len(objects[k].indices) + Cardinality(Tasks) - 1

(* A filtered reader lists what its filter lets through, in order.         *)
FilteredInv ==
  \A k \in Ids : objects[k].kind = "filtered" =>
                   objects[k].indices = InOrder(Passing(objects[k].filter))

(* Where the answers the properties tell of come from.                     *)
(* What metadata answers for the pieces of a layout.                       *)
IsMetadata(pieces, result) ==
  LET end == StringifyMetadataKeys(pieces) IN
  result = IF end.raised THEN <<"raises">> ELSE <<"keys", end.filtered>>

AnswerInv ==
  /\ answer # None => answer.over \in Ids
  /\ Asked("next", "reader") =>
       answer.result \in ReadNextOfFile(answer.stream, answer.types, answer.index)
  /\ Asked("prev", "reader") =>
       answer.result \in ReadPrevOfFile(answer.stream, answer.types, answer.index)
  /\ Asked("index", "filtered") /\ answer.result[1] = "index" =>
       \E i \in Index : answer.result =
         <<"index", Max({Bisect(objects[answer.over].indices, i) - 1, 0}), i>>
  /\ Asked("stream", "reader") =>
       answer.result = <<"info", GetStreamInfo(answer.stream),
                         InitRecordSummaries.counts[answer.stream]>>
       /\ answer.stream \in Streams
  /\ Asked("infos", "reader") /\ ~reader.multi /\ answer.result[1] = "list" =>
       \E first \in Index, count \in 1..N :
         answer.result = <<"list", GetRecordsInfo(first, count)>>
  /\ Asked("size", "reader") /\ ~reader.multi =>
       answer.result = <<"list", InOrder(GetStreamSize(answer.stream))>>
  /\ Asked("metadata", "reader") =>
       answer.index \in PieceLists /\ IsMetadata(answer.index, answer.result)

IInv == Typed /\ QueueInv /\ IterInv /\ MoversInv /\ FilteredInv /\ AnswerInv

-----------------------------------------------------------------------------
(* Filters and lists of records.                                           *)

(* A list in the order of the index is one of the lists objects have.      *)
LEMMA InOrderType ==
  ASSUME NEW S, S \subseteq Index
  PROVE  InOrder(S) \in Lists
<1>1. InOrder(S) \in Seq(S) /\ Len(InOrder(S)) <= N
  BY InOrderSeq, InOrderLists
<1>2. InOrder(S) \in Seq(Index)
  BY <1>1
<1> QED
  BY <1>1, <1>2 DEF Lists

(* The filter of the whole file lets types, streams and times of it through. *)
LEMMA WholeFileType == WholeFile \in Filters
<1>1. GetMinAvailableTimestamp \in Int /\ GetMaxAvailableTimestamp \in Int
  BY RecordIndexAssumption DEF GetMinAvailableTimestamp, GetMaxAvailableTimestamp, Index
<1>2. GetAvailableRecordTypes \in SUBSET RecordTypes /\ GetAvailableStreamIds = Streams
  BY RecordIndexAssumption DEF GetAvailableRecordTypes, GetAvailableStreamIds, InitRecordSummaries
<1>3. /\ MultiGetAvailableRecordTypes = GetAvailableRecordTypes
      /\ MultiGetAvailableStreamIds = GetAvailableStreamIds
      /\ MultiGetMinAvailableTimestamp = GetMinAvailableTimestamp
      /\ MultiGetMaxAvailableTimestamp = GetMaxAvailableTimestamp
  BY DEF MultiGetAvailableRecordTypes, MultiGetAvailableStreamIds, MultiInitRecordSummaries,
         MultiGetMinAvailableTimestamp, MultiGetMaxAvailableTimestamp,
         GetAvailableRecordTypes, GetAvailableStreamIds
<1> QED
  BY <1>1, <1>2, <1>3 DEF WholeFile, Filters

(* A filter made from the arguments of a call is well typed. *)
LEMMA RecordFilterType ==
  ASSUME NEW call \in FilterCalls
  PROVE  RecordFilter(call) \in Filters
<1>1. /\ WholeFile.record_types \subseteq RecordTypes
      /\ WholeFile.min_timestamp \in Int /\ WholeFile.max_timestamp \in Int
  BY WholeFileType DEF Filters
<1>2. {call.min_timestamp, call.max_timestamp} \subseteq Int \cup {None}
  BY PyReadersAssumption
<1>3. /\ Given(call.min_timestamp, WholeFile.min_timestamp) \in Int
      /\ Given(call.max_timestamp, WholeFile.max_timestamp) \in Int
  BY <1>1, <1>2 DEF Given
<1>4. \A A, P : FilterSetOnCondition(A, P) \subseteq A
  BY DEF FilterSetOnCondition
<1> DEFINE S == FilterSetOnCondition(Streams, Given(call.stream_ids, {Streams}))
           T == FilterSetOnCondition(WholeFile.record_types,
                                     Given(call.record_types, {WholeFile.record_types}))
<1>5. S \subseteq Streams /\ T \subseteq RecordTypes
  BY <1>1, <1>4
<1> HIDE DEF S, T
<1>6. RecordFilter(call) = [stream_ids |-> S, record_types |-> T,
                            min_timestamp |-> Given(call.min_timestamp, WholeFile.min_timestamp),
                            max_timestamp |-> Given(call.max_timestamp, WholeFile.max_timestamp)]
  BY DEF RecordFilter, S, T
<1> QED
  BY <1>3, <1>5, <1>6 DEF Filters

(* The scan over the index, which stops at the first record behind the     *)
(* range, misses no record that passes the filter.                         *)
LEMMA FilterFindsAll ==
  ASSUME NEW f \in Filters
  PROVE  FilteredIndices(f) = InOrder(Passing(f)) /\ Passing(f) \subseteq Index
<1> DEFINE behind == {i \in Index : Timestamp[i] > f.max_timestamp}
           scanned == {i \in Index : \A j \in behind : i < j}
<1>1. /\ f.min_timestamp \in Int /\ f.max_timestamp \in Int
      /\ \A i \in Index : Timestamp[i] \in Nat
  BY RecordIndexAssumption DEF Filters
<1>2. ASSUME NEW i \in Index PROVE i \in scanned <=> Timestamp[i] <= f.max_timestamp
  <2>1. ASSUME Timestamp[i] <= f.max_timestamp, NEW j \in behind PROVE i < j
    <3>1. ~(Timestamp[j] <= Timestamp[i])
      BY <1>1, <2>1
    <3>2. ~(j < i) /\ j # i
      BY <1>1, <3>1, RecordIndexAssumption
    <3> QED
      BY <3>2, RecordIndexAssumption DEF Index
  <2>2. ASSUME ~(Timestamp[i] <= f.max_timestamp) PROVE i \notin scanned
    <3>1. i \in behind
      BY <1>1, <2>2
    <3> QED
      BY <3>1, IndexOrder
  <2> QED
    BY <2>1, <2>2
<1>3. ASSUME NEW i \in Index
      PROVE  (Timestamp[i] <= f.max_timestamp /\ Timestamp[i] >= f.min_timestamp)
               <=> Timestamp[i] \in f.min_timestamp..f.max_timestamp
  BY <1>1
<1> DEFINE listed == {i \in scanned : /\ Timestamp[i] >= f.min_timestamp
                                      /\ Type[i] \in f.record_types
                                      /\ Stream[i] \in f.stream_ids}
<1>4. listed = Passing(f)
  BY <1>2, <1>3 DEF Passing
<1> HIDE DEF listed
<1>5. FilteredIndices(f) = InOrder(listed)
  BY DEF FilteredIndices, RegenerateEnabledIndices, MultiRegenerateEnabledIndices, listed
<1> QED
  BY <1>4, <1>5 DEF Passing

(* The number of elements of a slice: its step counted from its start      *)
(* stays in front of its stop.                                             *)
LEMMA SliceSteps ==
  ASSUME NEW d \in Nat, d # 0, NEW s \in Nat, s # 0
  PROVE  /\ (d + s - 1) \div s \in Nat /\ (d + s - 1) \div s <= d
         /\ \A j \in 1..((d + s - 1) \div s) : (j - 1) * s \in 0..(d - 1)
<1> DEFINE q == (d + s - 1) \div s
<1>1. q \in Int /\ q * s <= d + s - 1 /\ d + s - 1 < (q + 1) * s
  OBVIOUS
<1> HIDE DEF q
<1>2. q >= 0
  <2> SUFFICES ASSUME q + 1 <= 0 PROVE FALSE
    BY <1>1
  <2>1. (q + 1) * s <= 0
    BY <1>1
  <2> QED
    BY <1>1, <2>1
<1>3. \A j \in 1..q : (j - 1) * s \in 0..(d - 1)
  <2> SUFFICES ASSUME NEW j \in 1..q PROVE (j - 1) * s \in 0..(d - 1)
    OBVIOUS
  <2>1. (j - 1) * s >= 0 /\ (j - 1) * s <= (q - 1) * s
    BY <1>1, <1>2
  <2>2. (q - 1) * s = q * s - s
    BY <1>1
  <2> QED
    BY <1>1, <2>1, <2>2
<1>4. q <= d
  <2> SUFFICES ASSUME q > d PROVE FALSE
    BY <1>1
  <2>1. (q - 1) * s >= d * s /\ d * s >= d
    BY <1>1
  <2>2. (q - 1) * s = q * s - s
    BY <1>1
  <2> QED
    BY <1>1, <2>1, <2>2
<1> QED
  BY <1>1, <1>2, <1>3, <1>4 DEF q

(* A slice of a list of records is one. *)
LEMMA SliceType ==
  ASSUME NEW list \in Lists, NEW slice \in SliceCalls
  PROVE  SliceOf(list, slice) \in Lists
<1>1. /\ slice[1] \in Int /\ slice[2] \in Int /\ slice[3] \in Nat /\ slice[3] # 0
      /\ list \in Seq(Index) /\ Len(list) \in Nat /\ Len(list) <= N
  BY PyReadersAssumption DEF Lists
<1> DEFINE n == Len(list)
           Bound(b) == IF b < 0 THEN Max({n + b, 0}) ELSE Min({b, n})
           start == Bound(slice[1])
           stop == Bound(slice[2])
           step == slice[3]
           length == IF stop <= start THEN 0 ELSE (stop - start + step - 1) \div step
           s == [j \in 1..length |-> list[start + (j - 1) * step + 1]]
<1>2. ASSUME NEW b \in Int PROVE Bound(b) \in 0..n
  <2>1. b < 0 => Max({n + b, 0}) \in 0..n
    <3>1. \E x \in {n + b, 0} : \A y \in {n + b, 0} : x >= y
      BY <1>1
    <3>2. Max({n + b, 0}) \in {n + b, 0} /\ \A y \in {n + b, 0} : Max({n + b, 0}) >= y
      BY <3>1 DEF Max
    <3> QED
      BY <1>1, <3>2
  <2>2. ~(b < 0) => Min({b, n}) \in 0..n
    <3>1. \E x \in {b, n} : \A y \in {b, n} : x <= y
      BY <1>1
    <3>2. Min({b, n}) \in {b, n} /\ \A y \in {b, n} : Min({b, n}) <= y
      BY <3>1 DEF Min
    <3> QED
      BY <1>1, <3>2
  <2> QED
    BY <2>1, <2>2
<1>3. start \in 0..n /\ stop \in 0..n /\ step \in Nat /\ step # 0
  BY <1>1, <1>2
<1> HIDE DEF start, stop, step
<1>4. /\ length \in Nat /\ length <= n
      /\ \A j \in 1..length : start + (j - 1) * step + 1 \in 1..n
  <2>1. CASE stop <= start
    BY <1>1, <2>1
  <2>2. CASE ~(stop <= start)
    <3> DEFINE d == stop - start
    <3>1. d \in Nat /\ d # 0 /\ d <= n /\ start + d <= n
      BY <1>1, <1>3, <2>2
    <3>2. length = (d + step - 1) \div step
      BY <2>2
    <3> HIDE DEF d, length
    <3>3. /\ length \in Nat /\ length <= d
          /\ \A j \in 1..length : (j - 1) * step \in 0..(d - 1)
      BY <1>3, <3>1, <3>2, SliceSteps
    <3>4. ASSUME NEW j \in 1..length PROVE start + (j - 1) * step + 1 \in 1..n
      <4> DEFINE m == (j - 1) * step
      <4>1. m \in 0..(d - 1)
        BY <3>3
      <4> HIDE DEF m
      <4>2. start + m + 1 \in 1..n
        BY <1>1, <1>3, <3>1, <4>1
      <4> QED
        BY <4>2 DEF m
    <3> QED
      BY <1>1, <3>1, <3>3, <3>4
  <2> QED
    BY <2>1, <2>2
<1> HIDE DEF length
<1>5. \A j \in 1..length : list[start + (j - 1) * step + 1] \in Index
  BY <1>1, <1>4
<1>6. s \in Seq(Index) /\ Len(s) = length
  BY <1>4, <1>5
<1> HIDE DEF s
<1>7. Len(s) <= N
  BY <1>1, <1>4, <1>6, RecordIndexAssumption
<1>8. s \in Lists
  BY <1>6, <1>7 DEF Lists
<1>9. SliceOf(list, slice) = s
  BY DEF SliceOf, s, length, start, stop, step
<1> QED
  BY <1>8, <1>9

-----------------------------------------------------------------------------
(* Updates of tasks and objects, field by field.                           *)

LEMMA IdleType ==
  /\ Idle \in TaskSet
  /\ Idle.pc = "idle" /\ Idle.over = 0 /\ Idle.pos = 0 /\ Idle.got = 0 /\ Idle.alone = TRUE
BY RecordIndexAssumption DEF Idle, TaskSet, Pcs, Astray

LEMMA SetPc ==
  ASSUME NEW p \in TaskSet, NEW x \in Pcs
  PROVE  [p EXCEPT !.pc = x] = [pc |-> x, over |-> p.over, pos |-> p.pos, got |-> p.got,
                                alone |-> p.alone]
  BY DEF TaskSet

LEMMA SetOver ==
  ASSUME NEW p \in TaskSet, NEW x \in Nat
  PROVE  [p EXCEPT !.over = x] = [pc |-> p.pc, over |-> x, pos |-> p.pos, got |-> p.got,
                                  alone |-> p.alone]
  BY DEF TaskSet

LEMMA SetPos ==
  ASSUME NEW p \in TaskSet, NEW x \in Nat
  PROVE  [p EXCEPT !.pos = x] = [pc |-> p.pc, over |-> p.over, pos |-> x, got |-> p.got,
                                 alone |-> p.alone]
  BY DEF TaskSet

LEMMA SetGot ==
  ASSUME NEW p \in TaskSet, NEW x \in Astray..N
  PROVE  [p EXCEPT !.got = x] = [pc |-> p.pc, over |-> p.over, pos |-> p.pos, got |-> x,
                                 alone |-> p.alone]
  BY DEF TaskSet

LEMMA SetAlone ==
  ASSUME NEW p \in TaskSet, NEW x \in BOOLEAN
  PROVE  [p EXCEPT !.alone = x] = [pc |-> p.pc, over |-> p.over, pos |-> p.pos, got |-> p.got,
                                   alone |-> x]
  BY DEF TaskSet

LEMMA TaskLiteral ==
  ASSUME NEW pc \in Pcs, NEW over \in Nat, NEW pos \in Nat, NEW got \in Astray..N,
         NEW alone \in BOOLEAN
  PROVE  [pc |-> pc, over |-> over, pos |-> pos, got |-> got, alone |-> alone] \in TaskSet
  BY DEF TaskSet

(* A task that starts. *)
LEMMA Started ==
  ASSUME NEW pc \in Pcs, NEW k \in Nat, NEW alone \in BOOLEAN
  PROVE  /\ [Idle EXCEPT !.pc = pc, !.over = k] =
              [pc |-> pc, over |-> k, pos |-> 0, got |-> 0, alone |-> TRUE]
         /\ [Idle EXCEPT !.pc = pc, !.over = k, !.alone = alone] =
              [pc |-> pc, over |-> k, pos |-> 0, got |-> 0, alone |-> alone]
<1> DEFINE p1 == [Idle EXCEPT !.pc = pc]
           p2 == [p1 EXCEPT !.over = k]
<1>1. p1 = [pc |-> pc, over |-> 0, pos |-> 0, got |-> 0, alone |-> TRUE]
  BY SetPc, IdleType
<1>2. p1 \in TaskSet
  BY <1>1, IdleType, TaskLiteral DEF TaskSet
<1>3. p2 = [pc |-> p1.pc, over |-> k, pos |-> p1.pos, got |-> p1.got, alone |-> p1.alone]
  <2> HIDE DEF p1
  <2> QED
    BY <1>2, SetOver
<1>4. p2 = [pc |-> pc, over |-> k, pos |-> 0, got |-> 0, alone |-> TRUE]
  <2>1. p1.pc = pc /\ p1.pos = 0 /\ p1.got = 0 /\ p1.alone = TRUE
    BY <1>1
  <2> HIDE DEF p1, p2
  <2> QED
    BY <1>3, <2>1
<1>5. p2 \in TaskSet
  <2>1. 0 \in Nat /\ 0 \in Astray..N /\ TRUE \in BOOLEAN
    BY RecordIndexAssumption DEF Astray
  <2> HIDE DEF p2
  <2> QED
    BY <1>4, <2>1, TaskLiteral
<1> DEFINE p3 == [p2 EXCEPT !.alone = alone]
<1>6. p3 = [pc |-> p2.pc, over |-> p2.over, pos |-> p2.pos, got |-> p2.got, alone |-> alone]
  <2> HIDE DEF p2
  <2> QED
    BY <1>5, SetAlone
<1>7. p3 = [pc |-> pc, over |-> k, pos |-> 0, got |-> 0, alone |-> alone]
  <2>1. p2.pc = pc /\ p2.over = k /\ p2.pos = 0 /\ p2.got = 0
    BY <1>4
  <2> HIDE DEF p2, p3
  <2> QED
    BY <1>6, <2>1
<1>8. [Idle EXCEPT !.pc = pc, !.over = k] = p2
  OBVIOUS
<1>9. [Idle EXCEPT !.pc = pc, !.over = k, !.alone = alone] = p3
  OBVIOUS
<1> QED
  BY <1>4, <1>7, <1>8, <1>9

(* A task that is moved, and the others, which are not. *)
LEMMA TaskStep ==
  ASSUME Typed, NEW t \in Tasks, NEW q \in TaskSet, task' = [task EXCEPT ![t] = q]
  PROVE  /\ task' \in [Tasks -> TaskSet] /\ task'[t] = q
         /\ \A u \in Tasks : u # t => task'[u] = task[u]
  BY DEF Typed

LEMMA StartStep ==
  ASSUME Typed, NEW t \in Tasks, NEW pc \in Pcs, NEW k \in Nat,
         task' = [task EXCEPT ![t] = [Idle EXCEPT !.pc = pc, !.over = k]]
  PROVE  /\ task' \in [Tasks -> TaskSet]
         /\ task'[t].pc = pc /\ task'[t].over = k /\ task'[t].pos = 0
         /\ task'[t].got = 0 /\ task'[t].alone = TRUE
         /\ \A u \in Tasks : u # t => task'[u] = task[u]
<1> DEFINE q == [pc |-> pc, over |-> k, pos |-> 0, got |-> 0, alone |-> TRUE]
<1>1. task' = [task EXCEPT ![t] = q]
  BY Started
<1>2. q \in TaskSet
  BY RecordIndexAssumption DEF TaskSet, Astray
<1>3. q.pc = pc /\ q.over = k /\ q.pos = 0 /\ q.got = 0 /\ q.alone = TRUE
  OBVIOUS
<1> HIDE DEF q
<1> QED
  BY <1>1, <1>2, <1>3, TaskStep

LEMMA PcStep ==
  ASSUME Typed, NEW t \in Tasks, NEW pc \in Pcs, task' = [task EXCEPT ![t].pc = pc]
  PROVE  /\ task' \in [Tasks -> TaskSet]
         /\ task'[t].pc = pc /\ task'[t].over = task[t].over /\ task'[t].pos = task[t].pos
         /\ task'[t].got = task[t].got /\ task'[t].alone = task[t].alone
         /\ \A u \in Tasks : u # t => task'[u] = task[u]
<1> DEFINE p == task[t]
           q == [pc |-> pc, over |-> p.over, pos |-> p.pos, got |-> p.got, alone |-> p.alone]
<1>1. p \in TaskSet
  BY DEF Typed
<1>2. task' = [task EXCEPT ![t] = [p EXCEPT !.pc = pc]]
  OBVIOUS
<1>3. /\ q \in TaskSet /\ q.pc = pc /\ q.over = p.over /\ q.pos = p.pos /\ q.got = p.got
      /\ q.alone = p.alone
  <2> HIDE DEF p
  <2> QED
    BY <1>1 DEF TaskSet
<1>4. [p EXCEPT !.pc = pc] = q
  <2> HIDE DEF p
  <2> QED
    BY <1>1, SetPc
<1>5. task' = [task EXCEPT ![t] = q]
  BY <1>2, <1>4, Zenon
<1> HIDE DEF q
<1> QED
  BY <1>3, <1>5, TaskStep

LEMMA GotStep ==
  ASSUME Typed, NEW t \in Tasks, NEW got \in Astray..N
  PROVE  /\ task' = [task EXCEPT ![t].pc = "running", ![t].got = got] =>
              /\ task' \in [Tasks -> TaskSet]
              /\ task'[t].pc = "running" /\ task'[t].over = task[t].over
              /\ task'[t].got = got /\ task'[t].alone = task[t].alone
              /\ \A u \in Tasks : u # t => task'[u] = task[u]
         /\ task' = [task EXCEPT ![t].pos = @ + 1, ![t].got = got] =>
              /\ task' \in [Tasks -> TaskSet]
              /\ task'[t].pc = task[t].pc /\ task'[t].over = task[t].over
              /\ task'[t].pos = task[t].pos + 1
              /\ task'[t].got = got /\ task'[t].alone = task[t].alone
              /\ \A u \in Tasks : u # t => task'[u] = task[u]
<1> DEFINE p == task[t]
<1>1. p \in TaskSet
  BY DEF Typed
<1>2. ASSUME task' = [task EXCEPT ![t].pc = "running", ![t].got = got]
      PROVE  /\ task' \in [Tasks -> TaskSet]
             /\ task'[t].pc = "running" /\ task'[t].over = task[t].over
             /\ task'[t].got = got /\ task'[t].alone = task[t].alone
             /\ \A u \in Tasks : u # t => task'[u] = task[u]
  <2> DEFINE r == [pc |-> "running", over |-> p.over, pos |-> p.pos, got |-> p.got,
                   alone |-> p.alone]
             q == [pc |-> "running", over |-> p.over, pos |-> p.pos, got |-> got,
                   alone |-> p.alone]
  <2>1. "running" \in Pcs
    BY DEF Pcs
  <2>2. /\ r \in TaskSet /\ r.pc = "running" /\ r.over = p.over /\ r.pos = p.pos
        /\ r.alone = p.alone
        /\ q \in TaskSet /\ q.pc = "running" /\ q.over = p.over /\ q.got = got
        /\ q.alone = p.alone
    <3> HIDE DEF p
    <3> QED
      BY <1>1, <2>1 DEF TaskSet
  <2>3. [p EXCEPT !.pc = "running"] = r
    <3> HIDE DEF p
    <3> QED
      BY <1>1, <2>1, SetPc
  <2>4. [r EXCEPT !.got = got] = q
    <3>1. [r EXCEPT !.got = got] = [pc |-> r.pc, over |-> r.over, pos |-> r.pos,
                                    got |-> got, alone |-> r.alone]
      <4> HIDE DEF r
      <4> QED
        BY <2>2, SetGot
    <3> HIDE DEF r
    <3> QED
      BY <2>2, <3>1
  <2>5. task' = [task EXCEPT ![t] = [[p EXCEPT !.pc = "running"] EXCEPT !.got = got]]
    BY <1>2, Zenon DEF Typed
  <2>6. task' = [task EXCEPT ![t] = q]
    BY <2>3, <2>4, <2>5, Zenon
  <2> HIDE DEF q
  <2> QED
    BY <2>2, <2>6, TaskStep
<1>3. ASSUME task' = [task EXCEPT ![t].pos = @ + 1, ![t].got = got]
      PROVE  /\ task' \in [Tasks -> TaskSet]
             /\ task'[t].pc = task[t].pc /\ task'[t].over = task[t].over
             /\ task'[t].pos = task[t].pos + 1
             /\ task'[t].got = got /\ task'[t].alone = task[t].alone
             /\ \A u \in Tasks : u # t => task'[u] = task[u]
  <2> DEFINE r == [pc |-> p.pc, over |-> p.over, pos |-> p.pos + 1, got |-> p.got,
                   alone |-> p.alone]
             q == [pc |-> p.pc, over |-> p.over, pos |-> p.pos + 1, got |-> got,
                   alone |-> p.alone]
  <2>2. /\ r \in TaskSet /\ r.pc = p.pc /\ r.over = p.over /\ r.pos = p.pos + 1
        /\ r.alone = p.alone
        /\ q \in TaskSet /\ q.pc = p.pc /\ q.over = p.over /\ q.got = got
        /\ q.pos = p.pos + 1 /\ q.alone = p.alone /\ p.pos + 1 \in Nat
    <3> HIDE DEF p
    <3> QED
      BY <1>1 DEF TaskSet
  <2>3. [p EXCEPT !.pos = p.pos + 1] = r
    <3> HIDE DEF p
    <3> QED
      BY <1>1, <2>2, SetPos
  <2>4. [r EXCEPT !.got = got] = q
    <3>1. [r EXCEPT !.got = got] = [pc |-> r.pc, over |-> r.over, pos |-> r.pos,
                                    got |-> got, alone |-> r.alone]
      <4> HIDE DEF r
      <4> QED
        BY <2>2, SetGot
    <3> HIDE DEF r
    <3> QED
      BY <2>2, <3>1
  <2>5. task' = [task EXCEPT ![t] = [[p EXCEPT !.pos = p.pos + 1] EXCEPT !.got = got]]
    BY <1>3, Zenon DEF Typed
  <2>6. task' = [task EXCEPT ![t] = q]
    BY <2>3, <2>4, <2>5, Zenon
  <2> HIDE DEF q
  <2> QED
    BY <2>2, <2>6, TaskStep
<1> QED
  BY <1>2, <1>3

(* An object whose _index is moved. *)
LEMMA IndexStep ==
  ASSUME Typed, NEW k \in Ids, NEW x \in Nat, objects' = [objects EXCEPT ![k].index = x]
  PROVE  /\ objects' \in Seq(ObjectSet) /\ Len(objects') = Len(objects) /\ Ids' = Ids
         /\ objects'[k].index = x /\ objects'[k].kind = objects[k].kind
         /\ objects'[k].indices = objects[k].indices /\ objects'[k].filter = objects[k].filter
         /\ \A j \in Ids : j # k => objects'[j] = objects[j]
<1> DEFINE o == objects[k]
           q == [kind |-> o.kind, indices |-> o.indices, index |-> x, filter |-> o.filter]
<1>1. o \in ObjectSet
  BY DEF Typed, Ids
<1>2. objects' = [objects EXCEPT ![k] = [o EXCEPT !.index = x]]
  OBVIOUS
<1>3. /\ q \in ObjectSet /\ q.index = x /\ q.kind = o.kind /\ q.indices = o.indices
      /\ q.filter = o.filter
  <2> HIDE DEF o
  <2> QED
    BY <1>1 DEF ObjectSet
<1>4. [o EXCEPT !.index = x] = q
  <2> HIDE DEF o
  <2> QED
    BY <1>1 DEF ObjectSet
<1>5. objects' = [objects EXCEPT ![k] = q]
  BY <1>2, <1>4, Zenon
<1> HIDE DEF q
<1>6. objects \in Seq(ObjectSet) /\ k \in 1..Len(objects)
  BY DEF Typed, Ids
<1>7. objects' \in Seq(ObjectSet) /\ Len(objects') = Len(objects)
  BY <1>3, <1>5, <1>6
<1>8. objects'[k] = q /\ \A j \in Ids : j # k => objects'[j] = objects[j]
  BY <1>5, <1>6 DEF Ids
<1>9. Ids' = Ids
  BY <1>5 DEF Ids
<1> QED
  BY <1>3, <1>7, <1>8, <1>9

-----------------------------------------------------------------------------
(* The parts of the invariant that most steps leave alone.                 *)

(* There are finitely many tasks to move an _index, at most all of them. *)
LEMMA MoversCount ==
  ASSUME NEW k
  PROVE  /\ IsFiniteSet(Movers(k)) /\ Cardinality(Movers(k)) \in Nat
         /\ Cardinality(Movers(k)) <= Cardinality(Tasks)
         /\ Cardinality(Tasks) \in Nat /\ Cardinality(Tasks) >= 1
<1>1. IsFiniteSet(Tasks) /\ Tasks # {} /\ Movers(k) \in SUBSET Tasks
  BY PyReadersAssumption DEF Movers
<1>2. IsFiniteSet(Movers(k)) /\ Cardinality(Movers(k)) <= Cardinality(Tasks)
  BY <1>1, FS_Subset
<1>3. Cardinality(Tasks) \in Nat /\ Cardinality(Tasks) # 0 /\ Cardinality(Movers(k)) \in Nat
  BY <1>1, <1>2, FS_CardinalityType, FS_EmptySet
<1> QED
  BY <1>2, <1>3

(* An object and the tasks that will move its _index. *)
LEMMA ObjectTypes ==
  ASSUME Typed, NEW k \in Ids
  PROVE  /\ objects[k] \in ObjectSet /\ objects[k].indices \in Seq(Index)
         /\ objects[k].index \in Nat /\ Len(objects[k].indices) \in Nat
         /\ Len(objects[k].indices) <= N
         /\ DOMAIN objects[k].indices = 1..Len(objects[k].indices)
<1>1. objects[k] \in ObjectSet
  BY DEF Typed, Ids
<1>2. objects[k].indices \in Lists /\ objects[k].index \in Nat
  BY <1>1 DEF ObjectSet
<1> QED
  BY <1>1, <1>2 DEF Lists

LEMMA MoversKept ==
  ASSUME Typed, MoversInv, UNCHANGED objects, \A k \in Ids : Movers(k)' \subseteq Movers(k)
  PROVE  MoversInv'
<1> SUFFICES ASSUME NEW k \in Ids
             PROVE  objects[k].index + Cardinality(Movers(k)')
                      <= Len(objects[k].indices) + Cardinality(Tasks) - 1
  BY DEF MoversInv, Ids
<1>1. Movers(k)' \in SUBSET Movers(k)
  OBVIOUS
<1>2. Cardinality(Movers(k)') <= Cardinality(Movers(k)) /\ IsFiniteSet(Movers(k)')
  BY <1>1, MoversCount, FS_Subset
<1>3. Cardinality(Movers(k)') \in Nat
  BY <1>2, FS_CardinalityType
<1>4. objects[k].index + Cardinality(Movers(k)) <= Len(objects[k].indices) + Cardinality(Tasks) - 1
  BY DEF MoversInv
<1> QED
  BY <1>2, <1>3, <1>4, MoversCount, ObjectTypes

LEMMA AnswerKept ==
  ASSUME AnswerInv, UNCHANGED <<answer, reader>>, Ids \subseteq Ids',
         \A k \in Ids : /\ objects'[k].kind = objects[k].kind
                        /\ objects'[k].indices = objects[k].indices
  PROVE  AnswerInv'
<1>1. answer # None => answer.over \in Ids
  BY DEF AnswerInv
<1>2. \A op, kind : Asked(op, kind)' <=> Asked(op, kind)
  BY <1>1 DEF Asked
<1>3. answer # None => objects'[answer.over].indices = objects[answer.over].indices
  BY <1>1
<1>4. \A s, types, i : /\ ReadNextOfFile(s, types, i)' = ReadNextOfFile(s, types, i)
                       /\ ReadPrevOfFile(s, types, i)' = ReadPrevOfFile(s, types, i)
  BY DEF ReadNextOfFile, ReadPrevOfFile
<1>5. answer # None => answer'.over \in Ids'
  BY <1>1
<1>6. Asked("next", "reader")' =>
        answer'.result \in ReadNextOfFile(answer.stream, answer.types, answer.index)'
  BY <1>2, <1>4 DEF AnswerInv
<1>7. Asked("prev", "reader")' =>
        answer'.result \in ReadPrevOfFile(answer.stream, answer.types, answer.index)'
  BY <1>2, <1>4 DEF AnswerInv
<1>8. Asked("index", "filtered")' /\ answer'.result[1] = "index" =>
        \E i \in Index : answer'.result =
          <<"index", Max({Bisect(objects'[answer'.over].indices, i) - 1, 0}), i>>
  <2> SUFFICES ASSUME Asked("index", "filtered")', answer'.result[1] = "index"
               PROVE  \E i \in Index : answer.result =
                        <<"index", Max({Bisect(objects[answer.over].indices, i) - 1, 0}), i>>
    BY <1>3 DEF Asked
  <2> QED
    BY <1>2 DEF AnswerInv
<1>9. Asked("stream", "reader")' =>
        /\ answer'.result = <<"info", GetStreamInfo(answer'.stream),
                              InitRecordSummaries.counts[answer'.stream]>>
        /\ answer'.stream \in Streams
  BY <1>2 DEF AnswerInv
<1>10. Asked("infos", "reader")' /\ ~reader'.multi /\ answer'.result[1] = "list" =>
         \E first \in Index, count \in 1..N :
           answer'.result = <<"list", GetRecordsInfo(first, count)>>
  BY <1>2 DEF AnswerInv
<1>11. Asked("size", "reader")' /\ ~reader'.multi =>
         answer'.result = <<"list", InOrder(GetStreamSize(answer'.stream))>>
  BY <1>2 DEF AnswerInv
<1>12. Asked("metadata", "reader")' =>
         answer'.index \in PieceLists /\ IsMetadata(answer'.index, answer'.result)
  BY <1>2 DEF AnswerInv
<1> QED
  BY <1>5, <1>6, <1>7, <1>8, <1>9, <1>10, <1>11, <1>12 DEF AnswerInv

LEMMA NoAnswer == answer' = None => AnswerInv'
  BY DEF AnswerInv, Asked

-----------------------------------------------------------------------------
(* Making objects.                                                         *)

LEMMA MakeStep ==
  ASSUME IInv, NewObject, NEW o \in ObjectSet, objects' = Append(objects, o), o.index = 0,
         o.kind = "filtered" => o.indices = InOrder(Passing(o.filter))
  PROVE  IInv'
<1> DEFINE n == Len(objects)
<1>1. /\ objects \in Seq(ObjectSet) /\ n \in Nat /\ n >= 1 /\ n <= MaxObjects
      /\ MaxObjects \in Nat /\ Ids = 1..n
      /\ UNCHANGED <<reader, task, queue>> /\ answer' = None
  BY PyReadersAssumption DEF IInv, Typed, NewObject, Ids
<1>2. /\ objects' \in Seq(ObjectSet) /\ Len(objects') = n + 1 /\ Ids' = 1..(n + 1)
      /\ objects'[n + 1] = o /\ \A k \in Ids : objects'[k] = objects[k]
  BY <1>1 DEF Ids
<1>3. \A t \in Tasks : task[t].pc = "idle" /\ task[t].over = 0
  BY IdleType DEF NewObject
<1>4. Typed'
  <2>1. Len(objects') \in 1..(MaxObjects + 1)
    BY <1>1, <1>2
  <2> QED
    BY <1>1, <1>2, <1>3, <2>1 DEF IInv, Typed
<1>5. QueueInv'
  BY <1>1 DEF IInv, QueueInv
<1>6. IterInv'
  <2> SUFFICES ASSUME NEW t \in Tasks PROVE AsyncOK(t)' /\ SyncOK(t)'
    BY DEF IterInv
  <2>1. task'[t].pc = "idle"
    BY <1>1, <1>3
  <2> QED
    BY <2>1 DEF AsyncOK, AloneOK, SyncOK
<1>7. MoversInv'
  <2> SUFFICES ASSUME NEW k \in Ids'
               PROVE  objects'[k].index + Cardinality(Movers(k)')
                        <= Len(objects'[k].indices) + Cardinality(Tasks) - 1
    BY DEF MoversInv
  <2>1. Movers(k)' = {} /\ Movers(k) = {}
    BY <1>1, <1>3 DEF Movers
  <2>2. Cardinality(Movers(k)') = 0 /\ Cardinality(Movers(k)) = 0
    BY <2>1, FS_EmptySet
  <2>3. CASE k \in Ids
    BY <1>2, <2>2, <2>3 DEF IInv, MoversInv
  <2>4. CASE k = n + 1
    <3>1. Len(objects'[k].indices) \in Nat
      BY <1>4, <2>4, <1>2 DEF ObjectSet, Lists
    <3> QED
      BY <1>2, <2>2, <2>4, <3>1, MoversCount
  <2> QED
    BY <1>1, <1>2, <2>3, <2>4
<1>8. FilteredInv'
  <2>1. \A k \in Ids' : k \in Ids \/ k = n + 1
    BY <1>1, <1>2
  <2>2. \A f : Passing(f)' = Passing(f)
    BY DEF Passing
  <2> QED
    BY <1>2, <2>1, <2>2 DEF IInv, FilteredInv
<1> QED
  BY <1>1, <1>4, <1>5, <1>6, <1>7, <1>8, NoAnswer DEF IInv

(* A new object starts at its first record. *)
LEMMA ObjectType ==
  ASSUME NEW kind \in {"reader", "filtered", "slice"}, NEW list \in Lists, NEW f \in Filters
  PROVE  /\ Object(kind, list, f) \in ObjectSet
         /\ Object(kind, list, f).kind = kind /\ Object(kind, list, f).indices = list
         /\ Object(kind, list, f).index = 0 /\ Object(kind, list, f).filter = f
  BY DEF Object, ObjectSet

LEMMA FilteredByFieldsStep ==
  ASSUME IInv, NEW call \in FilterCalls, FilteredByFields(call)
  PROVE  IInv'
<1> DEFINE f == RecordFilter(call)
           list == FilteredIndices(f)
           o == Object("filtered", list, f)
<1>1. f \in Filters /\ list = InOrder(Passing(f)) /\ Passing(f) \subseteq Index
  BY RecordFilterType, FilterFindsAll
<1>2. list \in Lists
  BY <1>1, InOrderType
<1> HIDE DEF f, list
<1>3. /\ o \in ObjectSet /\ o.kind = "filtered" /\ o.indices = list /\ o.index = 0
      /\ o.filter = f
  BY <1>1, <1>2, ObjectType
<1>4. NewObject /\ objects' = Append(objects, o)
  BY DEF FilteredByFields, f, list
<1> HIDE DEF o
<1> QED
  BY <1>1, <1>3, <1>4, MakeStep

LEMMA SliceStep ==
  ASSUME IInv, NEW k \in Ids, NEW slice \in SliceCalls, Slice(k, slice)
  PROVE  IInv'
<1> DEFINE list == SliceOf(objects[k].indices, slice)
           f == objects[k].filter
           o == Object("slice", list, f)
<1>1. list \in Lists /\ f \in Filters
  BY SliceType, ObjectTypes DEF IInv, ObjectSet
<1> HIDE DEF f, list
<1>2. o \in ObjectSet /\ o.kind = "slice" /\ o.index = 0
  BY <1>1, ObjectType
<1>3. NewObject /\ objects' = Append(objects, o)
  BY DEF Slice, f, list
<1> HIDE DEF o
<1> QED
  BY <1>2, <1>3, MakeStep

(* A reader just opened. *)
LEMMA InitStep == Init => IInv
<1> SUFFICES ASSUME Init PROVE IInv
  OBVIOUS
<1> DEFINE list == InOrder(Index)
           o == Object("reader", list, WholeFile)
<1>1. list \in Lists
  BY InOrderType
<1> HIDE DEF list
<1>2. o \in ObjectSet /\ o.kind = "reader" /\ o.index = 0 /\ o.indices = list
  BY <1>1, WholeFileType, ObjectType
<1>3. objects = <<o>>
  BY DEF Init, list
<1> HIDE DEF o
<1>4. objects \in Seq(ObjectSet) /\ Len(objects) = 1 /\ Ids = {1} /\ objects[1] = o
  BY <1>2, <1>3 DEF Ids
<1>5. \A t \in Tasks : task[t] = Idle
  BY DEF Init
<1>6. \A t \in Tasks : task[t].pc = "idle" /\ task[t].over = 0
  BY <1>5, IdleType
<1>7. Typed
  <2>1. task \in [Tasks -> TaskSet]
    BY IdleType DEF Init
  <2>2. Len(objects) \in 1..(MaxObjects + 1)
    BY <1>4, PyReadersAssumption
  <2> QED
    BY <1>4, <1>6, <2>1, <2>2 DEF Init, Typed
<1>8. QueueInv
  BY DEF Init, QueueInv
<1>9. IterInv
  BY <1>6 DEF IterInv, AsyncOK, AloneOK, SyncOK
<1>10. MoversInv
  <2> SUFFICES ASSUME NEW k \in Ids
               PROVE  objects[k].index + Cardinality(Movers(k))
                        <= Len(objects[k].indices) + Cardinality(Tasks) - 1
    BY DEF MoversInv
  <2>1. Movers(k) = {}
    BY <1>6 DEF Movers
  <2>2. Cardinality(Movers(k)) = 0
    BY <2>1, FS_EmptySet
  <2>3. Len(objects[k].indices) \in Nat /\ objects[k].index = 0
    BY <1>2, <1>4, <1>7, ObjectTypes
  <2> QED
    BY <2>2, <2>3, MoversCount
<1>11. FilteredInv
  BY <1>2, <1>4 DEF FilteredInv
<1>12. AnswerInv
  BY DEF Init, AnswerInv, Asked
<1> QED
  BY <1>7, <1>8, <1>9, <1>10, <1>11, <1>12 DEF IInv

-----------------------------------------------------------------------------
(* Synchronous iteration.                                                  *)

(* A step of a task that touches neither the objects nor the queue, and    *)
(* does not look at _index: what is left to show of the invariant.         *)
LEMMA OneTaskStep ==
  ASSUME IInv, NEW t \in Tasks, task' \in [Tasks -> TaskSet],
         \A u \in Tasks : u # t => task'[u] = task[u],
         UNCHANGED <<reader, objects, queue>>, answer' = None \/ UNCHANGED answer,
         task'[t].over \in Ids \cup {0}, task'[t].pc # "idle" => task'[t].over \in Ids,
         task'[t].pc # "next", task[t].pc \notin {"next", "item"},
         reader.async => AsyncOK(t)', ~reader.async => SyncOK(t)',
         task'[t].pc = "running" /\ reader.async => task[t].pc = "running" /\ task'[t].over = task[t].over
  PROVE  IInv'
<1>1. Typed'
  BY DEF IInv, Typed, Ids
<1>2. QueueInv'
  <2>1. \A i \in DOMAIN queue : queue[i][1] \in Tasks
    BY DEF IInv, Typed
  <2>2. \A i \in DOMAIN queue : queue[i][1] # t
    BY DEF IInv, QueueInv
  <2> QED
    BY <2>1, <2>2 DEF IInv, QueueInv
<1>3. IterInv'
  <2> SUFFICES ASSUME NEW u \in Tasks, u # t
               PROVE  IF reader.async THEN AsyncOK(u)' ELSE SyncOK(u)'
    BY DEF IterInv
  <2>1. task'[u] = task[u] /\ Over(u)' = Over(u)
    BY DEF Over
  <2>2. CASE ~reader.async
    BY <2>1, <2>2 DEF IInv, IterInv, SyncOK
  <2>3. CASE reader.async
    <3>1. AsyncOK(u)
      BY <2>3 DEF IInv, IterInv
    <3>2. ASSUME IteratingOver(task[u].over) = {u} PROVE IteratingOver(task[u].over)' = {u}
      <4>1. IteratingOver(task[u].over)' \subseteq IteratingOver(task[u].over)
        BY <2>3 DEF IteratingOver
      <4>2. u \in IteratingOver(task[u].over)'
        BY <2>1, <3>2 DEF IteratingOver
      <4> QED
        BY <3>2, <4>1, <4>2
    <3>3. AloneOK(u) => AloneOK(u)'
      <4> SUFFICES ASSUME AloneOK(u) PROVE AloneOK(u)'
        OBVIOUS
      <4>1. task[u].pc \in {"running", "next"} => IteratingOver(task[u].over)' = {u}
        BY <3>2 DEF AloneOK
      <4> QED
        BY <2>1, <4>1 DEF AloneOK
    <3> QED
      BY <2>1, <2>3, <3>1, <3>3 DEF AsyncOK
  <2> QED
    BY <2>2, <2>3
<1>4. MoversInv'
  <2>1. \A k \in Ids : Movers(k)' \subseteq Movers(k)
    BY DEF Movers
  <2> QED
    BY <2>1, MoversKept DEF IInv
<1>5. FilteredInv'
  <2>1. \A f : Passing(f)' = Passing(f)
    BY DEF Passing
  <2> QED
    BY <2>1 DEF IInv, FilteredInv, Ids
<1>6. AnswerInv'
  <2>1. CASE answer' = None
    BY <2>1, NoAnswer
  <2>2. CASE UNCHANGED answer
    BY <2>2, AnswerKept DEF IInv, Ids
  <2> QED
    BY <2>1, <2>2
<1> QED
  BY <1>1, <1>2, <1>3, <1>4, <1>5, <1>6 DEF IInv

(* The record a generator or an iteration gets is the next one of its      *)
(* object, or it has gone astray.                                          *)
LEMMA GotType ==
  ASSUME Typed, NEW t \in Tasks, task[t].over \in Ids, NEW record
  PROVE  /\ Got(t, record) \in Astray..N
         /\ task[t].got \in 0..(Len(Over(t).indices) - 1) /\ Over(t).indices[task[t].got + 1] = record
              => Got(t, record) = task[t].got + 1
<1>1. Len(Over(t).indices) \in Nat /\ Len(Over(t).indices) <= N
  BY ObjectTypes DEF Over
<1>2. task[t].got \in Astray..N
  BY DEF Typed, TaskSet
<1>3. Got(t, record) =
        IF task[t].got \in 0..(Len(Over(t).indices) - 1)
             /\ Over(t).indices[task[t].got + 1] = record
          THEN task[t].got + 1 ELSE Astray
  BY DEF Got, Over
<1> QED
  BY <1>1, <1>2, <1>3, RecordIndexAssumption DEF Astray

LEMMA IterSyncStep ==
  ASSUME IInv, NEW t \in Tasks, NEW k \in Ids, IterSync(t, k)
  PROVE  IInv'
<1>1. /\ ~reader.async /\ task[t].pc = "idle" /\ k \in Nat /\ "running" \in Pcs
      /\ task' = [task EXCEPT ![t] = [Idle EXCEPT !.pc = "running", !.over = k]]
      /\ answer' = None /\ UNCHANGED <<reader, objects, queue>>
  BY DEF IterSync, IInv, Typed, Ids, Pcs
<1>2. /\ task' \in [Tasks -> TaskSet]
      /\ task'[t].pc = "running" /\ task'[t].over = k /\ task'[t].pos = 0 /\ task'[t].got = 0
      /\ \A u \in Tasks : u # t => task'[u] = task[u]
  BY <1>1, StartStep DEF IInv
<1>3. Len(Over(t)'.indices) \in Nat
  BY <1>1, <1>2, ObjectTypes DEF IInv, Over
<1>4. SyncOK(t)'
  BY <1>2, <1>3 DEF SyncOK
<1> QED
  BY <1>1, <1>2, <1>4, OneTaskStep

LEMMA NextSyncStep ==
  ASSUME IInv, NEW t \in Tasks, NextSync(t)
  PROVE  IInv'
<1> DEFINE n == Len(Over(t).indices)
<1>1. /\ ~reader.async /\ task[t].pc = "running" /\ UNCHANGED <<reader, objects, queue, answer>>
      /\ task' = IF task[t].pos = n
                   THEN [task EXCEPT ![t].pc = "done"]
                   ELSE [task EXCEPT ![t].pos = @ + 1,
                                     ![t].got = Got(t, Over(t).indices[task[t].pos + 1])]
  BY DEF NextSync, Over
<1>2. task[t].over \in Ids /\ "done" \in Pcs
  BY <1>1 DEF IInv, Typed, Pcs
<1>3. task[t].got = task[t].pos /\ task[t].pos \in 0..n /\ n \in Nat
  BY <1>1, <1>2, ObjectTypes DEF IInv, IterInv, SyncOK, Over
<1>4. CASE task[t].pos = n
  <2>1. task' = [task EXCEPT ![t].pc = "done"]
    BY <1>1, <1>4
  <2>2. /\ task' \in [Tasks -> TaskSet] /\ task'[t].pc = "done"
        /\ task'[t].over = task[t].over /\ task'[t].got = task[t].got
        /\ \A u \in Tasks : u # t => task'[u] = task[u]
    BY <1>2, <2>1, PcStep DEF IInv
  <2>3. Over(t)' = Over(t)
    BY <1>1, <2>2 DEF Over
  <2>4. SyncOK(t)'
    BY <1>3, <1>4, <2>2, <2>3 DEF SyncOK
  <2> QED
    BY <1>1, <1>2, <2>2, <2>4, OneTaskStep
<1>5. CASE task[t].pos # n
  <2> DEFINE got == Got(t, Over(t).indices[task[t].pos + 1])
  <2>1. task' = [task EXCEPT ![t].pos = @ + 1, ![t].got = got]
    BY <1>1, <1>5
  <2>2. got \in Astray..N /\ got = task[t].got + 1
    BY <1>2, <1>3, <1>5, GotType DEF IInv
  <2> HIDE DEF got
  <2>3. /\ task' \in [Tasks -> TaskSet] /\ task'[t].pc = "running"
        /\ task'[t].over = task[t].over /\ task'[t].got = got /\ task'[t].pos = task[t].pos + 1
        /\ \A u \in Tasks : u # t => task'[u] = task[u]
    <3>1. Typed
      BY DEF IInv
    <3>2. /\ task' \in [Tasks -> TaskSet] /\ task'[t].pc = task[t].pc
          /\ task'[t].over = task[t].over /\ task'[t].pos = task[t].pos + 1
          /\ task'[t].got = got /\ \A u \in Tasks : u # t => task'[u] = task[u]
      BY <2>1, <2>2, <3>1, GotStep, Zenon
    <3> QED
      BY <1>1, <3>2
  <2>4. Over(t)' = Over(t)
    BY <1>1, <2>3 DEF Over
  <2>5. SyncOK(t)'
    BY <1>3, <1>5, <2>2, <2>3, <2>4 DEF SyncOK
  <2> QED
    BY <1>1, <1>2, <2>3, <2>5, OneTaskStep
<1> QED
  BY <1>4, <1>5

LEMMA LeaveStep ==
  ASSUME IInv, NEW t \in Tasks, Leave(t)
  PROVE  IInv'
<1>1. /\ task[t].pc \in {"running", "done", "failed"} /\ task' = [task EXCEPT ![t] = Idle]
      /\ UNCHANGED <<reader, objects, queue, answer>>
  BY DEF Leave
<1>2. /\ task' \in [Tasks -> TaskSet] /\ task'[t].pc = "idle" /\ task'[t].over = 0
      /\ \A u \in Tasks : u # t => task'[u] = task[u]
  BY <1>1, IdleType, TaskStep DEF IInv
<1>3. AsyncOK(t)' /\ SyncOK(t)'
  BY <1>2 DEF AsyncOK, AloneOK, SyncOK
<1> QED
  BY <1>1, <1>2, <1>3, OneTaskStep

-----------------------------------------------------------------------------
(* Asynchronous iteration.                                                 *)

(* A read that is awaited, at the end of the queue. *)
LEMMA ReadAwaited ==
  ASSUME Typed, QueueInv, NEW t \in Tasks, NEW r \in Index,
         task[t].pc \notin {"next", "item"}, queue' = Append(queue, <<t, r>>)
  PROVE  /\ queue' \in Seq(Tasks \X Index)
         /\ \A i \in DOMAIN queue' : \/ queue'[i] = <<t, r>>
                                     \/ /\ queue'[i][1] \in Tasks \ {t}
                                        /\ \E j \in DOMAIN queue : queue[j] = queue'[i]
         /\ \A i, j \in DOMAIN queue' : queue'[i][1] = queue'[j][1] => i = j
<1> DEFINE n == Len(queue)
<1>1. /\ queue \in Seq(Tasks \X Index) /\ n \in Nat /\ DOMAIN queue = 1..n
      /\ \A i \in 1..n : queue[i][1] \in Tasks \ {t}
  BY DEF Typed, QueueInv
<1>2. /\ queue' \in Seq(Tasks \X Index) /\ DOMAIN queue' = 1..(n + 1)
      /\ queue'[n + 1] = <<t, r>> /\ \A i \in 1..n : queue'[i] = queue[i]
  BY <1>1
<1>3. \A i \in 1..(n + 1) : i \in 1..n \/ i = n + 1
  BY <1>1
<1>4. queue'[n + 1][1] = t
  BY <1>2
<1>5. ASSUME NEW i \in DOMAIN queue', NEW j \in DOMAIN queue', queue'[i][1] = queue'[j][1]
      PROVE  i = j
  <2>1. CASE i \in 1..n /\ j \in 1..n
    BY <1>1, <1>2, <1>5, <2>1 DEF QueueInv
  <2>2. CASE i = n + 1 \/ j = n + 1
    BY <1>1, <1>2, <1>3, <1>4, <1>5, <2>2
  <2> QED
    BY <1>2, <1>3, <2>1, <2>2
<1>6. \A i \in DOMAIN queue' : \/ queue'[i] = <<t, r>>
                               \/ /\ queue'[i][1] \in Tasks \ {t}
                                  /\ \E j \in DOMAIN queue : queue[j] = queue'[i]
  BY <1>1, <1>2, <1>3
<1> QED
  BY <1>2, <1>5, <1>6

(* A sequence without one of its elements. *)
LEMMA Removed ==
  ASSUME NEW S, NEW q \in Seq(S), NEW m \in 1..Len(q)
  PROVE  /\ RemoveAt(q, m) \in Seq(S) /\ Len(RemoveAt(q, m)) = Len(q) - 1
         /\ \A i \in 1..(Len(q) - 1) : RemoveAt(q, m)[i] = q[IF i < m THEN i ELSE i + 1]
<1> DEFINE n == Len(q)
           front == SubSeq(q, 1, m - 1)
           back == SubSeq(q, m + 1, n)
<1>1. n \in Nat
  OBVIOUS
<1>2. front \in Seq(S) /\ Len(front) = m - 1 /\ \A i \in 1..(m - 1) : front[i] = q[i]
  BY <1>1
<1>3. back \in Seq(S) /\ Len(back) = n - m /\ \A i \in 1..(n - m) : back[i] = q[m + i]
  BY <1>1
<1>4. RemoveAt(q, m) = front \o back
  BY DEF RemoveAt
<1> HIDE DEF n, front, back
<1>5. front \o back \in Seq(S) /\ Len(front \o back) = n - 1
  <2>1. front \o back \in Seq(S) /\ Len(front \o back) = Len(front) + Len(back)
    BY <1>2, <1>3, ConcatProperties
  <2>2. Len(front) + Len(back) = n - 1
    BY <1>1, <1>2, <1>3 DEF n
  <2> QED
    BY <2>1, <2>2
<1>6. ASSUME NEW i \in 1..(n - 1)
      PROVE  (front \o back)[i] = q[IF i < m THEN i ELSE i + 1]
  <2>1. CASE i < m
    <3>1. i \in 1..Len(front)
      BY <1>1, <1>2, <2>1 DEF n
    <3>2. (front \o back)[i] = front[i]
      BY <1>2, <1>3, <3>1
    <3> QED
      BY <1>2, <2>1, <3>1, <3>2
  <2>2. CASE ~(i < m)
    <3>1. i - (m - 1) \in 1..(n - m) /\ m + (i - (m - 1)) = i + 1
      BY <1>1, <2>2 DEF n
    <3>2. i \in (Len(front) + 1)..(Len(front) + Len(back))
      BY <1>1, <1>2, <1>3, <2>2 DEF n
    <3>3. (front \o back)[i] = back[i - Len(front)]
      BY <1>2, <1>3, <3>2
    <3> QED
      BY <1>2, <1>3, <2>2, <3>1, <3>3
  <2> QED
    BY <2>1, <2>2
<1>7. \A i \in 1..(n - 1) : RemoveAt(q, m)[i] = q[IF i < m THEN i ELSE i + 1]
  BY <1>4, <1>6, Zenon
<1>8. RemoveAt(q, m) \in Seq(S) /\ Len(RemoveAt(q, m)) = n - 1
  BY <1>4, <1>5, Zenon
<1> QED
  BY <1>7, <1>8 DEF n

(* The tasks whose reads are in the queue still await them.                *)
LEMMA QueueKept ==
  ASSUME Typed, QueueInv, NEW t \in Tasks, \A u \in Tasks : u # t => task'[u] = task[u],
         \A i \in DOMAIN queue' :
           \/ queue'[i][1] = t /\ task'[t].pc \in {"next", "item"}
           \/ /\ queue'[i][1] \in Tasks \ {t}
              /\ \E j \in DOMAIN queue : queue[j] = queue'[i],
         \A i, j \in DOMAIN queue' : queue'[i][1] = queue'[j][1] => i = j
  PROVE  QueueInv'
<1> SUFFICES ASSUME NEW i \in DOMAIN queue' PROVE task'[queue'[i][1]].pc \in {"next", "item"}
  BY DEF QueueInv
<1>1. CASE queue'[i][1] = t /\ task'[t].pc \in {"next", "item"}
  BY <1>1
<1>2. CASE queue'[i][1] \in Tasks \ {t} /\ \E j \in DOMAIN queue : queue[j] = queue'[i]
  BY <1>2 DEF QueueInv
<1> QED
  BY <1>1, <1>2

(* A read that leaves the queue, from its front or from within.            *)
LEMMA ReadLeaves ==
  ASSUME Typed, QueueInv, NEW m \in DOMAIN queue,
         queue' = RemoveAt(queue, m) \/ (m = 1 /\ queue' = Tail(queue))
  PROVE  /\ queue' \in Seq(Tasks \X Index)
         /\ \A i \in DOMAIN queue' : /\ queue'[i][1] \in Tasks \ {queue[m][1]}
                                     /\ \E j \in DOMAIN queue : queue[j] = queue'[i]
         /\ \A i, j \in DOMAIN queue' : queue'[i][1] = queue'[j][1] => i = j
<1> DEFINE n == Len(queue)
           from(i) == IF i < m THEN i ELSE i + 1
<1>1. /\ queue \in Seq(Tasks \X Index) /\ n \in Nat /\ DOMAIN queue = 1..n /\ m \in 1..n
      /\ \A i \in 1..n : queue[i][1] \in Tasks
  BY DEF Typed
<1>2. /\ queue' \in Seq(Tasks \X Index) /\ DOMAIN queue' = 1..(n - 1)
      /\ \A i \in 1..(n - 1) : queue'[i] = queue[from(i)]
  <2>1. CASE m = 1 /\ queue' = Tail(queue)
    BY <1>1, <2>1
  <2>2. CASE queue' = RemoveAt(queue, m)
    <3> DEFINE R == Tasks \X Index
    <3>1. queue \in Seq(R)
      BY <1>1
    <3> HIDE DEF R
    <3>2. /\ RemoveAt(queue, m) \in Seq(R) /\ Len(RemoveAt(queue, m)) = n - 1
          /\ \A i \in 1..(n - 1) : RemoveAt(queue, m)[i] = queue[from(i)]
      BY <1>1, <3>1, Removed
    <3>3. queue' \in Seq(R) /\ Len(queue') = n - 1 /\ \A i \in 1..(n - 1) : queue'[i] = queue[from(i)]
      BY <2>2, <3>2
    <3>4. DOMAIN queue' = 1..(n - 1)
      BY <3>3
    <3> QED
      BY <3>3, <3>4 DEF R
  <2> QED
    BY <2>1, <2>2
<1>3. ASSUME NEW i \in 1..(n - 1) PROVE from(i) \in 1..n /\ from(i) # m
  BY <1>1
<1>4. ASSUME NEW i \in 1..(n - 1), NEW j \in 1..(n - 1), from(i) = from(j) PROVE i = j
  BY <1>1, <1>4
<1> HIDE DEF from
<1>5. \A i \in 1..(n - 1) : queue[from(i)][1] # queue[m][1]
  BY <1>1, <1>3 DEF QueueInv
<1>6. ASSUME NEW i \in DOMAIN queue', NEW j \in DOMAIN queue', queue'[i][1] = queue'[j][1]
      PROVE  i = j
  <2>1. from(i) = from(j)
    BY <1>1, <1>2, <1>3, <1>6 DEF QueueInv
  <2> QED
    BY <1>2, <1>4, <2>1
<1> QED
  BY <1>1, <1>2, <1>3, <1>5, <1>6

(* The objects are the same but for their _index.                          *)
LEMMA RestKept ==
  ASSUME IInv, UNCHANGED reader, Ids' = Ids, answer' = None \/ UNCHANGED answer,
         \A k \in Ids : /\ objects'[k].kind = objects[k].kind
                        /\ objects'[k].indices = objects[k].indices
                        /\ objects'[k].filter = objects[k].filter
  PROVE  FilteredInv' /\ AnswerInv'
<1>1. FilteredInv'
  <2>1. \A f : Passing(f)' = Passing(f)
    BY DEF Passing
  <2> QED
    BY <2>1 DEF IInv, FilteredInv
<1>2. CASE answer' = None
  BY <1>1, <1>2, NoAnswer
<1>3. CASE UNCHANGED answer
  BY <1>1, <1>3, AnswerKept DEF IInv
<1> QED
  BY <1>2, <1>3

(* What one task does leaves alone an iteration of another one that is     *)
(* alone over its object.                                                  *)
LEMMA OtherKept ==
  ASSUME IInv, reader.async, NEW t \in Tasks, NEW u \in Tasks, u # t,
         \A v \in Tasks : v # t => task'[v] = task[v],
         task'[t].pc \in {"running", "next"} =>
           task[t].pc \in {"running", "next"} /\ task'[t].over = task[t].over,
         \A i \in DOMAIN queue' :
           queue'[i][1] = u => \E j \in DOMAIN queue : queue[j] = queue'[i],
         \A k \in Ids : /\ objects'[k].indices = objects[k].indices
                        /\ objects'[k].index = objects[k].index \/ t \in IteratingOver(k)
  PROVE  AsyncOK(u)'
<1>1. task'[u] = task[u]
  OBVIOUS
<1> SUFFICES ASSUME task[u].alone PROVE AloneOK(u)'
  BY <1>1 DEF AsyncOK
<1>2. AloneOK(u)
  BY DEF IInv, IterInv, AsyncOK
<1>3. task[u].pc # "idle" => task[u].over \in Ids
  BY DEF IInv, Typed
<1>4. task[u].pc # "idle" => Over(u)'.indices = Over(u).indices
  BY <1>1, <1>3 DEF Over
<1>5. task[u].pc \in {"running", "next"} =>
        Over(u)'.index = Over(u).index /\ IteratingOver(task[u].over)' = {u}
  <2> SUFFICES ASSUME task[u].pc \in {"running", "next"}
               PROVE  Over(u)'.index = Over(u).index /\ IteratingOver(task[u].over)' = {u}
    OBVIOUS
  <2>1. IteratingOver(task[u].over) = {u}
    BY <1>2 DEF AloneOK
  <2>2. IteratingOver(task[u].over)' \subseteq IteratingOver(task[u].over)
    BY DEF IteratingOver
  <2>3. u \in IteratingOver(task[u].over)'
    BY <1>1 DEF IteratingOver
  <2>4. t \notin IteratingOver(task[u].over)
    BY <2>1
  <2>5. Over(u)'.index = Over(u).index
    BY <1>1, <1>3, <2>4 DEF Over
  <2> QED
    BY <2>1, <2>2, <2>3, <2>5
<1>6. ASSUME task[u].pc = "next", NEW i \in DOMAIN queue', queue'[i][1] = u
      PROVE  queue'[i][2] = Over(u).indices[task[u].got + 1]
  <2>1. PICK j \in DOMAIN queue : queue[j] = queue'[i]
    BY <1>6
  <2> QED
    BY <1>2, <1>6, <2>1 DEF AloneOK
<1> QED
  BY <1>1, <1>2, <1>4, <1>5, <1>6 DEF AloneOK

LEMMA AwaitItemStep ==
  ASSUME IInv, NEW t \in Tasks, NEW k \in Ids, NEW i \in Items, AwaitItem(t, k, i)
  PROVE  IInv'
<1> DEFINE n == Len(objects[k].indices)
           at == (IF i < 0 THEN i + n ELSE i) + 1
           r == objects[k].indices[at]
<1>1. /\ reader.async /\ task[t].pc = "idle" /\ i \in -n..(n - 1)
      /\ task' = [task EXCEPT ![t] = [Idle EXCEPT !.pc = "item", !.over = k]]
      /\ queue' = Append(queue, <<t, r>>) /\ answer' = None /\ UNCHANGED <<reader, objects>>
  BY DEF AwaitItem
<1>2. Typed /\ QueueInv /\ MoversInv
  BY DEF IInv
<1>3. r \in Index
  <2>1. i \in Int /\ n \in Nat /\ objects[k].indices \in Seq(Index)
    BY <1>2, ObjectTypes, PyReadersAssumption
  <2>2. at \in 1..n
    BY <1>1, <2>1
  <2> QED
    BY <2>1, <2>2
<1> HIDE DEF r
<1>4. k \in Nat /\ "item" \in Pcs
  BY <1>2 DEF Typed, Ids, Pcs
<1>5. /\ task' \in [Tasks -> TaskSet] /\ task'[t].pc = "item" /\ task'[t].over = k
      /\ \A u \in Tasks : u # t => task'[u] = task[u]
  BY <1>1, <1>2, <1>4, StartStep
<1>6. /\ queue' \in Seq(Tasks \X Index)
      /\ \A j \in DOMAIN queue' : \/ queue'[j] = <<t, r>>
                                  \/ /\ queue'[j][1] \in Tasks \ {t}
                                     /\ \E l \in DOMAIN queue : queue[l] = queue'[j]
      /\ \A j, l \in DOMAIN queue' : queue'[j][1] = queue'[l][1] => j = l
  BY <1>1, <1>2, <1>3, ReadAwaited
<1>7. Ids' = Ids /\ Typed'
  BY <1>1, <1>2, <1>5, <1>6 DEF Typed, Ids
<1>8. QueueInv'
  <2>1. <<t, r>>[1] = t
    OBVIOUS
  <2>2. \A j \in DOMAIN queue' :
          \/ queue'[j][1] = t /\ task'[t].pc \in {"next", "item"}
          \/ /\ queue'[j][1] \in Tasks \ {t}
             /\ \E l \in DOMAIN queue : queue[l] = queue'[j]
    BY <1>5, <1>6, <2>1
  <2> QED
    BY <1>2, <1>5, <1>6, <2>2, QueueKept
<1>9. IterInv'
  <2> SUFFICES ASSUME NEW u \in Tasks PROVE AsyncOK(u)'
    BY <1>1 DEF IterInv
  <2>1. CASE u = t
    BY <1>5, <2>1 DEF AsyncOK, AloneOK
  <2>2. CASE u # t
    <3>1. \A j \in DOMAIN queue' :
            queue'[j][1] = u => \E l \in DOMAIN queue : queue[l] = queue'[j]
      BY <1>6, <2>2
    <3> QED
      BY <1>1, <1>5, <2>2, <3>1, OtherKept
  <2> QED
    BY <2>1, <2>2
<1>10. MoversInv'
  <2>1. \A j \in Ids : Movers(j)' \subseteq Movers(j)
    BY <1>5 DEF Movers
  <2> QED
    BY <1>1, <1>2, <2>1, MoversKept
<1>11. FilteredInv' /\ AnswerInv'
  BY <1>1, <1>7, RestKept
<1> QED
  BY <1>7, <1>8, <1>9, <1>10, <1>11 DEF IInv

LEMMA CancelStep ==
  ASSUME IInv, NEW t \in Tasks, Cancel(t)
  PROVE  IInv'
<1>1. /\ task[t].pc \in {"next", "item"} /\ task' = [task EXCEPT ![t] = Idle]
      /\ UNCHANGED <<reader, objects, answer>>
  BY DEF Cancel
<1>2. PICK m \in DOMAIN queue : queue[m][1] = t /\ queue' = RemoveAt(queue, m)
  BY DEF Cancel
<1>3. Typed /\ QueueInv /\ MoversInv
  BY DEF IInv
<1>4. /\ task' \in [Tasks -> TaskSet] /\ task'[t].pc = "idle" /\ task'[t].over = 0
      /\ \A u \in Tasks : u # t => task'[u] = task[u]
  BY <1>1, <1>3, IdleType, TaskStep
<1>5. /\ queue' \in Seq(Tasks \X Index)
      /\ \A i \in DOMAIN queue' : /\ queue'[i][1] \in Tasks \ {t}
                                  /\ \E j \in DOMAIN queue : queue[j] = queue'[i]
      /\ \A i, j \in DOMAIN queue' : queue'[i][1] = queue'[j][1] => i = j
  BY <1>2, <1>3, ReadLeaves
<1>6. Ids' = Ids /\ Typed'
  BY <1>1, <1>3, <1>4, <1>5 DEF Typed, Ids
<1>7. QueueInv'
  BY <1>3, <1>4, <1>5, QueueKept
<1>8. IterInv'
  <2> SUFFICES ASSUME NEW u \in Tasks
               PROVE  IF reader.async THEN AsyncOK(u)' ELSE SyncOK(u)'
    BY <1>1 DEF IterInv
  <2>1. reader.async
    BY <1>1 DEF IInv, IterInv, SyncOK
  <2>2. CASE u = t
    BY <1>4, <2>1, <2>2 DEF AsyncOK, AloneOK
  <2>3. CASE u # t
    BY <1>1, <1>4, <1>5, <2>1, <2>3, OtherKept
  <2> QED
    BY <2>1, <2>2, <2>3
<1>9. MoversInv'
  <2>1. \A k \in Ids : Movers(k)' \subseteq Movers(k)
    BY <1>4 DEF Movers
  <2> QED
    BY <1>1, <1>3, <2>1, MoversKept
<1>10. FilteredInv' /\ AnswerInv'
  BY <1>1, <1>6, RestKept
<1> QED
  BY <1>6, <1>7, <1>8, <1>9, <1>10 DEF IInv

LEMMA AnextStep ==
  ASSUME IInv, NEW t \in Tasks, Anext(t)
  PROVE  IInv'
<1> DEFINE n == Len(Over(t).indices)
           x == Over(t).index
           pc == IF x = n THEN "done" ELSE "failed"
           r == Over(t).indices[x + 1]
<1>1. /\ reader.async /\ task[t].pc = "running" /\ UNCHANGED <<reader, objects, answer>>
      /\ IF x >= n THEN task' = [task EXCEPT ![t].pc = pc] /\ UNCHANGED queue
                   ELSE /\ task' = [task EXCEPT ![t].pc = "next"]
                        /\ queue' = Append(queue, <<t, r>>)
  BY DEF Anext, Over
<1>2. Typed /\ QueueInv /\ MoversInv /\ AsyncOK(t)
  BY <1>1 DEF IInv, IterInv
<1>3. /\ task[t].over \in Ids /\ n \in Nat /\ x \in Nat
      /\ Over(t).indices \in Seq(Index)
  BY <1>1, <1>2, ObjectTypes DEF Typed, Over
<1>4. task[t].alone =>
        /\ task[t].got = x /\ task[t].got \in 0..n /\ IteratingOver(task[t].over) = {t}
  BY <1>1, <1>2 DEF AsyncOK, AloneOK
<1>5. CASE x >= n
  <2>1. pc \in Pcs /\ pc \in {"done", "failed"}
    BY DEF Pcs
  <2>2. /\ task' \in [Tasks -> TaskSet] /\ task'[t].pc = pc
        /\ task'[t].over = task[t].over /\ task'[t].got = task[t].got
        /\ task'[t].alone = task[t].alone
        /\ \A u \in Tasks : u # t => task'[u] = task[u]
    <3>1. task' = [task EXCEPT ![t].pc = pc]
      BY <1>1, <1>5
    <3> HIDE DEF pc
    <3> QED
      BY <1>2, <2>1, <3>1, PcStep
  <2>3. Over(t)' = Over(t)
    BY <1>1, <2>2 DEF Over
  <2>4. AsyncOK(t)'
    <3> SUFFICES ASSUME task[t].alone PROVE AloneOK(t)'
      BY <2>2 DEF AsyncOK
    <3>1. task[t].got = n /\ x = n
      BY <1>3, <1>4, <1>5
    <3>2. task'[t].pc = "done" /\ task'[t].got = Len(Over(t)'.indices)
      BY <2>2, <2>3, <3>1
    <3> QED
      BY <3>2 DEF AloneOK
  <2>5. UNCHANGED queue
    BY <1>1, <1>5
  <2> HIDE DEF pc
  <2> QED
    BY <1>1, <1>3, <2>1, <2>2, <2>4, <2>5, OneTaskStep
<1>6. CASE ~(x >= n)
  <2>1. task' = [task EXCEPT ![t].pc = "next"] /\ queue' = Append(queue, <<t, r>>)
    BY <1>1, <1>6
  <2>2. /\ task' \in [Tasks -> TaskSet] /\ task'[t].pc = "next"
        /\ task'[t].over = task[t].over /\ task'[t].got = task[t].got
        /\ task'[t].alone = task[t].alone
        /\ \A u \in Tasks : u # t => task'[u] = task[u]
    <3>1. "next" \in Pcs
      BY DEF Pcs
    <3> QED
      BY <1>2, <2>1, <3>1, PcStep
  <2>3. x < n /\ x + 1 \in 1..n /\ r \in Index
    BY <1>3, <1>6
  <2>4. Over(t)' = Over(t)
    BY <1>1, <2>2 DEF Over
  <2>5. r = Over(t)'.indices[x + 1] /\ x = Over(t)'.index /\ n = Len(Over(t)'.indices)
    BY <2>4
  <2> HIDE DEF r
  <2>6. /\ queue' \in Seq(Tasks \X Index)
        /\ \A i \in DOMAIN queue' : \/ queue'[i] = <<t, r>>
                                    \/ /\ queue'[i][1] \in Tasks \ {t}
                                       /\ \E j \in DOMAIN queue : queue[j] = queue'[i]
        /\ \A i, j \in DOMAIN queue' : queue'[i][1] = queue'[j][1] => i = j
    BY <1>1, <1>2, <2>1, <2>3, ReadAwaited
  <2>7. Ids' = Ids /\ Typed'
    BY <1>1, <1>2, <1>3, <2>2, <2>6 DEF Typed, Ids
  <2>8. <<t, r>>[1] = t /\ <<t, r>>[2] = r
    OBVIOUS
  <2>9. QueueInv'
    <3>1. \A i \in DOMAIN queue' :
            \/ queue'[i][1] = t /\ task'[t].pc \in {"next", "item"}
            \/ /\ queue'[i][1] \in Tasks \ {t}
               /\ \E j \in DOMAIN queue : queue[j] = queue'[i]
      BY <2>2, <2>6, <2>8
    <3> QED
      BY <1>2, <2>2, <2>6, <3>1, QueueKept
  <2>10. IterInv'
    <3> SUFFICES ASSUME NEW u \in Tasks PROVE AsyncOK(u)'
      BY <1>1 DEF IterInv
    <3>1. CASE u = t
      <4> SUFFICES ASSUME task[t].alone PROVE AloneOK(t)'
        BY <2>2, <3>1 DEF AsyncOK
      <4>1. task'[t].got = x /\ task'[t].got \in 0..n /\ task'[t].got < n
        BY <1>4, <2>2, <2>3
      <4>2. IteratingOver(task[t].over)' = {t}
        BY <1>1, <1>4, <2>2 DEF IteratingOver
      <4>3. \A i \in DOMAIN queue' :
              queue'[i][1] = t => queue'[i][2] = Over(t)'.indices[task'[t].got + 1]
        BY <2>5, <2>6, <2>8, <4>1
      <4> QED
        BY <2>2, <2>5, <4>1, <4>2, <4>3 DEF AloneOK
    <3>2. CASE u # t
      <4>1. \A i \in DOMAIN queue' :
              queue'[i][1] = u => \E j \in DOMAIN queue : queue[j] = queue'[i]
        BY <2>6, <2>8, <3>2
      <4> QED
        BY <1>1, <2>2, <3>2, <4>1, OtherKept
    <3> QED
      BY <3>1, <3>2
  <2>11. MoversInv'
    <3> SUFFICES ASSUME NEW k \in Ids
                 PROVE  objects[k].index + Cardinality(Movers(k)')
                          <= Len(objects[k].indices) + Cardinality(Tasks) - 1
      BY <1>1, <2>7 DEF MoversInv
    <3>1. /\ IsFiniteSet(Tasks) /\ Cardinality(Tasks) \in Nat /\ Movers(k)' \in SUBSET Tasks
          /\ objects[k].index \in Nat /\ Len(objects[k].indices) \in Nat
          /\ Cardinality(Movers(k)) \in Nat
      BY <1>2, MoversCount, ObjectTypes, PyReadersAssumption DEF Movers
    <3>2. Cardinality(Movers(k)') \in Nat /\ Cardinality(Movers(k)') <= Cardinality(Tasks)
      BY <3>1, FS_Subset, FS_CardinalityType
    <3>3. CASE k = task[t].over
      <4>1. objects[k].index < Len(objects[k].indices)
        BY <2>3, <3>3 DEF Over
      <4> QED
        BY <3>1, <3>2, <4>1
    <3>4. CASE k # task[t].over
      <4>1. Movers(k)' = Movers(k)
        BY <1>1, <2>2, <3>4 DEF Movers
      <4> QED
        BY <1>2, <4>1 DEF MoversInv
    <3> QED
      BY <3>3, <3>4
  <2>12. FilteredInv' /\ AnswerInv'
    BY <1>1, <2>7, RestKept
  <2> QED
    BY <2>7, <2>9, <2>10, <2>11, <2>12 DEF IInv
<1> QED
  BY <1>5, <1>6

LEMMA ArriveStep ==
  ASSUME IInv, Arrive
  PROVE  IInv'
<1>1. Typed /\ QueueInv /\ MoversInv /\ queue # <<>> /\ queue' = Tail(queue)
      /\ UNCHANGED <<reader, answer>>
  BY DEF IInv, Arrive
<1>2. PICK t \in Tasks, r \in Index :
        /\ 1 \in DOMAIN queue /\ queue[1][1] = t /\ queue[1][2] = r
        /\ Head(queue)[1] = t /\ Head(queue)[2] = r /\ task[t].pc \in {"next", "item"}
  <2>1. queue \in Seq(Tasks \X Index)
    BY <1>1 DEF Typed
  <2>2. 1 \in DOMAIN queue /\ queue[1] = Head(queue) /\ queue[1] \in Tasks \X Index
    BY <1>1, <2>1
  <2> QED
    BY <1>1, <2>2 DEF QueueInv
<1>3. \/ /\ task[t].pc = "next"
         /\ task' = [task EXCEPT ![t].pc = "running", ![t].got = Got(t, r)]
         /\ objects' = [objects EXCEPT ![task[t].over].index = @ + 1]
      \/ /\ task[t].pc # "next" /\ task' = [task EXCEPT ![t] = Idle] /\ UNCHANGED objects
  BY <1>2, Zenon DEF Arrive
<1>4. reader.async /\ AsyncOK(t) /\ task[t].over \in Ids
  BY <1>1, <1>2 DEF IInv, IterInv, SyncOK, Typed
<1>5. /\ queue' \in Seq(Tasks \X Index)
      /\ \A i \in DOMAIN queue' : /\ queue'[i][1] \in Tasks \ {t}
                                  /\ \E j \in DOMAIN queue : queue[j] = queue'[i]
      /\ \A i, j \in DOMAIN queue' : queue'[i][1] = queue'[j][1] => i = j
  BY <1>1, <1>2, ReadLeaves
<1>6. CASE task[t].pc # "next"
  <2>1. task' = [task EXCEPT ![t] = Idle] /\ UNCHANGED objects
    BY <1>3, <1>6
  <2>2. /\ task' \in [Tasks -> TaskSet] /\ task'[t].pc = "idle" /\ task'[t].over = 0
        /\ \A u \in Tasks : u # t => task'[u] = task[u]
    BY <1>1, <1>2, <2>1, IdleType, TaskStep
  <2>3. Ids' = Ids /\ Typed'
    BY <1>1, <1>5, <2>1, <2>2 DEF Typed, Ids
  <2>4. QueueInv'
    BY <1>1, <1>2, <1>5, <2>2, QueueKept
  <2>5. IterInv'
    <3> SUFFICES ASSUME NEW u \in Tasks PROVE AsyncOK(u)'
      BY <1>1, <1>4 DEF IterInv
    <3>1. CASE u = t
      BY <2>2, <3>1 DEF AsyncOK, AloneOK
    <3>2. CASE u # t
      BY <1>2, <1>4, <1>5, <2>1, <2>2, <3>2, OtherKept
    <3> QED
      BY <3>1, <3>2
  <2>6. MoversInv'
    <3>1. \A k \in Ids : Movers(k)' \subseteq Movers(k)
      BY <2>2 DEF Movers
    <3> QED
      BY <1>1, <2>1, <3>1, MoversKept
  <2>7. FilteredInv' /\ AnswerInv'
    BY <1>1, <2>1, <2>3, RestKept
  <2> QED
    BY <2>3, <2>4, <2>5, <2>6, <2>7 DEF IInv
<1>7. CASE task[t].pc = "next"
  <2>0. PICK k \in Ids : k = task[t].over
    BY <1>4
  <2> DEFINE got == Got(t, r)
             x == objects[k].index
  <2>1. /\ task' = [task EXCEPT ![t].pc = "running", ![t].got = got]
        /\ objects' = [objects EXCEPT ![k].index = x + 1]
    BY <1>3, <1>7, <2>0, Zenon
  <2>2. /\ k \in Ids /\ x \in Nat /\ x + 1 \in Nat /\ Len(objects[k].indices) \in Nat
        /\ Over(t) = objects[k]
    BY <1>1, <2>0, ObjectTypes DEF Over
  <2>3. got \in Astray..N
    BY <1>1, <1>2, <1>4, GotType
  <2>4. task[t].alone =>
          /\ task[t].got = x /\ got = x + 1 /\ x < Len(objects[k].indices)
          /\ IteratingOver(k) = {t}
    <3> SUFFICES ASSUME task[t].alone
                 PROVE  /\ task[t].got = x /\ got = x + 1 /\ x < Len(objects[k].indices)
                        /\ IteratingOver(k) = {t}
      OBVIOUS
    <3>1. AloneOK(t)
      BY <1>4 DEF AsyncOK
    <3>2. /\ task[t].got = x /\ x < Len(objects[k].indices) /\ IteratingOver(k) = {t}
          /\ Over(t).indices[task[t].got + 1] = r
      BY <1>2, <1>7, <2>0, <2>2, <3>1 DEF AloneOK
    <3>3. task[t].got \in 0..(Len(Over(t).indices) - 1)
      BY <2>2, <3>2
    <3> QED
      BY <1>1, <1>2, <1>4, <2>2, <3>2, <3>3, GotType
  <2> HIDE DEF got
  <2>5. /\ task' \in [Tasks -> TaskSet] /\ task'[t].pc = "running"
        /\ task'[t].over = k /\ task'[t].got = got /\ task'[t].alone = task[t].alone
        /\ \A u \in Tasks : u # t => task'[u] = task[u]
    BY <1>1, <1>2, <2>0, <2>1, <2>3, GotStep, Zenon
  <2> HIDE DEF x
  <2>6. /\ objects' \in Seq(ObjectSet) /\ Len(objects') = Len(objects) /\ Ids' = Ids
        /\ objects'[k].index = x + 1 /\ objects'[k].kind = objects[k].kind
        /\ objects'[k].indices = objects[k].indices /\ objects'[k].filter = objects[k].filter
        /\ \A j \in Ids : j # k => objects'[j] = objects[j]
    BY <1>1, <2>1, <2>2, IndexStep
  <2>7. Typed'
    <3>1. \A u \in Tasks : /\ task'[u].over \in Ids \cup {0}
                           /\ task'[u].pc # "idle" => task'[u].over \in Ids
      BY <1>1, <2>2, <2>5 DEF Typed
    <3> QED
      BY <1>1, <1>5, <2>5, <2>6, <3>1 DEF Typed
  <2>8. QueueInv'
    BY <1>1, <1>2, <1>5, <2>5, QueueKept
  <2>9. IterInv'
    <3> SUFFICES ASSUME NEW u \in Tasks PROVE AsyncOK(u)'
      BY <1>1, <1>4 DEF IterInv
    <3>1. CASE u = t
      <4> SUFFICES ASSUME task[t].alone PROVE AloneOK(t)'
        BY <2>5, <3>1 DEF AsyncOK
      <4>1. /\ Over(t)'.index = x + 1 /\ Len(Over(t)'.indices) = Len(objects[k].indices)
        BY <2>5, <2>6 DEF Over
      <4>2. task'[t].got = Over(t)'.index /\ task'[t].got \in 0..Len(Over(t)'.indices)
        BY <2>2, <2>4, <2>5, <4>1
      <4>3. IteratingOver(task[t].over)' = {t}
        BY <1>2, <1>7, <2>0, <2>4, <2>5 DEF IteratingOver
      <4> QED
        BY <2>5, <4>2, <4>3 DEF AloneOK
    <3>2. CASE u # t
      <4>1. t \in IteratingOver(k) /\ task[t].pc \in {"running", "next"} /\ task'[t].over = task[t].over
        BY <1>2, <1>7, <2>0, <2>5 DEF IteratingOver
      <4>2. \A j \in Ids : /\ objects'[j].indices = objects[j].indices
                           /\ objects'[j].index = objects[j].index \/ t \in IteratingOver(j)
        BY <2>6, <4>1
      <4> QED
        BY <1>2, <1>4, <1>5, <2>5, <3>2, <4>1, <4>2, OtherKept
    <3> QED
      BY <3>1, <3>2
  <2>10. MoversInv'
    <3> SUFFICES ASSUME NEW j \in Ids
                 PROVE  objects'[j].index + Cardinality(Movers(j)')
                          <= Len(objects'[j].indices) + Cardinality(Tasks) - 1
      BY <2>6 DEF MoversInv
    <3>1. objects[j].index + Cardinality(Movers(j)) <= Len(objects[j].indices) + Cardinality(Tasks) - 1
      BY <1>1 DEF MoversInv
    <3>2. CASE j = k
      <4>1. t \in Movers(k) /\ Movers(k)' = Movers(k) \ {t}
        BY <1>2, <1>7, <2>0, <2>5 DEF Movers
      <4>2. Cardinality(Movers(k)) \in Nat /\ Cardinality(Movers(k)') = Cardinality(Movers(k)) - 1
        BY <4>1, MoversCount, FS_RemoveElement
      <4>3. x + Cardinality(Movers(k)) <= Len(objects[k].indices) + Cardinality(Tasks) - 1
        BY <3>1, <3>2 DEF x
      <4> QED
        BY <2>2, <2>6, <3>2, <4>2, <4>3, MoversCount
    <3>3. CASE j # k
      <4>1. Movers(j)' = Movers(j)
        BY <1>2, <2>0, <2>5, <3>3 DEF Movers
      <4> QED
        BY <2>6, <3>1, <3>3, <4>1
    <3> QED
      BY <3>2, <3>3
  <2>11. FilteredInv' /\ AnswerInv'
    <3>1. \A j \in Ids : /\ objects'[j].kind = objects[j].kind
                         /\ objects'[j].indices = objects[j].indices
                         /\ objects'[j].filter = objects[j].filter
      BY <2>6
    <3> QED
      BY <1>1, <2>6, <3>1, RestKept
  <2> QED
    BY <2>7, <2>8, <2>9, <2>10, <2>11 DEF IInv
<1> QED
  BY <1>6, <1>7

LEMMA AiterStep ==
  ASSUME IInv, NEW t \in Tasks, NEW k \in Ids, Aiter(t, k)
  PROVE  IInv'
<1> DEFINE alone == IteratingOver(k) = {}
<1>1. /\ reader.async /\ task[t].pc = "idle" /\ objects' = [objects EXCEPT ![k].index = 0]
      /\ task' = [u \in Tasks |->
                    IF u = t THEN [Idle EXCEPT !.pc = "running", !.over = k, !.alone = alone]
                    ELSE IF u \in IteratingOver(k) THEN [task[u] EXCEPT !.alone = FALSE]
                    ELSE task[u]]
      /\ answer' = None /\ UNCHANGED <<reader, queue>>
  BY DEF Aiter
<1>2. Typed /\ QueueInv /\ MoversInv /\ \A u \in Tasks : AsyncOK(u)
  BY <1>1 DEF IInv, IterInv
<1>3. k \in Nat /\ 0 \in Nat
  BY <1>2 DEF Typed, Ids
<1>4. /\ objects' \in Seq(ObjectSet) /\ Len(objects') = Len(objects) /\ Ids' = Ids
      /\ objects'[k].index = 0 /\ objects'[k].kind = objects[k].kind
      /\ objects'[k].indices = objects[k].indices /\ objects'[k].filter = objects[k].filter
      /\ \A j \in Ids : j # k => objects'[j] = objects[j]
  BY <1>1, <1>2, <1>3, IndexStep
<1>5. task'[t] = [pc |-> "running", over |-> k, pos |-> 0, got |-> 0, alone |-> alone]
  <2>1. alone \in BOOLEAN /\ "running" \in Pcs
    BY DEF Pcs
  <2>2. task'[t] = [Idle EXCEPT !.pc = "running", !.over = k, !.alone = alone]
    BY <1>1, Zenon
  <2> HIDE DEF alone
  <2> QED
    BY <1>3, <2>1, <2>2, Started
<1>6. /\ task'[t] \in TaskSet /\ task'[t].pc = "running" /\ task'[t].over = k
      /\ task'[t].got = 0 /\ (task'[t].alone => IteratingOver(k) = {})
  <2>1. alone \in BOOLEAN /\ "running" \in Pcs /\ 0 \in Astray..N
    BY RecordIndexAssumption DEF Pcs, Astray
  <2>2. task'[t] \in TaskSet
    <3> HIDE DEF alone
    <3> QED
      BY <1>3, <1>5, <2>1, TaskLiteral
  <2>3. /\ task'[t].pc = "running" /\ task'[t].over = k /\ task'[t].got = 0
        /\ task'[t].alone = alone
    <3> HIDE DEF alone
    <3> QED
      BY <1>5
  <2>4. task'[t].alone => IteratingOver(k) = {}
    BY <2>3, Zenon
  <2> QED
    BY <2>2, <2>3, <2>4
<1>7. ASSUME NEW u \in Tasks, u # t
      PROVE  /\ task'[u] \in TaskSet /\ task'[u].pc = task[u].pc /\ task'[u].over = task[u].over
             /\ task'[u].got = task[u].got
             /\ task'[u].alone => task[u].alone /\ u \notin IteratingOver(k)
  <2> DEFINE p == task[u]
  <2>1. p \in TaskSet
    BY <1>2 DEF Typed
  <2>2. CASE u \in IteratingOver(k)
    <3>1. task'[u] = [p EXCEPT !.alone = FALSE]
      BY <1>1, <1>7, <2>2, Zenon
    <3> HIDE DEF p
    <3>2. task'[u] = [pc |-> p.pc, over |-> p.over, pos |-> p.pos, got |-> p.got,
                      alone |-> FALSE]
      BY <2>1, <3>1, SetAlone
    <3>3. /\ task'[u] \in TaskSet /\ task'[u].pc = p.pc /\ task'[u].over = p.over
          /\ task'[u].got = p.got /\ task'[u].alone = FALSE
      BY <2>1, <3>2 DEF TaskSet
    <3> QED
      BY <3>3 DEF p
  <2>3. CASE u \notin IteratingOver(k)
    <3>1. task'[u] = p
      BY <1>1, <1>7, <2>3, Zenon
    <3> QED
      BY <2>1, <2>3, <3>1
  <2> QED
    BY <2>2, <2>3
<1>8. task' \in [Tasks -> TaskSet]
  <2>1. \A u \in Tasks : task'[u] \in TaskSet
    BY <1>6, <1>7
  <2>2. DOMAIN task' = Tasks /\ task' = [u \in Tasks |-> task'[u]]
    BY <1>1
  <2> QED
    BY <2>1, <2>2
<1> HIDE DEF alone
<1>9. Typed'
  <2>1. \A u \in Tasks : /\ task'[u].over \in Ids \cup {0}
                         /\ task'[u].pc # "idle" => task'[u].over \in Ids
    BY <1>2, <1>6, <1>7 DEF Typed
  <2> QED
    BY <1>1, <1>2, <1>4, <1>8, <2>1 DEF Typed
<1>10. QueueInv'
  <2>1. \A i \in DOMAIN queue : queue[i][1] \in Tasks /\ queue[i][1] # t
    BY <1>1, <1>2 DEF Typed, QueueInv
  <2> QED
    BY <1>1, <1>2, <1>7, <2>1 DEF QueueInv
<1>11. IterInv'
  <2> SUFFICES ASSUME NEW u \in Tasks, task'[u].alone PROVE AloneOK(u)'
    BY <1>1 DEF IterInv, AsyncOK
  <2>1. CASE u = t
    <3>1. IteratingOver(k) = {}
      BY <1>6, <2>1
    <3>2. IteratingOver(task[t].over)' = {t}
      BY <1>6, <1>7, <3>1 DEF IteratingOver
    <3>3. Over(t)'.index = 0 /\ Len(Over(t)'.indices) \in Nat
      BY <1>2, <1>4, <1>6, ObjectTypes DEF Over
    <3> QED
      BY <1>6, <2>1, <3>2, <3>3 DEF AloneOK
  <2>2. CASE u # t
    <3>1. /\ task[u].alone /\ u \notin IteratingOver(k) /\ task'[u].pc = task[u].pc
          /\ task'[u].over = task[u].over /\ task'[u].got = task[u].got
      BY <1>7, <2>2
    <3>2. AloneOK(u)
      BY <1>2, <3>1 DEF AsyncOK
    <3>3. task[u].pc # "idle" => task[u].over \in Ids
      BY <1>2 DEF Typed
    <3>4. task[u].pc # "idle" => Over(u)'.indices = Over(u).indices
      BY <1>4, <3>1, <3>3 DEF Over
    <3>5. ASSUME task[u].pc \in {"running", "next"}
          PROVE  Over(u)'.index = Over(u).index /\ IteratingOver(task[u].over)' = {u}
      <4>1. task[u].over # k
        BY <3>1, <3>5 DEF IteratingOver
      <4>2. IteratingOver(task[u].over) = {u}
        BY <3>2, <3>5 DEF AloneOK
      <4>3. \A v \in Tasks : v \in IteratingOver(task[u].over)' <=> v \in IteratingOver(task[u].over)
        <5> SUFFICES ASSUME NEW v \in Tasks
                     PROVE  v \in IteratingOver(task[u].over)' <=> v \in IteratingOver(task[u].over)
          OBVIOUS
        <5>1. CASE v = t
          BY <1>1, <1>6, <3>1, <4>1, <5>1 DEF IteratingOver
        <5>2. CASE v # t
          BY <1>7, <3>1, <5>2 DEF IteratingOver
        <5> QED
          BY <5>1, <5>2
      <4>4. IteratingOver(task[u].over)' = {u}
        <5>1. IteratingOver(task[u].over)' \subseteq Tasks
          BY DEF IteratingOver
        <5> QED
          BY <4>2, <4>3, <5>1
      <4> QED
        BY <1>4, <3>1, <3>3, <3>5, <4>1, <4>4 DEF Over
    <3> QED
      BY <1>1, <3>1, <3>2, <3>4, <3>5 DEF AloneOK
  <2> QED
    BY <2>1, <2>2
<1>12. MoversInv'
  <2> SUFFICES ASSUME NEW j \in Ids
               PROVE  objects'[j].index + Cardinality(Movers(j)')
                        <= Len(objects'[j].indices) + Cardinality(Tasks) - 1
    BY <1>4 DEF MoversInv
  <2>1. Movers(j)' = Movers(j)
    <3>1. \A u \in Tasks : u \in Movers(j)' <=> u \in Movers(j)
      <4> SUFFICES ASSUME NEW u \in Tasks PROVE u \in Movers(j)' <=> u \in Movers(j)
        OBVIOUS
      <4>1. CASE u = t
        BY <1>1, <1>6, <4>1 DEF Movers
      <4>2. CASE u # t
        BY <1>7, <4>2 DEF Movers
      <4> QED
        BY <4>1, <4>2
    <3>2. Movers(j)' \subseteq Tasks /\ Movers(j) \subseteq Tasks
      BY DEF Movers
    <3> QED
      BY <3>1, <3>2
  <2>2. CASE j # k
    BY <1>2, <1>4, <2>1, <2>2 DEF MoversInv
  <2>3. CASE j = k
    <3>1. Movers(k) \in SUBSET (Tasks \ {t})
      BY <1>1 DEF Movers
    <3>2. /\ IsFiniteSet(Tasks \ {t}) /\ Cardinality(Tasks \ {t}) = Cardinality(Tasks) - 1
      BY PyReadersAssumption, FS_RemoveElement
    <3>3. Cardinality(Movers(k)) <= Cardinality(Tasks) - 1
      BY <3>1, <3>2, FS_Subset
    <3> QED
      BY <1>2, <1>4, <2>1, <2>3, <3>3, MoversCount, ObjectTypes
  <2> QED
    BY <2>2, <2>3
<1>13. FilteredInv' /\ AnswerInv'
  <2>1. \A j \in Ids : /\ objects'[j].kind = objects[j].kind
                       /\ objects'[j].indices = objects[j].indices
                       /\ objects'[j].filter = objects[j].filter
    BY <1>4
  <2> QED
    BY <1>1, <1>4, <2>1, RestKept
<1> QED
  BY <1>9, <1>10, <1>11, <1>12, <1>13 DEF IInv

-----------------------------------------------------------------------------
(* Questions.                                                              *)

(* What is left to show of a question: that its answers are those the      *)
(* invariant tells of.                                                     *)
LEMMA AskStep ==
  ASSUME IInv, NEW op, NEW k \in Ids, NEW s, NEW types, NEW i, NEW answers,
         Ask(op, k, s, types, i, answers),
         op = "next" /\ objects[k].kind = "reader" => answers \subseteq ReadNextOfFile(s, types, i),
         op = "prev" /\ objects[k].kind = "reader" => answers \subseteq ReadPrevOfFile(s, types, i),
         op = "index" /\ objects[k].kind = "filtered" =>
           \A result \in answers : result[1] = "index" =>
             \E j \in Index : result = <<"index", Max({Bisect(objects[k].indices, j) - 1, 0}), j>>,
         op = "stream" => /\ s \in Streams
                          /\ answers = {<<"info", GetStreamInfo(s), InitRecordSummaries.counts[s]>>},
         op = "infos" /\ ~reader.multi =>
           \A result \in answers : result[1] = "list" =>
             \E first \in Index, count \in 1..N : result = <<"list", GetRecordsInfo(first, count)>>,
         op = "size" /\ ~reader.multi => answers = {<<"list", InOrder(GetStreamSize(s))>>},
         op = "metadata" =>
           i \in PieceLists /\ \A result \in answers : IsMetadata(i, result)
  PROVE  IInv'
<1>1. PICK result \in answers :
        answer' = [op |-> op, over |-> k, stream |-> s, types |-> types, index |-> i,
                   result |-> result]
  BY DEF Ask
<1>2. UNCHANGED <<reader, objects, task, queue>>
  BY DEF Ask
<1>3. /\ answer'.op = op /\ answer'.over = k /\ answer'.stream = s /\ answer'.types = types
      /\ answer'.index = i /\ answer'.result = result
  BY <1>1
<1>4. Typed' /\ QueueInv' /\ IterInv' /\ MoversInv' /\ FilteredInv'
  <2>1. Typed'
    BY <1>2 DEF IInv, Typed, Ids
  <2>2. QueueInv'
    BY <1>2 DEF IInv, QueueInv
  <2>3. IterInv'
    <3>1. \A t \in Tasks : /\ Over(t)' = Over(t)
                           /\ IteratingOver(task[t].over)' = IteratingOver(task[t].over)
      BY <1>2 DEF Over, IteratingOver
    <3>2. \A t \in Tasks : (AsyncOK(t) => AsyncOK(t)') /\ (SyncOK(t) => SyncOK(t)')
      BY <1>2, <3>1 DEF AsyncOK, AloneOK, SyncOK
    <3> QED
      BY <1>2, <3>2 DEF IInv, IterInv
  <2>4. MoversInv'
    <3>1. \A j \in Ids : Movers(j)' \subseteq Movers(j)
      BY <1>2 DEF Movers
    <3> QED
      BY <1>2, <3>1, MoversKept DEF IInv
  <2>5. FilteredInv'
    <3>1. \A f : Passing(f)' = Passing(f)
      BY DEF Passing
    <3> QED
      BY <1>2, <3>1 DEF IInv, FilteredInv, Ids
  <2> QED
    BY <2>1, <2>2, <2>3, <2>4, <2>5
<1>5. \A name, kind : Asked(name, kind)' => op = name /\ objects[k].kind = kind
  BY <1>2, <1>3 DEF Asked
<1>6. \A x, y, z : /\ ReadNextOfFile(x, y, z)' = ReadNextOfFile(x, y, z)
                   /\ ReadPrevOfFile(x, y, z)' = ReadPrevOfFile(x, y, z)
  BY <1>2 DEF ReadNextOfFile, ReadPrevOfFile
<1>7. AnswerInv'
  <2>1. answer'.over \in Ids'
    BY <1>2, <1>3 DEF Ids
  <2>2. Asked("next", "reader")' =>
          answer'.result \in ReadNextOfFile(answer.stream, answer.types, answer.index)'
    BY <1>3, <1>5, <1>6
  <2>3. Asked("prev", "reader")' =>
          answer'.result \in ReadPrevOfFile(answer.stream, answer.types, answer.index)'
    BY <1>3, <1>5, <1>6
  <2>4. Asked("index", "filtered")' /\ answer'.result[1] = "index" =>
          \E j \in Index : answer'.result =
            <<"index", Max({Bisect(objects'[answer'.over].indices, j) - 1, 0}), j>>
    BY <1>2, <1>3, <1>5
  <2>5. Asked("stream", "reader")' =>
          /\ answer'.result = <<"info", GetStreamInfo(answer'.stream),
                                InitRecordSummaries.counts[answer'.stream]>>
          /\ answer'.stream \in Streams
    BY <1>3, <1>5
  <2>6. Asked("infos", "reader")' /\ ~reader'.multi /\ answer'.result[1] = "list" =>
          \E first \in Index, count \in 1..N :
            answer'.result = <<"list", GetRecordsInfo(first, count)>>
    BY <1>2, <1>3, <1>5
  <2>7. Asked("size", "reader")' /\ ~reader'.multi =>
          answer'.result = <<"list", InOrder(GetStreamSize(answer'.stream))>>
    BY <1>2, <1>3, <1>5
  <2>8. Asked("metadata", "reader")' =>
          answer'.index \in PieceLists /\ IsMetadata(answer'.index, answer'.result)
    BY <1>3, <1>5
  <2> QED
    BY <2>1, <2>2, <2>3, <2>4, <2>5, <2>6, <2>7, <2>8 DEF AnswerInv
<1> QED
  BY <1>4, <1>7 DEF IInv

(* The index found for a time is one of the file, if any. *)
LEMMA IndexByTimeType ==
  ASSUME NEW s, NEW types, NEW t, NEW epsilon, NEW i \in IndexByTime(s, types, t, epsilon)
  PROVE  i = None \/ i \in Index
<1>1. GetRecordIndexByTime(s, types, t) \in Index \cup {None}
  <2> DEFINE found == {j \in RecordsOf(s, types) : Timestamp[j] >= t}
  <2>1. found \subseteq Index
    BY DEF RecordsOf
  <2>2. GetRecordIndexByTime(s, types, t) = IF found = {} THEN None ELSE Min(found)
    BY DEF GetRecordIndexByTime, FirstOf
  <2> HIDE DEF found
  <2> QED
    BY <2>1, <2>2, MinFound
<1>2. GetNearestRecordIndexByTime(s, types, t, epsilon) \subseteq Index \cup {None}
  BY DEF GetNearestRecordIndexByTime, RecordsOf
<1> QED
  BY <1>1, <1>2
  DEF IndexByTime, MultiGetRecordIndexByTime, MultiGetNearestRecordIndexByTime

(* Each question is one whose answers the invariant tells of, or one it    *)
(* says nothing about.                                                     *)
LEMMA QueriesStep ==
  ASSUME IInv, Queries
  PROVE  IInv'
<1>1. 1 \in Ids
  BY DEF IInv, Typed, Ids
<1>2. ASSUME NEW k \in Ids, NEW s \in Streams, NEW types, NEW i, ReadNextRecord(k, s, types, i)
      PROVE  IInv'
  <2> DEFINE answers == IF objects[k].kind = "reader" THEN ReadNextOfFile(s, types, i)
                        ELSE IF InRange(objects[k].indices, i)
                               THEN ReadNextOfFile(s, types, At(objects[k].indices, i))
                               ELSE {<<"none">>}
  <2>1. Ask("next", k, s, types, i, answers)
    BY <1>2 DEF ReadNextRecord
  <2>2. objects[k].kind = "reader" => answers \subseteq ReadNextOfFile(s, types, i)
    OBVIOUS
  <2> HIDE DEF answers
  <2> QED
    BY <2>1, <2>2, AskStep
<1>3. ASSUME NEW k \in Ids, NEW s \in Streams, NEW types, NEW i, ReadPrevRecord(k, s, types, i)
      PROVE  IInv'
  <2> DEFINE answers == IF objects[k].kind = "reader" THEN ReadPrevOfFile(s, types, i)
                        ELSE IF InRange(objects[k].indices, i)
                               THEN ReadPrevOfFile(s, types, At(objects[k].indices, i))
                               ELSE {<<"raises">>}
  <2>1. Ask("prev", k, s, types, i, answers)
    BY <1>3 DEF ReadPrevRecord
  <2>2. objects[k].kind = "reader" => answers \subseteq ReadPrevOfFile(s, types, i)
    OBVIOUS
  <2> HIDE DEF answers
  <2> QED
    BY <2>1, <2>2, AskStep
<1>4. ASSUME NEW k \in Ids, NEW s \in Streams, NEW types, NEW t, NEW epsilon,
             GetIndexByTime(k, s, types, t, epsilon)
      PROVE  IInv'
  <2> DEFINE found == IF s \in objects[k].filter.stream_ids THEN IndexByTime(s, types, t, epsilon)
                                                            ELSE {None}
             Answer(i) == IF i = None THEN <<"raises">>
                          ELSE IF objects[k].kind = "reader" THEN <<"index", i>>
                          ELSE <<"index", Max({Bisect(objects[k].indices, i) - 1, 0}), i>>
             answers == {Answer(i) : i \in found}
  <2>1. Ask("index", k, s, types, t, answers)
    BY <1>4 DEF GetIndexByTime
  <2>2. \A i \in found : i = None \/ i \in Index
    BY IndexByTimeType
  <2>3. ASSUME objects[k].kind = "filtered", NEW result \in answers, result[1] = "index"
        PROVE  \E j \in Index :
                 result = <<"index", Max({Bisect(objects[k].indices, j) - 1, 0}), j>>
    <3> HIDE DEF found
    <3>1. PICK i \in found : result = Answer(i)
      OBVIOUS
    <3>2. i # None
      BY <2>3, <3>1
    <3>3. result = <<"index", Max({Bisect(objects[k].indices, i) - 1, 0}), i>>
      BY <2>3, <3>1, <3>2
    <3> QED
      BY <2>2, <3>2, <3>3
  <2> HIDE DEF answers
  <2> QED
    BY <2>1, <2>3, AskStep
<1>5. ASSUME NEW k \in Ids, NEW s \in Streams, NEW types, NEW t, NEW epsilon,
             ReadRecordByTime(k, s, types, t, epsilon)
      PROVE  IInv'
  <2> DEFINE answers == {IF i = None THEN <<"raises">> ELSE ReadRecord(i) :
                           i \in IndexByTime(s, types, t, epsilon)}
  <2>1. Ask("time", k, s, types, t, answers)
    BY <1>5 DEF ReadRecordByTime
  <2> HIDE DEF answers
  <2> QED
    BY <2>1, AskStep
<1>6. ASSUME NEW k \in Ids, GetTimestampList(k)
      PROVE  IInv'
  <2> DEFINE answers == {<<"list", GetTimestampListForIndices(objects[k].indices)>>}
  <2>1. Ask("times", k, None, {}, None, answers)
    BY <1>6 DEF GetTimestampList, MultiGetTimestampListForIndices
  <2> HIDE DEF answers
  <2> QED
    BY <2>1, AskStep
<1>7. ASSUME NEW k \in Ids, NEW i, GetTimestamp(k, i)
      PROVE  IInv'
  <2> DEFINE answers ==
        {IF objects[k].kind = "reader"
           THEN IF GetTimestampForIndex(i) = None THEN <<"raises">>
                                                  ELSE <<"list", <<GetTimestampForIndex(i)>> >>
           ELSE IF InRange(objects[k].indices, i)
                  THEN <<"list", <<GetTimestampForIndex(At(objects[k].indices, i))>> >>
                  ELSE <<"raises">>}
  <2>1. Ask("timestamp", k, None, {}, i, answers)
    BY <1>7 DEF GetTimestamp, TimestampOf, MultiGetTimestampForIndex
  <2> HIDE DEF answers
  <2> QED
    BY <2>1, AskStep
<1>8. ASSUME NEW first, NEW count \in 0..N, GetInfo(first, count)
      PROVE  IInv'
  <2> DEFINE infos == IF reader.multi THEN MultiGetRecordsInfo(first, count)
                                      ELSE GetRecordsInfo(first, count)
             answers == {IF infos = None THEN <<"raises">> ELSE <<"list", infos>>}
  <2>1. Ask("infos", 1, None, {}, first, answers)
    BY <1>8 DEF GetInfo
  <2>2. ASSUME ~reader.multi, NEW result \in answers, result[1] = "list"
        PROVE  \E f \in Index, c \in 1..N : result = <<"list", GetRecordsInfo(f, c)>>
    <3>1. infos = GetRecordsInfo(first, count)
      BY <2>2
    <3> HIDE DEF infos
    <3>2. infos # None /\ result = <<"list", infos>>
      BY <2>2
    <3>3. first \in Index /\ count \in 1..N
      BY <3>1, <3>2 DEF GetRecordsInfo
    <3> QED
      BY <3>1, <3>2, <3>3
  <2> HIDE DEF answers
  <2> QED
    BY <1>1, <2>1, <2>2, AskStep
<1>9. ASSUME NEW s \in Streams, GetSize(s)
      PROVE  IInv'
  <2> DEFINE answers == {<<"list", InOrder(IF reader.multi THEN MultiGetStreamSize(s)
                                                           ELSE GetStreamSize(s))>>}
  <2>1. Ask("size", 1, s, RecordTypes, None, answers)
    BY <1>9 DEF GetSize
  <2>2. ~reader.multi => answers = {<<"list", InOrder(GetStreamSize(s))>>}
    OBVIOUS
  <2> HIDE DEF answers
  <2> QED
    BY <1>1, <2>1, <2>2, AskStep
<1>10. ASSUME NEW s \in Streams, GetInfoOfStream(s)
       PROVE  IInv'
  <2> DEFINE answers == {<<"info", GetStreamInfo(s), InitRecordSummaries.counts[s]>>}
  <2>0. /\ [t \in RecordTypes |-> GetRecordsCount(s, t)] = InitRecordSummaries.counts[s]
        /\ [t \in RecordTypes |-> MultiGetRecordsCount(s, t)] = InitRecordSummaries.counts[s]
    BY DEF GetRecordsCount, MultiGetRecordsCount, MultiInitRecordSummaries, InitRecordSummaries
  <2>1. Ask("stream", 1, s, RecordTypes, None, answers)
    BY <1>10, <2>0 DEF GetInfoOfStream, MultiGetStreamInfo
  <2>2. answers = {<<"info", GetStreamInfo(s), InitRecordSummaries.counts[s]>>}
    OBVIOUS
  <2> HIDE DEF answers
  <2> QED
    BY <1>1, <2>1, <2>2, AskStep
<1>11. ASSUME NEW pieces \in PieceLists, GetMetadata(pieces)
       PROVE  IInv'
  <2> DEFINE end == StringifyMetadataKeys(pieces)
             answers == {IF end.raised THEN <<"raises">> ELSE <<"keys", end.filtered>>}
  <2>1. Ask("metadata", 1, None, {}, pieces, answers)
    BY <1>11 DEF GetMetadata
  <2>2. \A result \in answers : IsMetadata(pieces, result)
    BY DEF IsMetadata
  <2> HIDE DEF answers
  <2> QED
    BY <1>1, <2>1, <2>2, AskStep
<1> QED
  BY <1>2, <1>3, <1>4, <1>5, <1>6, <1>7, <1>8, <1>9, <1>10, <1>11 DEF Queries

-----------------------------------------------------------------------------
(* The invariant.                                                          *)

LEMMA IInvStep ==
  ASSUME IInv, [Next]_vars
  PROVE  IInv'
<1>1. ASSUME NEW call \in FilterCalls, FilteredByFields(call) PROVE IInv'
  BY <1>1, FilteredByFieldsStep
<1>2. ASSUME NEW k \in Ids, NEW slice \in SliceCalls, Slice(k, slice) PROVE IInv'
  BY <1>2, SliceStep
<1>3. ASSUME NEW t \in Tasks, NEW k \in Ids, IterSync(t, k) PROVE IInv'
  BY <1>3, IterSyncStep
<1>4. ASSUME NEW t \in Tasks, NEW k \in Ids, Aiter(t, k) PROVE IInv'
  BY <1>4, AiterStep
<1>5. ASSUME NEW t \in Tasks, NEW k \in Ids, NEW i \in Items, AwaitItem(t, k, i) PROVE IInv'
  BY <1>5, AwaitItemStep
<1>6. ASSUME NEW t \in Tasks, NextSync(t) PROVE IInv'
  BY <1>6, NextSyncStep
<1>7. ASSUME NEW t \in Tasks, Anext(t) PROVE IInv'
  BY <1>7, AnextStep
<1>8. ASSUME NEW t \in Tasks, Cancel(t) PROVE IInv'
  BY <1>8, CancelStep
<1>9. ASSUME NEW t \in Tasks, Leave(t) PROVE IInv'
  BY <1>9, LeaveStep
<1>10. Arrive => IInv'
  BY ArriveStep
<1>11. Queries => IInv'
  BY QueriesStep
<1>12. ASSUME UNCHANGED vars PROVE IInv'
  <2>1. UNCHANGED <<reader, objects, task, queue, answer>> /\ Ids' = Ids
    BY <1>12 DEF vars, Ids
  <2>2. Typed' /\ QueueInv'
    BY <2>1 DEF IInv, Typed, QueueInv
  <2>3. IterInv'
    <3>1. \A t \in Tasks : /\ Over(t)' = Over(t)
                           /\ IteratingOver(task[t].over)' = IteratingOver(task[t].over)
      BY <2>1 DEF Over, IteratingOver
    <3>2. \A t \in Tasks : (AsyncOK(t) => AsyncOK(t)') /\ (SyncOK(t) => SyncOK(t)')
      BY <2>1, <3>1 DEF AsyncOK, AloneOK, SyncOK
    <3> QED
      BY <2>1, <3>2 DEF IInv, IterInv
  <2>4. MoversInv'
    <3>1. \A k \in Ids : Movers(k)' \subseteq Movers(k)
      BY <2>1 DEF Movers
    <3> QED
      BY <2>1, <3>1, MoversKept DEF IInv
  <2>5. FilteredInv' /\ AnswerInv'
    BY <2>1, RestKept
  <2> QED
    BY <2>2, <2>3, <2>4, <2>5 DEF IInv
<1> QED
  BY <1>1, <1>2, <1>3, <1>4, <1>5, <1>6, <1>7, <1>8, <1>9, <1>10, <1>11, <1>12 DEF Next

THEOREM IInvHolds == Spec => []IInv
<1>1. Init => IInv
  BY InitStep
<1>2. IInv /\ [Next]_vars => IInv'
  BY IInvStep
<1> QED
  BY <1>1, <1>2, PTL DEF Spec

-----------------------------------------------------------------------------
(* The theorems.                                                           *)

(* The state is well typed: every object lists records of the file, and    *)
(* _index gets no further past its end than there are tasks but one.       *)
THEOREM TypeCorrect == Spec => []TypeOK
<1>1. IInv => TypeOK
  <2> SUFFICES ASSUME IInv PROVE TypeOK
    OBVIOUS
  <2>1. Typed /\ MoversInv
    BY DEF IInv
  <2>2. ASSUME NEW k \in Ids
        PROVE  /\ objects[k].kind \in {"reader", "filtered", "slice"}
               /\ Range(objects[k].indices) \subseteq Index
               /\ objects[k].index \in 0..(Len(objects[k].indices) + Cardinality(Tasks) - 1)
    <3>1. /\ objects[k].kind \in {"reader", "filtered", "slice"}
          /\ objects[k].indices \in Seq(Index)
          /\ objects[k].index \in Nat /\ Len(objects[k].indices) \in Nat
      BY <2>1, ObjectTypes DEF ObjectSet
    <3>2. Range(objects[k].indices) \subseteq Index
      BY <3>1 DEF Range
    <3>3. objects[k].index + Cardinality(Movers(k)) <= Len(objects[k].indices) + Cardinality(Tasks) - 1
      BY <2>1 DEF MoversInv
    <3> QED
      BY <3>1, <3>2, <3>3, MoversCount
  <2>3. ASSUME NEW t \in Tasks
        PROVE  /\ task[t].pc \in {"idle", "running", "next", "item", "done", "failed"}
               /\ task[t].over \in Ids \cup {0} /\ task[t].got \in Astray..N
               /\ task[t].alone \in BOOLEAN
    BY <2>1 DEF Typed, TaskSet, Pcs
  <2>4. \A q \in Range(queue) : q[1] \in Tasks /\ q[2] \in Index
    BY <2>1 DEF Typed, Range
  <2>5. reader \in Readers /\ Len(objects) \in 1..(MaxObjects + 1)
    BY <2>1 DEF Typed
  <2> QED
    BY <2>2, <2>3, <2>4, <2>5 DEF TypeOK
<1> QED
  BY <1>1, IInvHolds, PTL

(* An iteration that ran to its end got every record of its object, in     *)
(* order, whatever was read meanwhile through the same C++ reader; an      *)
(* asynchronous one that was the only one over its object never fails.     *)
THEOREM IterationsComplete == Spec => []IterationComplete
<1>1. IInv => IterationComplete
  BY DEF IInv, IterInv, AsyncOK, AloneOK, SyncOK, IterationComplete, Over
<1> QED
  BY <1>1, IInvHolds, PTL

(* A filtered reader has exactly the records its filter lets through.      *)
THEOREM FiltersExact == Spec => []FilterIsExact
<1>1. IInv => FilterIsExact
  <2> SUFFICES ASSUME IInv, NEW k \in Ids, objects[k].kind = "filtered"
               PROVE  Range(objects[k].indices) = Passing(objects[k].filter)
    BY DEF FilterIsExact
  <2>1. objects[k].indices = InOrder(Passing(objects[k].filter))
    BY DEF IInv, FilteredInv
  <2>2. Passing(objects[k].filter) \subseteq Index
    BY DEF Passing
  <2> QED
    BY <2>1, <2>2, InOrderLists
<1> QED
  BY <1>1, IInvHolds, PTL

(* The searches look among all the records of the stream: the Python       *)
(* readers enable every one.                                               *)
LEMMA EveryStreamEnabled ==
  ASSUME NEW s, NEW types
  PROVE  Matching(Streams, {s}, types) = RecordsOf(s, types) /\ RecordsOf(s, types) \subseteq Index
BY RecordIndexAssumption DEF Matching, RecordsOf

LEMMA NoneIsNoIndex == None \notin Index
BY RecordIndexAssumption DEF Index

(* A search for the next record from an index in the file, over one file   *)
(* or several.                                                             *)
LEMMA NextFromIndex ==
  ASSUME NEW s, NEW types, NEW i \in Index
  PROVE  LET found == {j \in RecordsOf(s, types) : j >= i} IN
         ReadNextOfFile(s, types, i) =
           {IF found = {} THEN <<"none">> ELSE <<"record", Min(found)>>}
<1> DEFINE found == {j \in RecordsOf(s, types) : j >= i}
           next == IF reader.multi THEN MultiGetNextIndex(Streams, s, types, i)
                                   ELSE GetNextIndex(Streams, s, types, i)
<1>1. found \subseteq Index
  BY EveryStreamEnabled
<1>2. i \in 0..N
  BY RecordIndexAssumption DEF Index
<1>3. next = FirstOf(found)
  BY <1>2, EveryStreamEnabled DEF MultiGetNextIndex, GetNextIndex
<1> HIDE DEF found, next
<1>4. CASE found = {}
  <2>1. next = None
    BY <1>3, <1>4 DEF FirstOf
  <2> QED
    BY <1>4, <2>1 DEF ReadNextOfFile, next, found
<1>5. CASE found # {}
  <2>1. next = Min(found) /\ next \in Index /\ next # None
    <3>1. Min(found) \in Index
      BY <1>1, <1>5, MinFound
    <3>2. next = Min(found)
      BY <1>3, <1>5 DEF FirstOf
    <3> QED
      BY <3>1, <3>2, NoneIsNoIndex
  <2>2. ReadNextOfFile(s, types, i) = {ReadRecord(next)}
    BY <2>1 DEF ReadNextOfFile, next
  <2>3. ReadRecord(next) = <<"record", Min(found)>>
    BY <2>1 DEF ReadRecord
  <2> QED
    BY <1>5, <2>2, <2>3 DEF found
<1> QED
  BY <1>4, <1>5

(* A search for the previous one: no record passes for a match that is not *)
(* there, as one outside the index would.                                  *)
LEMMA PrevFromIndex ==
  ASSUME NEW s, NEW types, NEW i \in Index, NEW result \in ReadPrevOfFile(s, types, i)
  PROVE  LET found == {j \in RecordsOf(s, types) : j <= i} IN
         IF found = {} THEN result \in {<<"none">>, <<"raises">>}
                       ELSE result = <<"record", Max(found)>>
<1> DEFINE found == {j \in RecordsOf(s, types) : j <= i}
           answers == IF reader.multi THEN MultiGetPrevIndex(Streams, s, types, i)
                                      ELSE GetPrevIndex(Streams, s, types, i)
<1>1. found \subseteq Index
  BY EveryStreamEnabled
<1>2. N..i = {} /\ -1 \notin Index /\ -1 # None
  BY RecordIndexAssumption DEF Index
<1>3. PICK prev \in answers : result = IF prev = None THEN <<"none">> ELSE ReadRecord(prev)
  BY DEF ReadPrevOfFile
<1>4. answers = {LastOf(found)} \/ answers = {IF found = {} THEN -1 ELSE Max(found)}
  BY <1>2, EveryStreamEnabled DEF MultiGetPrevIndex, GetPrevIndex
<1> HIDE DEF answers
<1>5. CASE found = {}
  <2> HIDE DEF found
  <2>1. prev = None \/ prev = -1
    BY <1>3, <1>4, <1>5 DEF LastOf
  <2>2. prev = None => result = <<"none">>
    BY <1>3
  <2>3. prev = -1 => result = <<"raises">>
    BY <1>2, <1>3 DEF ReadRecord
  <2> QED
    BY <1>5, <2>1, <2>2, <2>3 DEF found
<1>6. CASE found # {}
  <2> HIDE DEF found
  <2>1. Max(found) \in Index
    BY <1>1, <1>6, MaxFound
  <2>2. prev = Max(found)
    BY <1>3, <1>4, <1>6 DEF LastOf
  <2>3. prev # None /\ prev \in Index
    BY <2>1, <2>2, NoneIsNoIndex
  <2>4. result = <<"record", Max(found)>>
    BY <1>3, <2>2, <2>3 DEF ReadRecord
  <2> QED
    BY <1>6, <2>4 DEF found
<1> QED
  BY <1>5, <1>6

(* From an index in the file the reader finds the nearest matching record  *)
(* in the direction asked for, over one file and over several, and none    *)
(* where there is none.                                                    *)
THEOREM NavigationExact == Spec => []NavigationIsExact
<1>1. IInv => NavigationIsExact
  <2> SUFFICES ASSUME IInv PROVE NavigationIsExact
    OBVIOUS
  <2>1. ASSUME Asked("next", "reader"), answer.index \in Index
        PROVE  LET found == {i \in RecordsOf(answer.stream, answer.types) : i >= answer.index} IN
               IF found = {} THEN answer.result[1] # "record"
                             ELSE answer.result = <<"record", Min(found)>>
    <3> DEFINE s == answer.stream
               types == answer.types
               x == answer.index
               result == answer.result
               found == {i \in RecordsOf(s, types) : i >= x}
    <3>1. result \in ReadNextOfFile(s, types, x)
      BY <2>1 DEF IInv, AnswerInv
    <3> HIDE DEF s, types, x, result
    <3>2. x \in Index
      BY <2>1 DEF x
    <3>3. result = IF found = {} THEN <<"none">> ELSE <<"record", Min(found)>>
      BY <3>1, <3>2, NextFromIndex
    <3>4. <<"none">>[1] # "record"
      OBVIOUS
    <3> HIDE DEF found
    <3>5. IF found = {} THEN result[1] # "record" ELSE result = <<"record", Min(found)>>
      BY <3>3, <3>4
    <3> QED
      BY <3>5 DEF s, types, x, result, found
  <2>2. ASSUME Asked("prev", "reader"), answer.index \in Index
        PROVE  LET found == {i \in RecordsOf(answer.stream, answer.types) : i <= answer.index} IN
               IF found = {} THEN answer.result[1] # "record"
                             ELSE answer.result = <<"record", Max(found)>>
    <3> DEFINE s == answer.stream
               types == answer.types
               x == answer.index
               result == answer.result
               found == {i \in RecordsOf(s, types) : i <= x}
    <3>1. result \in ReadPrevOfFile(s, types, x)
      BY <2>2 DEF IInv, AnswerInv
    <3> HIDE DEF s, types, x, result
    <3>2. x \in Index
      BY <2>2 DEF x
    <3>3. IF found = {} THEN result \in {<<"none">>, <<"raises">>}
                        ELSE result = <<"record", Max(found)>>
      BY <3>1, <3>2, PrevFromIndex
    <3>4. <<"none">>[1] # "record" /\ <<"raises">>[1] # "record"
      OBVIOUS
    <3> HIDE DEF found
    <3>5. IF found = {} THEN result[1] # "record" ELSE result = <<"record", Max(found)>>
      BY <3>3, <3>4
    <3> QED
      BY <3>5 DEF s, types, x, result, found
  <2> QED
    BY <2>1, <2>2 DEF NavigationIsExact
<1> QED
  BY <1>1, IInvHolds, PTL

(* The place of a record in a list in the order of the index is what       *)
(* bisect finds, less one.                                                 *)
LEMMA BisectFinds ==
  ASSUME NEW S, S \subseteq Index, NEW i \in S
  PROVE  /\ Max({Bisect(InOrder(S), i) - 1, 0}) = Bisect(InOrder(S), i) - 1
         /\ InOrder(S)[Max({Bisect(InOrder(S), i) - 1, 0}) + 1] = i
<1> DEFINE list == InOrder(S)
           n == Cardinality(S)
<1>1. /\ n \in Nat /\ DOMAIN list = 1..n /\ Range(list) = S
      /\ \A a, b \in 1..n : a < b => list[a] < list[b]
  BY InOrderLists
<1> HIDE DEF list, n
<1>2. PICK a \in 1..n : list[a] = i
  BY <1>1 DEF Range
<1>3. ASSUME NEW b \in 1..n PROVE list[b] <= i <=> b <= a
  <2>1. list[b] \in Index /\ list[a] \in Index
    BY <1>1, <1>2 DEF Range
  <2>2. CASE b < a
    BY <1>1, <1>2, <2>1, <2>2 DEF Index
  <2>3. CASE b = a
    BY <1>2, <2>1, <2>3 DEF Index
  <2>4. CASE a < b
    <3>1. list[a] < list[b]
      BY <1>1, <2>4
    <3>2. ~(list[b] <= i)
      BY <1>2, <2>1, <3>1 DEF Index
    <3> QED
      BY <1>1, <2>4, <3>2
  <2> QED
    BY <1>1, <2>2, <2>3, <2>4
<1>4. {j \in DOMAIN list : list[j] <= i} = 1..a
  BY <1>1, <1>3
<1>5. Bisect(list, i) = a
  <2>1. Cardinality(1..a) = a
    BY <1>1, FS_Interval
  <2> QED
    BY <1>4, <2>1 DEF Bisect
<1>6. Max({a - 1, 0}) = a - 1
  BY <1>1 DEF Max
<1> QED
  BY <1>1, <1>2, <1>5, <1>6 DEF list

(* The index a filtered reader gives for a time is that of the record the  *)
(* whole reader finds, whenever the record passes the filter.              *)
THEOREM IndexByTimeExact == Spec => []IndexByTimeIsRecord
<1>1. IInv => IndexByTimeIsRecord
  <2> SUFFICES ASSUME IInv, Asked("index", "filtered"), answer.result[1] = "index",
                      answer.result[3] \in Range(objects[answer.over].indices)
               PROVE  objects[answer.over].indices[answer.result[2] + 1] = answer.result[3]
    BY DEF IndexByTimeIsRecord
  <2> DEFINE k == answer.over
             S == Passing(objects[k].filter)
             list == objects[k].indices
  <2>1. k \in Ids /\ objects[k].kind = "filtered"
    BY DEF Asked, IInv, AnswerInv
  <2>2. list = InOrder(S) /\ S \subseteq Index
    BY <2>1 DEF IInv, FilteredInv, Passing
  <2>3. PICK i \in Index : answer.result = <<"index", Max({Bisect(list, i) - 1, 0}), i>>
    BY DEF IInv, AnswerInv
  <2>4. answer.result[2] = Max({Bisect(list, i) - 1, 0}) /\ answer.result[3] = i
    BY <2>3
  <2>5. i \in Range(list)
    BY <2>4
  <2> HIDE DEF k, S, list
  <2>6. i \in S
    BY <2>2, <2>5, InOrderLists
  <2>7. list[Max({Bisect(list, i) - 1, 0}) + 1] = i
    BY <2>2, <2>6, BisectFinds
  <2> QED
    BY <2>4, <2>7 DEF list, k
<1> QED
  BY <1>1, IInvHolds, PTL

(* The infos of a range of records: each entry is that of the record whose *)
(* index it gives.                                                         *)
LEMMA InfosNumbered ==
  ASSUME NEW first \in Index, NEW count \in 1..N
  PROVE  \A info \in Range(GetRecordsInfo(first, count)) : info.record_index = info.record
<1> DEFINE n == Min({N - first, count})
<1>1. GetRecordsInfo(first, count) = [k \in 1..n |-> RecordInfo(first + k - 1, first + k - 1)]
  <2>1. ~(count <= 0)
    OBVIOUS
  <2> QED
    BY <2>1 DEF GetRecordsInfo
<1> HIDE DEF n
<1>2. \A x : RecordInfo(x, x).record_index = x /\ RecordInfo(x, x).record = x
  BY DEF RecordInfo
<1> QED
  BY <1>1, <1>2 DEF Range

(* What the summaries and the infos of a stream say, of each record type.  *)
LEMMA StreamInfoOfType ==
  ASSUME NEW s \in Streams, NEW type \in RecordTypes
  PROVE  LET S == RecordsOf(s, {type})  info == GetStreamInfo(s)[type] IN
         /\ info.count = Cardinality(S) /\ info.first = FirstOf(S) /\ info.last = LastOf(S)
         /\ InitRecordSummaries.counts[s][type] = Cardinality(S)
         /\ S \subseteq Index /\ (Cardinality(S) = 0 <=> S = {})
         /\ FirstOf(S) = None <=> S = {}
<1> DEFINE S == RecordsOf(s, {type})
<1>1. S \subseteq Index
  BY DEF RecordsOf
<1>2. /\ GetStreamInfo(s)[type] = [count |-> Cardinality(S), first |-> FirstOf(S), last |-> LastOf(S)]
      /\ InitRecordSummaries.counts[s][type] = Cardinality(S)
  BY DEF GetStreamInfo, InitRecordSummaries
<1> HIDE DEF S
<1>3. Cardinality(S) = 0 <=> S = {}
  BY <1>1, RecordsFinite, FS_EmptySet
<1>4. FirstOf(S) = None <=> S = {}
  <2>1. S # {} => Min(S) # None
    BY <1>1, MinFound, NoneIsNoIndex
  <2> QED
    BY <2>1 DEF FirstOf
<1> QED
  BY <1>1, <1>2, <1>3, <1>4 DEF S

(* The reader's answers about a stream, its records and its size agree     *)
(* with each other.                                                        *)
THEOREM AnswersConsistent == Spec => []AnswersAgree
<1>1. IInv => AnswersAgree
  <2> SUFFICES ASSUME IInv PROVE AnswersAgree
    OBVIOUS
  <2>1. ASSUME Asked("stream", "reader"), NEW type \in RecordTypes
        PROVE  LET info == answer.result[2][type] IN
               /\ info.count = answer.result[3][type]
               /\ info.count = 0 <=> info.first = None
               /\ info.first # None =>
                    /\ ReadNextOfFile(answer.stream, {type}, 0) = {<<"record", info.first>>}
                    /\ ReadPrevOfFile(answer.stream, {type}, N - 1) = {<<"record", info.last>>}
    <3> DEFINE s == answer.stream
               S == RecordsOf(s, {type})
               info == answer.result[2][type]
    <3>1. /\ answer.result = <<"info", GetStreamInfo(s), InitRecordSummaries.counts[s]>>
          /\ s \in Streams
      BY <2>1 DEF IInv, AnswerInv
    <3>2. /\ info = GetStreamInfo(s)[type]
          /\ answer.result[3][type] = InitRecordSummaries.counts[s][type]
      BY <3>1
    <3> HIDE DEF s, info
    <3>3. /\ info.count = Cardinality(S) /\ info.first = FirstOf(S) /\ info.last = LastOf(S)
          /\ answer.result[3][type] = Cardinality(S)
          /\ S \subseteq Index /\ (Cardinality(S) = 0 <=> S = {})
          /\ FirstOf(S) = None <=> S = {}
      BY <3>1, <3>2, StreamInfoOfType
    <3>4. ASSUME info.first # None
          PROVE  /\ ReadNextOfFile(s, {type}, 0) = {<<"record", info.first>>}
                 /\ ReadPrevOfFile(s, {type}, N - 1) = {<<"record", info.last>>}
      <4>1. S # {}
        BY <3>3, <3>4
      <4>2. info.first = Min(S) /\ info.last = Max(S)
        BY <3>3, <4>1 DEF FirstOf, LastOf
      <4>3. 0 \in Index /\ N - 1 \in Index
        <5>1. \E i \in Index : TRUE
          <6> HIDE DEF S
          <6> QED
            BY <3>3, <4>1
        <5> QED
          BY <5>1, RecordIndexAssumption DEF Index
      <4>4. /\ {j \in RecordsOf(s, {type}) : j >= 0} = S
            /\ {j \in RecordsOf(s, {type}) : j <= N - 1} = S
        <5>1. \A j \in Index : j >= 0 /\ j <= N - 1
          BY RecordIndexAssumption DEF Index
        <5> QED
          BY <3>3, <5>1
      <4>5. ReadNextOfFile(s, {type}, 0) = {<<"record", Min(S)>>}
        <5> DEFINE found == {j \in RecordsOf(s, {type}) : j >= 0}
        <5>1. ReadNextOfFile(s, {type}, 0) =
                {IF found = {} THEN <<"none">> ELSE <<"record", Min(found)>>}
          <6>1. \A z \in Index :
                  LET F == {j \in RecordsOf(s, {type}) : j >= z} IN
                  ReadNextOfFile(s, {type}, z) =
                    {IF F = {} THEN <<"none">> ELSE <<"record", Min(F)>>}
            BY NextFromIndex
          <6> QED
            BY <4>3, <6>1, Zenon
        <5>2. found = S
          BY <4>4
        <5> HIDE DEF found, S
        <5> QED
          BY <4>1, <5>1, <5>2
      <4>6. \A result \in ReadPrevOfFile(s, {type}, N - 1) : result = <<"record", Max(S)>>
        BY <4>1, <4>3, <4>4, PrevFromIndex
      <4>7. ReadPrevOfFile(s, {type}, N - 1) # {}
        BY DEF ReadPrevOfFile, MultiGetPrevIndex, GetPrevIndex
      <4> QED
        BY <4>2, <4>5, <4>6, <4>7
    <3> HIDE DEF S
    <3> QED
      BY <3>3, <3>4 DEF s, info
  <2>2. ASSUME Asked("infos", "reader"), ~reader.multi, answer.result[1] = "list"
        PROVE  \A info \in Range(answer.result[2]) : info.record_index = info.record
    <3>1. PICK first \in Index, count \in 1..N :
            answer.result = <<"list", GetRecordsInfo(first, count)>>
      BY <2>2 DEF IInv, AnswerInv
    <3>2. answer.result[2] = GetRecordsInfo(first, count)
      BY <3>1
    <3> QED
      BY <3>2, InfosNumbered
  <2>3. ASSUME Asked("size", "reader"), ~reader.multi
        PROVE  answer.result[2] = InOrder({i \in Index : Stream[i] = answer.stream})
    <3>1. answer.result = <<"list", InOrder(GetStreamSize(answer.stream))>>
      BY <2>3 DEF IInv, AnswerInv
    <3>2. GetStreamSize(answer.stream) = {i \in Index : Stream[i] = answer.stream}
      BY RecordIndexAssumption DEF GetStreamSize, RecordsOf
    <3> QED
      BY <3>1, <3>2
  <2> QED
    BY <2>1, <2>2, <2>3 DEF AnswersAgree
<1> QED
  BY <1>1, IInvHolds, PTL

-----------------------------------------------------------------------------
(* The keys of metadata, for any layout.                                   *)

(* Labels and keys are made of these. *)
Tokens == STRING \cup {"<"}

(* Of what a key is put together. *)
KeyOf(key, label, type, i) ==
  /\ key \in Seq(Tokens)
  /\ Len(key) = Len(label) + i + 1
  /\ \A p \in 1..Len(label) : key[p] = label[p]
  /\ \A p \in (Len(label) + 1)..(Len(label) + i) : key[p] = "<"
  /\ key[Len(label) + i + 1] = type

LEMMA KeyIs ==
  ASSUME NEW label \in Seq(Tokens), NEW type \in Tokens, NEW i \in Nat
  PROVE  KeyOf(Key(label, type, i), label, type, i)
<1> DEFINE brackets == [j \in 1..i |-> "<"]
           front == label \o brackets
           last == <<type>>
           n == Len(label)
           key == Key(label, type, i)
<1>1. "<" \in Tokens
  BY DEF Tokens
<1> HIDE DEF Tokens
<1>2. brackets \in Seq(Tokens) /\ Len(brackets) = i /\ \A p \in 1..i : brackets[p] = "<"
  BY <1>1
<1>3. n \in Nat
  OBVIOUS
<1> HIDE DEF brackets, n
<1>4. /\ front \in Seq(Tokens) /\ Len(front) = n + i
      /\ \A p \in 1..(n + i) : front[p] = IF p <= n THEN label[p] ELSE brackets[p - n]
  BY <1>2, ConcatProperties DEF n
<1>5. last \in Seq(Tokens) /\ Len(last) = 1 /\ last[1] = type
  OBVIOUS
<1>6. key = front \o last
  BY DEF Key, brackets
<1> HIDE DEF front, last, key
<1>7. /\ key \in Seq(Tokens) /\ Len(key) = n + i + 1
      /\ \A p \in 1..(n + i + 1) : key[p] = IF p <= n + i THEN front[p] ELSE last[p - (n + i)]
  <2>1. /\ front \o last \in Seq(Tokens) /\ Len(front \o last) = Len(front) + Len(last)
        /\ \A p \in 1..(Len(front) + Len(last)) :
             (front \o last)[p] = IF p <= Len(front) THEN front[p] ELSE last[p - Len(front)]
    BY <1>4, <1>5, ConcatProperties
  <2>2. Len(front) = n + i /\ Len(last) = 1
    BY <1>4, <1>5
  <2> QED
    BY <1>6, <2>1, <2>2
<1>8. \A p \in 1..n : key[p] = label[p]
  BY <1>3, <1>4, <1>7
<1>9. \A p \in (n + 1)..(n + i) : key[p] = "<"
  <2>1. \A p \in (n + 1)..(n + i) : p \in 1..(n + i) /\ ~(p <= n) /\ p - n \in 1..i
    BY <1>3
  <2> QED
    BY <1>2, <1>3, <1>4, <1>7, <2>1
<1>10. key[n + i + 1] = type
  <2>1. /\ n + i + 1 \in 1..(n + i + 1) /\ ~(n + i + 1 <= n + i)
        /\ (n + i + 1) - (n + i) = 1
    BY <1>3
  <2> QED
    BY <1>5, <1>7, <2>1
<1> QED
  BY <1>7, <1>8, <1>9, <1>10 DEF n, key, KeyOf

(* With one bracket. *)
LEMMA KeyWithOne ==
  ASSUME NEW label \in Seq(Tokens), NEW type \in Tokens
  PROVE  Key(label, type, 1) = label \o <<"<", type>>
<1> DEFINE key == Key(label, type, 1)
           end == <<"<", type>>
           n == Len(label)
           other == label \o end
<1>1. /\ key \in Seq(Tokens) /\ Len(key) = n + 1 + 1
      /\ \A p \in 1..n : key[p] = label[p]
      /\ key[n + 1] = "<" /\ key[n + 1 + 1] = type
  <2>1. KeyOf(key, label, type, 1)
    BY KeyIs
  <2>2. n + 1 \in (n + 1)..(n + 1)
    OBVIOUS
  <2> QED
    BY <2>1, <2>2 DEF KeyOf
<1>2. end \in Seq(Tokens) /\ Len(end) = 2 /\ end[1] = "<" /\ end[2] = type
  <2>1. "<" \in Tokens
    BY DEF Tokens
  <2> QED
    BY <2>1
<1>3. n \in Nat
  OBVIOUS
<1> HIDE DEF key, end
<1>4. /\ other \in Seq(Tokens) /\ Len(other) = n + 2
      /\ \A p \in 1..(n + 2) : other[p] = IF p <= n THEN label[p] ELSE end[p - n]
  BY <1>2, ConcatProperties
<1> HIDE DEF other, n
<1>5. \A p \in 1..n : other[p] = label[p]
  BY <1>3, <1>4
<1>6. other[n + 1] = "<" /\ other[n + 1 + 1] = type
  <2>1. /\ n + 1 \in 1..(n + 2) /\ ~(n + 1 <= n) /\ (n + 1) - n = 1
        /\ n + 1 + 1 \in 1..(n + 2) /\ ~(n + 1 + 1 <= n) /\ (n + 1 + 1) - n = 2
    BY <1>3
  <2> QED
    BY <1>2, <1>4, <2>1
<1>7. \A p \in 1..(n + 2) : p \in 1..n \/ p = n + 1 \/ p = n + 1 + 1
  BY <1>3
<1>8. \A p \in 1..(n + 2) : key[p] = other[p]
  BY <1>1, <1>5, <1>6, <1>7
<1>9. Len(key) = n + 2
  BY <1>1, <1>3
<1>10. key = [p \in 1..Len(key) |-> key[p]] /\ other = [p \in 1..Len(other) |-> other[p]]
  BY <1>1, <1>4
<1> QED
  BY <1>4, <1>8, <1>9, <1>10 DEF key, other, end

(* Keys with different numbers of brackets differ. *)
LEMMA KeysDiffer ==
  ASSUME NEW label \in Seq(Tokens), NEW type \in Tokens, NEW i \in Nat, NEW j \in Nat,
         Key(label, type, i) = Key(label, type, j)
  PROVE  i = j
<1>1. Len(label) + i + 1 = Len(label) + j + 1
  <2>1. /\ Len(Key(label, type, i)) = Len(label) + i + 1
        /\ Len(Key(label, type, j)) = Len(label) + j + 1
    BY KeyIs DEF KeyOf
  <2> QED
    BY <2>1
<1>2. Len(label) \in Nat
  OBVIOUS
<1> QED
  BY <1>1, <1>2

(* One of these keys is always free, and the first one is taken, be it     *)
(* with one bracket or because that key is in use.                         *)
LEMMA UniqueKey ==
  ASSUME NEW label \in Seq(Tokens), NEW type \in Tokens, NEW taken, IsFiniteSet(taken)
  PROVE  \E i \in Nat \ {0} :
           /\ UniqueStringForKey(label, type, taken) = Key(label, type, i)
           /\ Key(label, type, i) \notin taken
           /\ i # 1 => Key(label, type, 1) \in taken
<1> DEFINE n == Cardinality(taken) + 1
           Free == {i \in 1..n : Key(label, type, i) \notin taken}
           First(i) == /\ Key(label, type, i) \notin taken
                       /\ \A j \in 1..(i - 1) : Key(label, type, j) \in taken
<1>1. Cardinality(taken) \in Nat
  BY FS_CardinalityType
<1>2. Free # {}
  <2> SUFFICES ASSUME Free = {} PROVE FALSE
    OBVIOUS
  <2> DEFINE f == [i \in 1..n |-> Key(label, type, i)]
  <2>1. f \in [1..n -> taken]
    OBVIOUS
  <2>2. IsFiniteSet(1..n) /\ Cardinality(1..n) = n
    <3>1. 1 \in Int /\ n \in Int /\ ~(1 > n) /\ n - 1 + 1 = n
      BY <1>1
    <3> HIDE DEF n
    <3>2. IsFiniteSet(1..n) /\ Cardinality(1..n) = IF 1 > n THEN 0 ELSE n - 1 + 1
      BY <3>1, FS_Interval
    <3> QED
      BY <3>1, <3>2
  <2>3. Cardinality(taken) < Cardinality(1..n)
    BY <1>1, <2>2
  <2>4. PICK i \in 1..n, j \in 1..n : i # j /\ f[i] = f[j]
    <3> DEFINE U == 1..n
    <3>1. f \in [U -> taken] /\ IsFiniteSet(U) /\ Cardinality(taken) < Cardinality(U)
      BY <2>1, <2>2, <2>3
    <3> HIDE DEF f, U
    <3>2. \E i, j \in U : i # j /\ f[i] = f[j]
      BY <3>1, FS_PigeonHole
    <3> QED
      BY <3>2 DEF U
  <2>5. i \in Nat /\ j \in Nat /\ Key(label, type, i) = Key(label, type, j)
    BY <2>4
  <2> QED
    BY <2>4, <2>5, KeysDiffer
<1>3. PICK i \in Free : \A j \in Free : i <= j
  <2>1. Free \subseteq Nat
    OBVIOUS
  <2> HIDE DEF Free
  <2> QED BY <1>2, <2>1, HasLeast
<1>4. i \in 1..n /\ First(i)
  <2>1. i \in 1..n /\ Key(label, type, i) \notin taken
    OBVIOUS
  <2>2. ASSUME NEW j \in 1..(i - 1) PROVE Key(label, type, j) \in taken
    <3>1. j \in 1..n /\ ~(i <= j)
      BY <1>1, <2>1
    <3> QED
      BY <1>3, <3>1
  <2> QED
    BY <2>1, <2>2
<1> DEFINE c == CHOOSE j \in 1..n : First(j)
<1>5. c \in 1..n /\ First(c)
  <2> HIDE DEF First, n
  <2> QED BY <1>4
<1>6. UniqueStringForKey(label, type, taken) = Key(label, type, c)
  BY DEF UniqueStringForKey
<1> HIDE DEF c
<1>7. c \in Nat \ {0} /\ (c # 1 => 1 \in 1..(c - 1))
  BY <1>1, <1>5
<1> QED
  BY <1>5, <1>6, <1>7

(* A label is the front of the keys made for it. *)
LEMMA KeyPrefix ==
  ASSUME NEW label \in Seq(Tokens), NEW type \in Tokens, NEW i \in Nat
  PROVE  IsStrictPrefix(label, Key(label, type, i))
<1> DEFINE key == Key(label, type, i)
           n == Len(label)
           a == SubSeq(label, 1, n)
           b == SubSeq(key, 1, n)
<1>1. n \in Nat /\ \A p \in 1..n : label[p] \in Tokens
  OBVIOUS
<1>2. key \in Seq(Tokens) /\ Len(key) = n + i + 1 /\ \A p \in 1..n : key[p] = label[p]
  <2>1. KeyOf(key, label, type, i)
    BY KeyIs
  <2> QED
    BY <2>1 DEF KeyOf
<1>3. label \in Seq(Tokens)
  OBVIOUS
<1> HIDE DEF key
<1>4. /\ a = [p \in 1..n |-> label[p]]
      /\ b = [p \in 1..n |-> key[p]]
  <2> DEFINE T == Tokens
  <2> HIDE DEF n
  <2>1. /\ a \in Seq(T) /\ Len(a) = IF 1 <= n THEN n - 1 + 1 ELSE 0
        /\ \A p \in 1..(n - 1 + 1) : a[p] = label[1 + p - 1]
    BY <1>1, <1>3, SubSeqProperties
  <2>2. /\ b \in Seq(T) /\ Len(b) = IF 1 <= n THEN n - 1 + 1 ELSE 0
        /\ \A p \in 1..(n - 1 + 1) : b[p] = key[1 + p - 1]
    <3>1. \A p \in 1..n : key[p] \in T
      BY <1>1, <1>2
    <3> QED
      BY <1>1, <1>2, <3>1, SubSeqProperties
  <2> HIDE DEF a, b
  <2>3. /\ Len(a) = n /\ \A p \in 1..n : a[p] = label[p]
        /\ Len(b) = n /\ \A p \in 1..n : b[p] = key[p]
    BY <1>1, <2>1, <2>2
  <2>4. a = [p \in 1..Len(a) |-> a[p]] /\ b = [p \in 1..Len(b) |-> b[p]]
    BY <2>1, <2>2
  <2> QED
    BY <2>3, <2>4
<1> HIDE DEF a, b
<1>5. a = b
  BY <1>2, <1>4
<1>6. n <= Len(key) /\ label # key
  BY <1>1, <1>2
<1> QED
  BY <1>5, <1>6 DEF IsStrictPrefix, IsPrefix, a, b, n, key

(* A key with one bracket is that of one label and type only. *)
LEMMA KeysOfOne ==
  ASSUME NEW l \in Seq(Tokens), NEW t \in Tokens, NEW m \in Seq(Tokens), NEW u \in Tokens,
         Key(l, t, 1) = Key(m, u, 1)
  PROVE  l = m /\ t = u
<1> DEFINE key == Key(l, t, 1)
<1>1. /\ Len(key) = Len(l) + 1 + 1 /\ \A p \in 1..Len(l) : key[p] = l[p]
      /\ key[Len(l) + 1 + 1] = t
  <2>1. KeyOf(key, l, t, 1)
    BY KeyIs
  <2> QED
    BY <2>1 DEF KeyOf
<1>2. /\ Len(key) = Len(m) + 1 + 1 /\ \A p \in 1..Len(m) : key[p] = m[p]
      /\ key[Len(m) + 1 + 1] = u
  <2>1. KeyOf(Key(m, u, 1), m, u, 1)
    BY KeyIs
  <2> QED
    BY <2>1 DEF KeyOf
<1>3. Len(l) \in Nat /\ Len(m) \in Nat
  OBVIOUS
<1>4. l = [p \in 1..Len(l) |-> l[p]] /\ m = [p \in 1..Len(m) |-> m[p]]
  OBVIOUS
<1> HIDE DEF key
<1>5. Len(l) = Len(m)
  BY <1>1, <1>2, <1>3
<1> QED
  BY <1>1, <1>2, <1>4, <1>5

(* The pieces of a layout. *)
LEMMA PiecesTyped ==
  ASSUME NEW pieces \in PieceLists
  PROVE  /\ Len(pieces) \in Nat /\ DOMAIN pieces = 1..Len(pieces)
         /\ \A k \in DOMAIN pieces : pieces[k].label \in Seq(Tokens) /\ pieces[k].type \in Tokens
         /\ \A j, k \in DOMAIN pieces :
              pieces[j].label = pieces[k].label /\ pieces[j].type = pieces[k].type => j = k
<1> DEFINE L == Seq(STRING)
           T == STRING
           R == [label : L, type : T]
<1>1. pieces \in Seq(R) /\ \A j, k \in DOMAIN pieces : pieces[j] = pieces[k] => j = k
  BY MetadataKeysAssumption
<1>2. \A label \in L : label \in Seq(Tokens)
  <2> SUFFICES ASSUME NEW label \in Seq(T) PROVE label \in Seq(Tokens)
    OBVIOUS
  <2>1. T \subseteq Tokens
    BY DEF Tokens
  <2> HIDE DEF T
  <2> QED
    BY <2>1
<1>3. T \subseteq Tokens
  BY DEF Tokens
<1> HIDE DEF L, T
<1>4. \A x, y \in R : x.label = y.label /\ x.type = y.type => x = y
  OBVIOUS
<1>5. \A x \in R : x.label \in L /\ x.type \in T
  OBVIOUS
<1> HIDE DEF R
<1>6. Len(pieces) \in Nat /\ DOMAIN pieces = 1..Len(pieces) /\ \A k \in DOMAIN pieces : pieces[k] \in R
  BY <1>1
<1>7. \A k \in DOMAIN pieces : pieces[k].label \in Seq(Tokens) /\ pieces[k].type \in Tokens
  BY <1>2, <1>3, <1>5, <1>6
<1>8. \A j, k \in DOMAIN pieces :
        pieces[j].label = pieces[k].label /\ pieces[j].type = pieces[k].type => j = k
  BY <1>1, <1>4, <1>6
<1> QED
  BY <1>6, <1>7, <1>8

-----------------------------------------------------------------------------
(* The loop of stringify_metadata_keys.                                    *)

(* Key x of piece j is its label, with the type removed, or made of both.  *)
Own(pieces, x, j, removed) == x = pieces[j].label /\ x \in DOMAIN removed

Made(pieces, x, j, ambiguous) ==
  /\ pieces[j].label \in ambiguous
  /\ \E i \in Nat \ {0} : /\ x = Key(pieces[j].label, pieces[j].type, i)
                          /\ KeyLikeLabel(pieces) \/ i = 1

(* The keys so far are those of the pieces at the places S, one of each:   *)
(* its label if that is not ambiguous.                                     *)
Keyed(pieces, filtered, S, ambiguous, removed) ==
  /\ IsFiniteSet(DOMAIN filtered)
  /\ \A x \in DOMAIN filtered : filtered[x] \in S
  /\ \A x, y \in DOMAIN filtered : filtered[x] = filtered[y] => x = y
  /\ \A j \in S : \E x \in DOMAIN filtered : filtered[x] = j
  /\ \A x \in DOMAIN filtered : \/ Own(pieces, x, filtered[x], removed)
                                \/ Made(pieces, x, filtered[x], ambiguous)
  /\ \A l \in DOMAIN removed : /\ l \in DOMAIN filtered /\ pieces[filtered[l]].label = l
                               /\ pieces[filtered[l]].type = removed[l] /\ l \notin ambiguous
  /\ \A j \in S : \/ pieces[j].label \in ambiguous
                  \/ /\ pieces[j].label \in DOMAIN removed
                     /\ filtered[pieces[j].label] = j

Maps(V) == UNION {[X -> V] : X \in SUBSET Seq(Tokens)}

PutGives(V, f, x, v, g) ==
  /\ g \in Maps(V) /\ DOMAIN g = DOMAIN f \cup {x} /\ g[x] = v
  /\ \A y \in DOMAIN f : y # x => g[y] = f[y]

LEMMA PutIs ==
  ASSUME NEW V, NEW f \in Maps(V), NEW x \in Seq(Tokens), NEW v \in V
  PROVE  PutGives(V, f, x, v, Put(f, x, v))
<1> DEFINE K == Seq(Tokens)
<1>1. PICK X \in SUBSET K : f \in [X -> V]
  BY DEF Maps
<1>2. x \in K
  OBVIOUS
<1> HIDE DEF K
<1>3. Put(f, x, v) = [y \in X \cup {x} |-> IF y = x THEN v ELSE f[y]]
  BY <1>1 DEF Put
<1>4. Put(f, x, v) \in [X \cup {x} -> V]
  BY <1>1, <1>3
<1>5. X \cup {x} \in SUBSET K
  BY <1>1, <1>2
<1>6. Put(f, x, v) \in Maps(V)
  BY <1>4, <1>5 DEF Maps, K
<1> QED
  BY <1>1, <1>3, <1>6 DEF PutGives

WithoutGives(V, f, x, g) ==
  /\ g \in Maps(V) /\ DOMAIN g = DOMAIN f \ {x}
  /\ \A y \in DOMAIN f : y # x => g[y] = f[y]

LEMMA WithoutIs ==
  ASSUME NEW V, NEW f \in Maps(V), NEW x
  PROVE  WithoutGives(V, f, x, Without(f, x))
<1> DEFINE K == Seq(Tokens)
<1>1. PICK X \in SUBSET K : f \in [X -> V]
  BY DEF Maps
<1> HIDE DEF K
<1>2. Without(f, x) = [y \in X \ {x} |-> f[y]]
  BY <1>1 DEF Without
<1>3. Without(f, x) \in [X \ {x} -> V] /\ X \ {x} \in SUBSET K
  BY <1>1, <1>2
<1>4. Without(f, x) \in Maps(V)
  BY <1>3 DEF Maps, K
<1> QED
  BY <1>1, <1>2, <1>4 DEF WithoutGives

(* A piece with an ambiguous label gets a key next to the others. *)
LEMMA AddMade ==
  ASSUME NEW pieces \in PieceLists, NEW S \in SUBSET (DOMAIN pieces), NEW f \in Maps(Nat),
         NEW ambiguous, NEW removed, Keyed(pieces, f, S, ambiguous, removed),
         NEW k \in DOMAIN pieces, k \notin S, pieces[k].label \in ambiguous
  PROVE  /\ PutUnique(f, pieces[k].label, pieces[k].type, k) \in Maps(Nat)
         /\ Keyed(pieces, PutUnique(f, pieces[k].label, pieces[k].type, k), S \cup {k},
                  ambiguous, removed)
<1> DEFINE l == pieces[k].label
           t == pieces[k].type
           u == UniqueStringForKey(l, t, DOMAIN f)
           g == Put(f, u, k)
<1>1. l \in Seq(Tokens) /\ t \in Tokens /\ k \in Nat
  BY PiecesTyped
<1>2. PICK i \in Nat \ {0} : /\ u = Key(l, t, i) /\ Key(l, t, i) \notin DOMAIN f
                             /\ i # 1 => Key(l, t, 1) \in DOMAIN f
  <2>1. IsFiniteSet(DOMAIN f)
    BY DEF Keyed
  <2> HIDE DEF l, t
  <2> QED
    BY <1>1, <2>1, UniqueKey
<1>3. u \in Seq(Tokens) /\ u \notin DOMAIN f
  <2>1. KeyOf(Key(l, t, i), l, t, i)
    <3> HIDE DEF l, t
    <3> QED BY <1>1, <1>2, KeyIs
  <2> QED
    BY <1>2, <2>1 DEF KeyOf
<1>4. KeyLikeLabel(pieces) \/ i = 1
  <2> SUFFICES ASSUME i # 1 PROVE KeyLikeLabel(pieces)
    OBVIOUS
  <2> DEFINE x == Key(l, t, 1)
  <2>1. x \in DOMAIN f
    BY <1>2
  <2>2. f[x] \in S /\ f[x] \in DOMAIN pieces
    BY <2>1 DEF Keyed
  <2>3. CASE Own(pieces, x, f[x], removed)
    <3>1. IsStrictPrefix(l, x)
      <4> HIDE DEF l, t
      <4> QED BY <1>1, KeyPrefix
    <3>2. x = pieces[f[x]].label
      BY <2>3 DEF Own
    <3> QED
      BY <2>2, <3>1, <3>2 DEF KeyLikeLabel
  <2>4. CASE Made(pieces, x, f[x], ambiguous)
    <3> DEFINE m == pieces[f[x]].label
               v == pieces[f[x]].type
    <3>1. KeyLikeLabel(pieces) \/ x = Key(m, v, 1)
      BY <2>4 DEF Made
    <3>2. m \in Seq(Tokens) /\ v \in Tokens
      BY <2>2, PiecesTyped
    <3>3. x = Key(m, v, 1) => l = m /\ t = v
      <4> HIDE DEF l, t, m, v
      <4> QED BY <1>1, <3>2, KeysOfOne
    <3>4. l = m /\ t = v => f[x] = k
      BY <2>2, PiecesTyped
    <3> QED
      BY <2>2, <3>1, <3>3, <3>4
  <2> QED
    BY <2>1, <2>3, <2>4 DEF Keyed
<1>5. Made(pieces, u, k, ambiguous)
  BY <1>2, <1>4 DEF Made
<1> HIDE DEF u
<1>6. /\ g \in Maps(Nat) /\ DOMAIN g = DOMAIN f \cup {u} /\ g[u] = k
      /\ \A y \in DOMAIN f : y # u => g[y] = f[y]
  <2> DEFINE V == Nat
  <2>1. f \in Maps(V) /\ k \in V
    BY <1>1
  <2> HIDE DEF V, l, t
  <2>2. PutGives(V, f, u, k, g)
    BY <1>3, <2>1, PutIs
  <2> QED
    BY <2>2 DEF V, PutGives
<1> HIDE DEF g
<1>7. \A y \in DOMAIN f : y \in DOMAIN g /\ y # u /\ g[y] = f[y]
  BY <1>3, <1>6
<1>8. \A y \in DOMAIN g : y \in DOMAIN f \/ y = u
  BY <1>6
<1>9. IsFiniteSet(DOMAIN g)
  BY <1>6, FS_AddElement DEF Keyed
<1>10. \A x \in DOMAIN g : g[x] \in S \cup {k}
  BY <1>6, <1>7, <1>8 DEF Keyed
<1>11. \A x, y \in DOMAIN g : g[x] = g[y] => x = y
  BY <1>6, <1>7, <1>8 DEF Keyed
<1>12. \A j \in S \cup {k} : \E x \in DOMAIN g : g[x] = j
  BY <1>6, <1>7 DEF Keyed
<1>13. \A x \in DOMAIN g : Own(pieces, x, g[x], removed) \/ Made(pieces, x, g[x], ambiguous)
  BY <1>5, <1>6, <1>7, <1>8 DEF Keyed
<1>14. \A m \in DOMAIN removed : /\ m \in DOMAIN g /\ pieces[g[m]].label = m
                                 /\ pieces[g[m]].type = removed[m] /\ m \notin ambiguous
  BY <1>7 DEF Keyed
<1>15. \A j \in S \cup {k} : \/ pieces[j].label \in ambiguous
                             \/ /\ pieces[j].label \in DOMAIN removed
                                /\ g[pieces[j].label] = j
  BY <1>7 DEF Keyed
<1>16. Keyed(pieces, g, S \cup {k}, ambiguous, removed)
  BY <1>9, <1>10, <1>11, <1>12, <1>13, <1>14, <1>15, Zenon DEF Keyed
<1>17. PutUnique(f, l, t, k) = g
  BY DEF PutUnique, g, u
<1> QED
  BY <1>6, <1>16, <1>17

(* The loop's state after k pieces.                                        *)
States == [filtered : Maps(Nat), removed : Maps(Tokens), ambiguous : SUBSET Seq(Tokens),
           raised : BOOLEAN]

Twice(pieces, k, l) ==
  \E i, j \in 1..k : i # j /\ pieces[i].label = l /\ pieces[j].label = l

KeyedUpTo(pieces, k, state) ==
  /\ Keyed(pieces, state.filtered, 1..k, state.ambiguous, state.removed)
  /\ \A l \in state.ambiguous : Twice(pieces, k, l)

StateOK(pieces, k, state) ==
  /\ state \in States
  /\ state.raised => KeyLikeLabel(pieces)
  /\ ~state.raised => KeyedUpTo(pieces, k, state)

IsState(state, f, r, a, b) ==
  /\ state \in States /\ state.filtered = f /\ state.removed = r
  /\ state.ambiguous = a /\ state.raised = b

LEMMA StateType ==
  ASSUME NEW f \in Maps(Nat), NEW r \in Maps(Tokens), NEW a \in SUBSET Seq(Tokens),
         NEW b \in BOOLEAN
  PROVE  IsState(State(f, r, a, b), f, r, a, b)
<1> DEFINE F == Maps(Nat)
           R == Maps(Tokens)
           A == SUBSET Seq(Tokens)
<1>1. f \in F /\ r \in R /\ a \in A /\ b \in BOOLEAN
  OBVIOUS
<1>2. States = [filtered : F, removed : R, ambiguous : A, raised : BOOLEAN]
  BY DEF States
<1> HIDE DEF F, R, A
<1>3. State(f, r, a, b) \in States
  BY <1>1, <1>2 DEF State
<1>4. /\ State(f, r, a, b).filtered = f /\ State(f, r, a, b).removed = r
      /\ State(f, r, a, b).ambiguous = a
  BY DEF State
<1>5. State(f, r, a, b).raised = b
  BY Zenon DEF State
<1> QED
  BY <1>3, <1>4, <1>5, Zenon DEF IsState

LEMMA NotRaised ==
  ASSUME NEW pieces, NEW k, NEW f \in Maps(Nat), NEW r \in Maps(Tokens),
         NEW a \in SUBSET Seq(Tokens),
         Keyed(pieces, f, 1..k, a, r), \A l \in a : Twice(pieces, k, l)
  PROVE  StateOK(pieces, k, State(f, r, a, FALSE))
<1> DEFINE s == State(f, r, a, FALSE)
<1>1. IsState(s, f, r, a, FALSE)
  BY StateType
<1> HIDE DEF s
<1>2. KeyedUpTo(pieces, k, s)
  BY <1>1, Zenon DEF IsState, KeyedUpTo
<1>3. StateOK(pieces, k, s)
  BY <1>1, <1>2, Zenon DEF IsState, StateOK
<1> QED
  BY <1>3 DEF s

(* One round of the loop. *)
LEMMA TakePieceOK ==
  ASSUME NEW pieces \in PieceLists, NEW k \in 1..Len(pieces), NEW s, StateOK(pieces, k - 1, s)
  PROVE  StateOK(pieces, k, TakePiece(pieces, s, k))
<1> DEFINE l == pieces[k].label
           t == pieces[k].type
           S == 1..(k - 1)
           f == s.filtered
           r == s.removed
           a == s.ambiguous
           end == TakePiece(pieces, s, k)
<1>1. /\ k \in DOMAIN pieces /\ k \in Nat /\ k \notin S /\ S \cup {k} = 1..k
      /\ S \subseteq DOMAIN pieces
  BY PiecesTyped
<1>2. l \in Seq(Tokens) /\ t \in Tokens
  BY <1>1, PiecesTyped
<1>3. f \in Maps(Nat) /\ r \in Maps(Tokens) /\ a \in SUBSET Seq(Tokens)
  BY DEF StateOK, States
<1>4. CASE s.raised
  <2>1. end = s
    BY <1>4, Zenon DEF TakePiece
  <2>2. StateOK(pieces, k, s)
    BY <1>4, Zenon DEF StateOK
  <2> QED
    BY <2>1, <2>2, Zenon
<1> SUFFICES ASSUME ~s.raised PROVE StateOK(pieces, k, end)
  BY <1>4, Zenon
<1>5. Keyed(pieces, f, S, a, r) /\ \A m \in a : Twice(pieces, k - 1, m)
  BY Zenon DEF StateOK, KeyedUpTo
<1>6. \A m \in a : Twice(pieces, k, m)
  <2>1. \A i \in 1..(k - 1) : i \in 1..k
    BY <1>1
  <2> QED
    BY <1>5, <2>1 DEF Twice
<1>7. CASE l \in a
  <2> DEFINE g == PutUnique(f, l, t, k)
  <2>1. g \in Maps(Nat) /\ Keyed(pieces, g, S \cup {k}, a, r)
    <3>1. g \in Maps(Nat)
      BY <1>1, <1>3, <1>5, <1>7, AddMade
    <3>2. Keyed(pieces, g, S \cup {k}, a, r)
      BY <1>1, <1>3, <1>5, <1>7, AddMade
    <3> QED
      BY <3>1, <3>2
  <2>2. end = State(g, r, a, FALSE)
    BY <1>7, Zenon DEF TakePiece
  <2> HIDE DEF g, S, f, r, a, end
  <2>3. Keyed(pieces, g, 1..k, a, r)
    BY <1>1, <2>1
  <2>4. StateOK(pieces, k, State(g, r, a, FALSE))
    BY <1>3, <1>6, <2>1, <2>3, NotRaised
  <2> QED
    BY <2>2, <2>4
<1>8. CASE l \notin a /\ l \notin DOMAIN f
  <2> DEFINE g == Put(f, l, k)
             q == Put(r, l, t)
  <2>1. end = State(g, q, a, FALSE)
    BY <1>8, Zenon DEF TakePiece
  <2>2. PutGives(Nat, f, l, k, g)
    <3> DEFINE V == Nat
    <3>1. f \in Maps(V) /\ k \in V
      BY <1>1, <1>3
    <3> HIDE DEF V, l, f
    <3>2. PutGives(V, f, l, k, g)
      BY <1>2, <3>1, PutIs
    <3> QED
      BY <3>2 DEF V
  <2>3. PutGives(Tokens, r, l, t, q)
    <3> HIDE DEF l, t, r
    <3> QED BY <1>2, <1>3, PutIs
  <2> HIDE DEF g, q, f, r, a, S, end
  <2>4. g \in Maps(Nat) /\ q \in Maps(Tokens)
    BY <2>2, <2>3 DEF PutGives
  <2>5. /\ DOMAIN g = DOMAIN f \cup {l} /\ g[l] = k
        /\ \A x \in DOMAIN f : x \in DOMAIN g /\ x # l /\ g[x] = f[x]
        /\ \A x \in DOMAIN g : x \in DOMAIN f \/ x = l
    BY <1>8, <2>2 DEF PutGives
  <2>6. l \notin DOMAIN r
    BY <1>5, <1>8 DEF Keyed
  <2>7. /\ l \in DOMAIN q /\ q[l] = t
        /\ \A x \in DOMAIN r : x \in DOMAIN q /\ x # l /\ q[x] = r[x]
        /\ \A x \in DOMAIN q : x \in DOMAIN r \/ x = l
    BY <2>3, <2>6 DEF PutGives
  <2>8. IsFiniteSet(DOMAIN g)
    BY <1>5, <2>5, FS_AddElement DEF Keyed
  <2>9. \A x \in DOMAIN g : g[x] \in S \cup {k}
    BY <1>5, <2>5 DEF Keyed
  <2>10. \A x, y \in DOMAIN g : g[x] = g[y] => x = y
    BY <1>1, <1>5, <2>5 DEF Keyed
  <2>11. \A j \in S \cup {k} : \E x \in DOMAIN g : g[x] = j
    BY <1>5, <2>5 DEF Keyed
  <2>12. \A x \in DOMAIN g : Own(pieces, x, g[x], q) \/ Made(pieces, x, g[x], a)
    BY <1>5, <2>5, <2>7 DEF Keyed, Own
  <2>13. \A m \in DOMAIN q : /\ m \in DOMAIN g /\ pieces[g[m]].label = m
                             /\ pieces[g[m]].type = q[m] /\ m \notin a
    BY <1>5, <1>8, <2>5, <2>7 DEF Keyed
  <2>14. \A j \in S \cup {k} : \/ pieces[j].label \in a
                               \/ pieces[j].label \in DOMAIN q /\ g[pieces[j].label] = j
    BY <1>5, <2>5, <2>7 DEF Keyed
  <2>15. Keyed(pieces, g, S \cup {k}, a, q)
    BY <2>8, <2>9, <2>10, <2>11, <2>12, <2>13, <2>14, Zenon DEF Keyed
  <2>16. Keyed(pieces, g, 1..k, a, q)
    BY <1>1, <2>15
  <2>17. StateOK(pieces, k, State(g, q, a, FALSE))
    BY <1>3, <1>6, <2>4, <2>16, NotRaised
  <2> QED
    BY <2>1, <2>17
<1>9. CASE l \notin a /\ l \in DOMAIN f /\ l \in DOMAIN r
  <2> DEFINE o == f[l]
             rest == Without(f, l)
             q == Without(r, l)
             b == a \cup {l}
             old == PutUnique(rest, l, r[l], o)
             g == PutUnique(old, l, t, k)
  <2>1. end = State(g, q, b, FALSE)
    BY <1>9, Zenon DEF TakePiece
  <2>2. o \in S /\ pieces[o].label = l /\ pieces[o].type = r[l]
    BY <1>5, <1>9 DEF Keyed
  <2>3. /\ rest \in Maps(Nat) /\ DOMAIN rest = DOMAIN f \ {l}
        /\ \A x \in DOMAIN rest : x \in DOMAIN f /\ x # l /\ rest[x] = f[x]
    <3>1. WithoutGives(Nat, f, l, rest)
      <4> HIDE DEF l, f
      <4> QED BY <1>3, WithoutIs
    <3> HIDE DEF l, f, rest
    <3> QED
      BY <3>1 DEF WithoutGives
  <2>4. /\ q \in Maps(Tokens) /\ DOMAIN q = DOMAIN r \ {l}
        /\ \A x \in DOMAIN q : x \in DOMAIN r /\ x # l /\ q[x] = r[x]
    <3>1. WithoutGives(Tokens, r, l, q)
      <4> HIDE DEF l, r
      <4> QED BY <1>3, WithoutIs
    <3> HIDE DEF l, r, q
    <3> QED
      BY <3>1 DEF WithoutGives
  <2>5. b \in SUBSET Seq(Tokens)
    BY <1>2, <1>3
  <2>6. \A x \in DOMAIN f : x # l => x \in DOMAIN rest
    BY <2>3
  <2>7. \A x \in DOMAIN r : x # l => x \in DOMAIN q
    BY <2>4
  <2>8. Keyed(pieces, rest, S \ {o}, b, q)
    <3> HIDE DEF rest, q, f, r, a, S, l
    <3>1. IsFiniteSet(DOMAIN rest)
      BY <1>5, <2>3, FS_RemoveElement DEF Keyed
    <3>2. \A x \in DOMAIN rest : rest[x] \in S \ {o}
      BY <1>5, <1>9, <2>3 DEF Keyed
    <3>3. \A x, y \in DOMAIN rest : rest[x] = rest[y] => x = y
      BY <1>5, <2>3 DEF Keyed
    <3>4. \A j \in S \ {o} : \E x \in DOMAIN rest : rest[x] = j
      BY <1>5, <2>3, <2>6 DEF Keyed
    <3>5. \A x \in DOMAIN rest : Own(pieces, x, rest[x], q) \/ Made(pieces, x, rest[x], b)
      BY <1>5, <2>3, <2>7 DEF Keyed, Own, Made
    <3>6. \A m \in DOMAIN q : /\ m \in DOMAIN rest /\ pieces[rest[m]].label = m
                              /\ pieces[rest[m]].type = q[m] /\ m \notin b
      BY <1>5, <2>3, <2>4, <2>6 DEF Keyed
    <3>7. \A j \in S \ {o} : \/ pieces[j].label \in b
                             \/ pieces[j].label \in DOMAIN q /\ rest[pieces[j].label] = j
      BY <1>5, <2>3, <2>6, <2>7 DEF Keyed
    <3> QED
      BY <3>1, <3>2, <3>3, <3>4, <3>5, <3>6, <3>7, Zenon DEF Keyed
  <2>9. old \in Maps(Nat) /\ Keyed(pieces, old, (S \ {o}) \cup {o}, b, q)
    <3> DEFINE U == S \ {o}
    <3>1. U \in SUBSET (DOMAIN pieces) /\ o \in DOMAIN pieces /\ o \notin U /\ pieces[o].label \in b
      BY <1>1, <2>2
    <3>2. old = PutUnique(rest, pieces[o].label, pieces[o].type, o)
      BY <2>2
    <3> HIDE DEF U, rest, old, b, q, o
    <3>3. PutUnique(rest, pieces[o].label, pieces[o].type, o) \in Maps(Nat)
      BY <2>3, <2>8, <3>1, AddMade DEF U
    <3>4. Keyed(pieces, PutUnique(rest, pieces[o].label, pieces[o].type, o), U \cup {o}, b, q)
      BY <2>3, <2>8, <3>1, AddMade DEF U
    <3> QED
      BY <3>2, <3>3, <3>4 DEF U
  <2>10. (S \ {o}) \cup {o} = S
    BY <2>2
  <2>11. g \in Maps(Nat) /\ Keyed(pieces, g, S \cup {k}, b, q)
    <3>1. Keyed(pieces, old, S, b, q) /\ S \in SUBSET (DOMAIN pieces) /\ l \in b
      <4> HIDE DEF old, S, b, q, l, o
      <4>1. Keyed(pieces, old, S, b, q) /\ S \in SUBSET (DOMAIN pieces)
        BY <1>1, <2>9, <2>10
      <4> QED
        BY <4>1 DEF b
    <3> HIDE DEF old, S, b, q
    <3>2. g \in Maps(Nat)
      BY <1>1, <2>9, <3>1, AddMade
    <3>3. Keyed(pieces, g, S \cup {k}, b, q)
      BY <1>1, <2>9, <3>1, AddMade
    <3> QED
      BY <3>2, <3>3
  <2>12. \A m \in b : Twice(pieces, k, m)
    <3>1. Twice(pieces, k, l)
      <4>1. o \in 1..k /\ k \in 1..k /\ o # k
        BY <1>1, <2>2
      <4> QED
        BY <2>2, <4>1 DEF Twice
    <3> QED
      BY <1>6, <3>1
  <2> HIDE DEF g, q, b, S, end
  <2>13. Keyed(pieces, g, 1..k, b, q)
    BY <1>1, <2>11
  <2>14. StateOK(pieces, k, State(g, q, b, FALSE))
    BY <2>4, <2>5, <2>11, <2>12, <2>13, NotRaised
  <2> QED
    BY <2>1, <2>14
<1>10. CASE l \notin a /\ l \in DOMAIN f /\ l \notin DOMAIN r
  <2>1. end = State(f, r, a, TRUE)
    BY <1>10, Zenon DEF TakePiece
  <2>2. KeyLikeLabel(pieces)
    <3> DEFINE j == f[l]
    <3>1. j \in DOMAIN pieces
      BY <1>1, <1>5, <1>10 DEF Keyed
    <3>2. Made(pieces, l, j, a)
      BY <1>5, <1>10 DEF Keyed, Own
    <3>3. PICK i \in Nat : l = Key(pieces[j].label, pieces[j].type, i)
      BY <3>2 DEF Made
    <3>4. pieces[j].label \in Seq(Tokens) /\ pieces[j].type \in Tokens
      BY <3>1, PiecesTyped
    <3>5. IsStrictPrefix(pieces[j].label, l)
      BY <3>3, <3>4, KeyPrefix
    <3> QED
      BY <1>1, <3>1, <3>5 DEF KeyLikeLabel
  <2> HIDE DEF f, r, a, end
  <2>3. IsState(State(f, r, a, TRUE), f, r, a, TRUE)
    BY <1>3, StateType
  <2>4. StateOK(pieces, k, State(f, r, a, TRUE))
    BY <2>2, <2>3, Zenon DEF IsState, StateOK
  <2> QED
    BY <2>1, <2>4
<1> QED
  BY <1>7, <1>8, <1>9, <1>10, Zenon

(* The loop, over all the pieces. *)
LEMMA Stringified ==
  ASSUME NEW pieces \in PieceLists
  PROVE  StateOK(pieces, Len(pieces), StringifyMetadataKeys(pieces))
<1> DEFINE n == Len(pieces)
           step == [k \in 1..n |-> [s \in States |->
                      IF TakePiece(pieces, s, k) \in States THEN TakePiece(pieces, s, k)
                      ELSE Start]]
           P(g) == g = [k \in 0..Len(pieces) |->
                          IF k = 0 THEN Start ELSE TakePiece(pieces, g[k - 1], k)]
           state == CHOOSE g : P(g)
<1>1. n \in Nat
  BY PiecesTyped
<1>2. StateOK(pieces, 0, Start)
  <2> DEFINE empty == [x \in {} |-> 0]
             none == [x \in {} |-> ""]
             N0 == Nat
             K == Seq(Tokens)
  <2>1. empty \in Maps(Nat) /\ DOMAIN empty = {}
    <3>1. empty \in [{} -> N0] /\ {} \in SUBSET K
      OBVIOUS
    <3> HIDE DEF empty, N0, K
    <3>2. empty \in UNION {[X -> N0] : X \in SUBSET K}
      BY <3>1
    <3> QED
      BY <3>1, <3>2 DEF Maps, N0, K
  <2>2. none \in Maps(Tokens) /\ DOMAIN none = {}
    <3>1. none \in [{} -> Tokens] /\ {} \in SUBSET K
      OBVIOUS
    <3> HIDE DEF none, K
    <3>2. none \in UNION {[X -> Tokens] : X \in SUBSET K}
      BY <3>1
    <3> QED
      BY <3>1, <3>2 DEF Maps, K
  <2>3. Start = State(empty, none, {}, FALSE)
    BY DEF Start
  <2> HIDE DEF empty, none
  <2>4. Keyed(pieces, empty, 1..0, {}, none)
    BY <2>1, <2>2, FS_EmptySet DEF Keyed
  <2>5. {} \in SUBSET Seq(Tokens) /\ \A l \in {} : Twice(pieces, 0, l)
    OBVIOUS
  <2>6. StateOK(pieces, 0, State(empty, none, {}, FALSE))
    BY <2>1, <2>2, <2>4, <2>5, NotRaised
  <2> QED
    BY <2>3, <2>6
<1>3. Start \in States
  BY <1>2 DEF StateOK
<1>4. step \in [1..n -> [States -> States]]
  <2> DEFINE D == States
             R(k, s) == IF TakePiece(pieces, s, k) \in D THEN TakePiece(pieces, s, k) ELSE Start
  <2>1. \A k \in 1..n, s \in D : R(k, s) \in D
    BY <1>3
  <2>2. step = [k \in 1..n |-> [s \in D |-> R(k, s)]]
    OBVIOUS
  <2> HIDE DEF step, n, D, R
  <2>3. step \in [1..n -> [D -> D]]
    BY <2>1, <2>2
  <2> QED
    BY <2>3 DEF D
<1>5. PICK f \in [0..n -> States] : Iterates(f, n, Start, step)
  <2> HIDE DEF n, step
  <2> QED BY <1>1, <1>3, <1>4, Recursion
<1>6. f[0] = Start /\ \A k \in 1..n : f[k] = step[k][f[k - 1]]
  BY <1>5, Zenon DEF Iterates
<1>7. ASSUME NEW k \in 1..n, StateOK(pieces, k - 1, f[k - 1])
      PROVE  f[k] = TakePiece(pieces, f[k - 1], k) /\ StateOK(pieces, k, f[k])
  <2>1. StateOK(pieces, k, TakePiece(pieces, f[k - 1], k))
    BY <1>7, TakePieceOK
  <2>2. TakePiece(pieces, f[k - 1], k) \in States /\ f[k - 1] \in States
    BY <1>7, <2>1 DEF StateOK
  <2>3. step[k][f[k - 1]] = TakePiece(pieces, f[k - 1], k)
    BY <2>2
  <2> HIDE DEF step, n
  <2> QED
    BY <1>6, <2>1, <2>3
<1> DEFINE S == {k \in 0..n : StateOK(pieces, k, f[k])}
<1>8. 0..n \subseteq S
  <2>1. 0 \in S
    BY <1>1, <1>2, <1>6
  <2>2. ASSUME NEW k \in 0..(n - 1), k \in S PROVE k + 1 \in S
    <3>1. k + 1 \in 1..n /\ k + 1 \in 0..n /\ (k + 1) - 1 = k
      BY <1>1
    <3>2. StateOK(pieces, (k + 1) - 1, f[(k + 1) - 1])
      BY <2>2, <3>1
    <3> HIDE DEF n
    <3>3. StateOK(pieces, k + 1, f[k + 1])
      BY <1>7, <3>1, <3>2
    <3> QED
      BY <3>1, <3>3
  <2> HIDE DEF S, n
  <2> QED
    BY <1>1, <2>1, <2>2, Induction
<1>9. P(f)
  <2>1. \A k \in 1..n : f[k] = TakePiece(pieces, f[k - 1], k)
    <3>1. \A k \in 1..n : k - 1 \in 0..n
      BY <1>1
    <3>2. \A k \in 1..n : StateOK(pieces, k - 1, f[k - 1])
      BY <1>8, <3>1
    <3> HIDE DEF n
    <3> QED
      BY <1>7, <3>2
  <2>2. \A k \in 0..n : k # 0 => k \in 1..n
    BY <1>1
  <2>3. \A k \in 0..n : f[k] = IF k = 0 THEN Start ELSE TakePiece(pieces, f[k - 1], k)
    BY <1>6, <2>1, <2>2, Zenon
  <2> QED
    BY <1>5, <2>3
<1>10. P(state)
  <2> HIDE DEF P
  <2> QED BY <1>9
<1>11. StringifyMetadataKeys(pieces) = state[n]
  BY DEF StringifyMetadataKeys
<1> HIDE DEF state
<1>12. state[0] = Start /\ \A k \in 1..n : state[k] = TakePiece(pieces, state[k - 1], k)
  <2>1. 0 \in 0..n /\ \A k \in 1..n : k \in 0..n /\ k # 0
    BY <1>1
  <2>2. \A k \in 0..n : state[k] = IF k = 0 THEN Start ELSE TakePiece(pieces, state[k - 1], k)
    BY <1>10
  <2> HIDE DEF n
  <2> QED
    BY <2>1, <2>2, Zenon
<1> DEFINE Q == {k \in 0..n : StateOK(pieces, k, state[k])}
<1>13. 0..n \subseteq Q
  <2>1. 0 \in Q
    BY <1>1, <1>2, <1>12
  <2>2. ASSUME NEW k \in 0..(n - 1), k \in Q PROVE k + 1 \in Q
    <3>1. k + 1 \in 1..n /\ k + 1 \in 0..n /\ (k + 1) - 1 = k
      BY <1>1
    <3>2. StateOK(pieces, (k + 1) - 1, state[k])
      BY <2>2, <3>1
    <3>3. StateOK(pieces, k + 1, TakePiece(pieces, state[k], k + 1))
      BY <3>1, <3>2, TakePieceOK
    <3>4. state[k + 1] = TakePiece(pieces, state[k], k + 1)
      <4> HIDE DEF n
      <4> QED BY <1>12, <3>1
    <3> QED
      BY <3>1, <3>3, <3>4
  <2> HIDE DEF Q, n
  <2> QED
    BY <1>1, <2>1, <2>2, Induction
<1>14. n \in Q
  BY <1>1, <1>13
<1> QED
  BY <1>11, <1>14

(* Under the keys at the end each piece is found. *)
Found(pieces, keys) ==
  /\ Cardinality(DOMAIN keys) = Len(pieces)
  /\ {keys[key] : key \in DOMAIN keys} = DOMAIN pieces
  /\ ~KeyLikeLabel(pieces) =>
       \A k \in DOMAIN pieces :
         keys[IF Shared(pieces, k) THEN pieces[k].label \o <<"<", pieces[k].type>>
                                   ELSE pieces[k].label] = k

LEMMA PiecesFound ==
  ASSUME NEW pieces \in PieceLists, NEW f, NEW a, NEW r,
         Keyed(pieces, f, 1..Len(pieces), a, r), \A l \in a : Twice(pieces, Len(pieces), l)
  PROVE  Found(pieces, f)
<1> DEFINE n == Len(pieces)
           S == 1..n
           X == DOMAIN f
<1>1. n \in Nat /\ DOMAIN pieces = S
  BY PiecesTyped
<1>2. /\ IsFiniteSet(X) /\ \A x \in X : f[x] \in S
      /\ \A x, y \in X : f[x] = f[y] => x = y
      /\ \A j \in S : \E x \in X : f[x] = j
  BY DEF Keyed
<1>3. {f[key] : key \in X} = S
  <2> HIDE DEF S, X
  <2> QED BY <1>2
<1>4. Cardinality(X) = n
  <2> DEFINE g == [x \in X |-> f[x]]
  <2>1. ExistsBijection(X, S)
    <3> HIDE DEF S, X
    <3>1. g \in [X -> S]
      BY <1>2
    <3>2. \A x, y \in X : g[x] = g[y] => x = y
      BY <1>2
    <3>3. \A j \in S : \E x \in X : g[x] = j
      BY <1>2
    <3> HIDE DEF g
    <3>4. g \in Bijection(X, S)
      BY <3>1, <3>2, <3>3 DEF Bijection, Injection, Surjection, IsInjective
    <3> QED
      BY <3>4 DEF ExistsBijection
  <2>2. Cardinality(S) = Cardinality(X)
    <3> HIDE DEF S, X
    <3> QED BY <1>2, <2>1, FS_Bijection
  <2>3. Cardinality(S) = n
    <3>1. 1 \in Int /\ n \in Int
      BY <1>1
    <3>2. Cardinality(1..n) = IF 1 > n THEN 0 ELSE n - 1 + 1
      <4> HIDE DEF n
      <4> QED BY <3>1, FS_Interval
    <3> HIDE DEF n
    <3> QED
      BY <1>1, <3>2 DEF S
  <2> QED
    BY <2>2, <2>3
<1>5. ASSUME ~KeyLikeLabel(pieces), NEW k \in S
      PROVE  f[IF Shared(pieces, k) THEN pieces[k].label \o <<"<", pieces[k].type>>
                                    ELSE pieces[k].label] = k
  <2> DEFINE l == pieces[k].label
             t == pieces[k].type
  <2>1. l \in Seq(Tokens) /\ t \in Tokens
    BY <1>1, PiecesTyped
  <2>2. CASE Shared(pieces, k)
    <3>1. PICK j \in S \ {k} : pieces[j].label = l
      BY <1>1, <2>2 DEF Shared
    <3>2. l \in a
      BY <3>1 DEF Keyed
    <3>3. PICK x \in X : f[x] = k
      BY <1>2
    <3>4. ~Own(pieces, x, k, r)
      BY <3>2 DEF Own, Keyed
    <3>5. Made(pieces, x, k, a)
      BY <3>3, <3>4 DEF Keyed
    <3>6. x = Key(l, t, 1)
      BY <1>5, <3>5 DEF Made
    <3>7. Key(l, t, 1) = l \o <<"<", t>>
      BY <2>1, KeyWithOne
    <3> QED
      BY <2>2, <3>3, <3>6, <3>7
  <2>3. CASE ~Shared(pieces, k)
    <3>1. l \notin a
      <4> SUFFICES ASSUME l \in a PROVE FALSE
        OBVIOUS
      <4>1. PICK i \in S, j \in S : i # j /\ pieces[i].label = l /\ pieces[j].label = l
        BY DEF Twice
      <4> QED
        BY <1>1, <2>3, <4>1 DEF Shared
    <3>2. f[l] = k
      BY <3>1 DEF Keyed
    <3> QED
      BY <2>3, <3>2
  <2> QED
    BY <2>2, <2>3
<1> QED
  BY <1>1, <1>3, <1>4, <1>5 DEF Found

(* Whatever the pieces of a data layout and their order: each is found     *)
(* under a key of its own, its label where no other piece has it, and the  *)
(* metadata raise for no labels but those that read like other keys        *)
(* (utils.py:102-143).                                                     *)
THEOREM EveryPieceFound == Spec => []EveryPieceIsFound
<1>1. IInv => EveryPieceIsFound
  <2> SUFFICES ASSUME IInv, Asked("metadata", "reader") PROVE EveryPieceIsFound
    BY DEF EveryPieceIsFound
  <2> DEFINE pieces == answer.index
             end == StringifyMetadataKeys(pieces)
  <2>1. pieces \in PieceLists /\ IsMetadata(pieces, answer.result)
    BY DEF IInv, AnswerInv
  <2>2. StateOK(pieces, Len(pieces), end)
    BY <2>1, Stringified
  <2> HIDE DEF end
  <2>3. answer.result = IF end.raised THEN <<"raises">> ELSE <<"keys", end.filtered>>
    BY <2>1 DEF IsMetadata, end
  <2>4. CASE end.raised
    <3>1. answer.result = <<"raises">>
      BY <2>3, <2>4, Zenon
    <3>2. KeyLikeLabel(pieces)
      BY <2>2, <2>4, Zenon DEF StateOK
    <3>3. answer.result[1] = "raises"
      BY <3>1
    <3> QED
      BY <3>2, <3>3, Zenon DEF EveryPieceIsFound
  <2>5. CASE ~end.raised
    <3> DEFINE keys == end.filtered
    <3>1. answer.result = <<"keys", keys>>
      BY <2>3, <2>5, Zenon
    <3>2. KeyedUpTo(pieces, Len(pieces), end)
      BY <2>2, <2>5, Zenon DEF StateOK
    <3>3. /\ Keyed(pieces, keys, 1..Len(pieces), end.ambiguous, end.removed)
          /\ \A l \in end.ambiguous : Twice(pieces, Len(pieces), l)
      BY <3>2 DEF KeyedUpTo
    <3> HIDE DEF keys
    <3>4. Found(pieces, keys)
      <4> HIDE DEF pieces
      <4> QED BY <2>1, <3>3, PiecesFound
    <3>5. answer.result[2] = keys /\ answer.result[1] # "raises"
      BY <3>1
    <3>6. Found(answer.index, answer.result[2])
      BY <3>4, <3>5
    <3> HIDE DEF pieces
    <3> QED
      BY <3>5, <3>6, Zenon DEF EveryPieceIsFound, Found
  <2> QED
    BY <2>4, <2>5, Zenon
<1> QED
  BY <1>1, IInvHolds, PTL
=============================================================================
