------------------------------ MODULE VRSWriter ------------------------------
(***************************************************************************)
(* The writer (pyvrs/writer.py over csrc/writer/VRSWriter.cpp): records    *)
(* are created in memory, flush_records hands those up to a timestamp to a *)
(* background thread, which writes them to the file batch by batch.        *)
(*                                                                         *)
(* The RecordFileWriter of the VRS library is external.  It collects the   *)
(* records of all streams up to a timestamp and writes them sorted, so a   *)
(* batch is a set here; the order of the file is the order of the batches. *)
(*                                                                         *)
(* The methods are Python: a thread of the program may lose the GIL        *)
(* between a check and the call it guards.  Threads is the set of threads  *)
(* that use the writer.                                                    *)
(***************************************************************************)
EXTENDS Integers, FiniteSets, Sequences

CONSTANTS
  Threads,        \* threads that use one VRSWriter
  Streams,
  MaxTimestamp,   \* timestamps are 1..MaxTimestamp; 0 is minus infinity
  MaxRecords,     \* bounds the records created
  MaxQueue        \* MAX_QUEUE_BYTE_SIZE, counted in records

Timestamps == 1..MaxTimestamp
RecordTypes == {"configuration", "state", "data"}
Records == [id : 1..MaxRecords, stream : Streams, type : RecordTypes, timestamp : Timestamps]

\* What a thread is doing: nothing; in create_*_record, past the checks; in
\* flush_records past the check of the timestamp; past the creation of the file.
Calls == [op : {"idle"}] \cup [op : {"record"}, record : Records]
           \cup [op : {"flush", "write"}, timestamp : Timestamps]
Idle == [op |-> "idle"]

ASSUME WriterAssumption ==
  MaxTimestamp \in Nat /\ MaxRecords \in Nat /\ MaxQueue \in Nat

VARIABLES
  fileCreated,    \* VRSWriter.file_created
  lastFlushed,    \* last_flushed_timestamp
  streams,        \* the streams of the writer
  configCreated,  \* those whose config_record_created is set
  call,           \* what each thread is doing
  backend,        \* the RecordFileWriter: "none", "open", "failed" or "closed"
  created,        \* how many records were created (or are being created)
  memory,         \* records not handed over yet
  batches,        \* batches handed over, in order
  written         \* how many of them are in the file

vars == <<fileCreated, lastFlushed, streams, configCreated, call, backend,
          created, memory, batches, written>>
library == <<backend, memory, batches, written>>

Queued == UNION {batches[i] : i \in (written + 1)..Len(batches)}
Output == UNION {batches[i] : i \in 1..Len(batches)}

TypeOK ==
  /\ fileCreated \in BOOLEAN
  /\ lastFlushed \in 0..MaxTimestamp
  /\ streams \subseteq Streams /\ configCreated \subseteq Streams
  /\ call \in [Threads -> Calls]
  /\ backend \in {"none", "open", "failed", "closed"}
  /\ created \in 0..MaxRecords
  /\ memory \subseteq Records
  /\ batches \in Seq(SUBSET Records)
  /\ written \in 0..Len(batches)

Init ==
  /\ fileCreated = FALSE /\ lastFlushed = 0
  /\ streams = {} /\ configCreated = {}
  /\ call = [t \in Threads |-> Idle]
  /\ backend = "none" /\ created = 0
  /\ memory = {} /\ batches = <<>> /\ written = 0

-----------------------------------------------------------------------------
(* create_stream: before or after the file is created. *)
CreateStream(t, s) ==
  /\ call[t] = Idle /\ s \notin streams
  /\ streams' = streams \cup {s}
  /\ UNCHANGED <<fileCreated, lastFlushed, configCreated, call, created>>
  /\ UNCHANGED library

(* assert_timestamp: only what is below the last flush is refused. *)
AssertTimestamp(timestamp) == lastFlushed <= timestamp

(* create_*_record up to its checks; when one fails it raises and changes  *)
(* nothing.                                                                *)
BeginRecord(t, s, type, timestamp) ==
  /\ call[t] = Idle /\ s \in streams /\ created < MaxRecords
  /\ AssertTimestamp(timestamp)
  /\ type = "data" => s \in configCreated
  /\ created' = created + 1
  /\ call' = [call EXCEPT ![t] = [op |-> "record",
                record |-> [id |-> created', stream |-> s, type |-> type,
                            timestamp |-> timestamp]]]
  /\ UNCHANGED <<fileCreated, lastFlushed, streams, configCreated>>
  /\ UNCHANGED library

(* stream.createRecord: the record is in memory. *)
CreateRecord(t) ==
  /\ call[t].op = "record"
  /\ LET r == call[t].record IN
     /\ memory' = memory \cup {r}
     /\ configCreated' = IF r.type = "configuration"
                           THEN configCreated \cup {r.stream} ELSE configCreated
  /\ call' = [call EXCEPT ![t] = Idle]
  /\ UNCHANGED <<fileCreated, lastFlushed, streams, created, backend, batches, written>>

(* flush_records: the check of the timestamp, or an exception. *)
BeginFlush(t, timestamp) ==
  /\ call[t] = Idle
  /\ AssertTimestamp(timestamp)
  /\ call' = [call EXCEPT ![t] = [op |-> "flush", timestamp |-> timestamp]]
  /\ UNCHANGED <<fileCreated, lastFlushed, streams, configCreated, created>>
  /\ UNCHANGED library

(* _create, the first time: the flag is set, then the file is created.     *)
(* When that fails an exception leaves the flag set, and the timestamp of  *)
(* the last flush as it was.                                               *)
CreateFileFails(t) ==
  /\ call[t].op = "flush" /\ ~fileCreated
  /\ fileCreated' = TRUE
  /\ backend' = "failed"
  /\ call' = [call EXCEPT ![t] = Idle]
  /\ UNCHANGED <<lastFlushed, streams, configCreated, created, memory, batches, written>>

(* The last flush's timestamp is only remembered once there is a file. *)
CreateFileForgetting(t) ==
  /\ call[t].op = "flush"
  /\ fileCreated' = TRUE
  /\ backend' = IF ~fileCreated THEN "open" ELSE backend
  /\ lastFlushed' = IF fileCreated THEN call[t].timestamp ELSE lastFlushed
  /\ call' = [call EXCEPT ![t].op = "write"]
  /\ UNCHANGED <<streams, configCreated, created, memory, batches, written>>

(* _create, and the new last_flushed_timestamp.                            *)
CreateFile(t) ==
  /\ call[t].op = "flush"
  /\ fileCreated' = TRUE
  /\ backend' = IF ~fileCreated THEN "open" ELSE backend
  /\ lastFlushed' = call[t].timestamp
  /\ call' = [call EXCEPT ![t].op = "write"]
  /\ UNCHANGED <<streams, configCreated, created, memory, batches, written>>

(* The wait looks at the records not handed over yet. *)
MemoryIsSmall == Cardinality(memory) <= MaxQueue

(* The wait for the queue to be small enough. *)
QueueAccepts == Cardinality(Queued) <= MaxQueue

(* A flush counts as written what it only hands over. *)
WriteRecordsAtOnce(t) ==
  /\ call[t].op = "write" /\ QueueAccepts
  /\ LET batch == {r \in memory : r.timestamp <= call[t].timestamp} IN
     IF backend = "open" /\ batch # {}
       THEN batches' = Append(batches, batch) /\ memory' = memory \ batch
       ELSE UNCHANGED <<batches, memory>>
  /\ written' = written + 1
  /\ call' = [call EXCEPT ![t] = Idle]
  /\ UNCHANGED <<fileCreated, lastFlushed, streams, configCreated, created, backend>>

(* Of the records up to the timestamp some stay behind. *)
WriteRecordsAtTimestamp(t) ==
  /\ call[t].op = "write" /\ QueueAccepts
  /\ LET batch == {r \in memory : r.timestamp = call[t].timestamp} IN
     IF backend = "open" /\ batch # {}
       THEN batches' = Append(batches, batch) /\ memory' = memory \ batch
       ELSE UNCHANGED <<batches, memory>>
  /\ call' = [call EXCEPT ![t] = Idle]
  /\ UNCHANGED <<fileCreated, lastFlushed, streams, configCreated, created, backend, written>>

(* writeRecords once the queue is small enough: the records up to the      *)
(* timestamp are handed over.  Without a file the library returns an error *)
(* code, which flush_records returns.                                      *)
WriteRecords(t) ==
  /\ call[t].op = "write" /\ QueueAccepts
  /\ LET batch == {r \in memory : r.timestamp <= call[t].timestamp} IN
     IF backend = "open" /\ batch # {}
       THEN batches' = Append(batches, batch) /\ memory' = memory \ batch
       ELSE UNCHANGED <<batches, memory>>
  /\ call' = [call EXCEPT ![t] = Idle]
  /\ UNCHANGED <<fileCreated, lastFlushed, streams, configCreated, created, backend, written>>

(* The background thread of the library writes a batch.                    *)
BackgroundWrite ==
  /\ written < Len(batches)
  /\ written' = written + 1
  /\ UNCHANGED <<fileCreated, lastFlushed, streams, configCreated, call, created,
                 backend, memory, batches>>

(* close waits until the file is closed.  Whether the library also writes  *)
(* what was never flushed is not visible in this repository: both.         *)
Close(t) ==
  /\ call[t] = Idle /\ backend = "open"
  /\ backend' = "closed"
  /\ batches' \in {batches} \cup (IF memory = {} THEN {} ELSE {Append(batches, memory)})
  /\ memory' = {}
  /\ written' = Len(batches')
  /\ UNCHANGED <<fileCreated, lastFlushed, streams, configCreated, call, created>>

Next ==
  \/ \E t \in Threads :
       \/ \E s \in Streams : CreateStream(t, s)
       \/ \E s \in Streams, type \in RecordTypes, timestamp \in Timestamps :
            BeginRecord(t, s, type, timestamp)
       \/ CreateRecord(t)
       \/ \E timestamp \in Timestamps : BeginFlush(t, timestamp)
       \/ CreateFileFails(t) \/ CreateFile(t) \/ WriteRecords(t)
       \/ Close(t)
  \/ BackgroundWrite

Spec == Init /\ [][Next]_vars

(* The methods of a thread are run to their end, and the background thread *)
(* of the library writes what it is given.                                 *)
Fairness ==
  /\ WF_vars(BackgroundWrite)
  /\ \A t \in Threads :
       WF_vars(CreateRecord(t) \/ CreateFileFails(t) \/ CreateFile(t) \/ WriteRecords(t))

FairSpec == Spec /\ Fairness

-----------------------------------------------------------------------------
(* Properties.                                                             *)

(* "VRS requires that records be written in timestamp order": no batch has *)
(* a record below one of a batch before it, across flushes, failed and     *)
(* repeated ones included.                                                 *)
FileInTimestampOrder ==
  \A i, j \in 1..Len(batches) : i < j =>
    \A r \in batches[i], q \in batches[j] : r.timestamp <= q.timestamp

(* The configuration a data record was created after, and that is not      *)
(* behind it in time, is in front of it in the file: in the same batch,    *)
(* which the library sorts, or in one before it.  The code only asks that  *)
(* there is a configuration (writer.py:224).                               *)
ConfigIsInFront ==
  \A i \in 1..Len(batches) : \A r \in batches[i], c \in memory \cup Output :
    r.type = "data" /\ c.type = "configuration" /\ c.stream = r.stream
      /\ c.id < r.id /\ c.timestamp <= r.timestamp
    => \E j \in 1..i : c \in batches[j]

(* The wait for the background queue ends: flush_records returns.          *)
FlushReturns == \A t \in Threads : (call[t].op = "write") ~> (call[t] = Idle)
=============================================================================
