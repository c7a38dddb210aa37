-------------------------- MODULE VRSWriterProofs --------------------------
(***************************************************************************)
(* Theorems about VRSWriter, for any number of streams, records and        *)
(* timestamps, and about RecordFormats, what goes into these records, for  *)
(* any streams registered, layouts, values and arrays.                     *)
(***************************************************************************)
EXTENDS VRSWriter, RecordFormats, SequenceTheorems, WellFoundedInduction, TLAPS

(* A writer just built is well typed. *)
LEMMA InitType == Init => TypeOK
<1> SUFFICES ASSUME Init PROVE TypeOK
  OBVIOUS
<1>1. call \in [Threads -> Calls]
  BY Zenon DEF Init, Calls, Idle
<1>2. batches \in Seq(SUBSET Records) /\ written \in 0..Len(batches)
  BY DEF Init
<1>3. lastFlushed \in 0..MaxTimestamp /\ created \in 0..MaxRecords
  BY WriterAssumption DEF Init
<1>4. /\ fileCreated \in BOOLEAN /\ memory \subseteq Records
      /\ streams \subseteq Streams /\ configCreated \subseteq Streams
      /\ backend \in {"none", "open", "failed", "closed"}
  BY DEF Init
<1> QED
  BY <1>1, <1>2, <1>3, <1>4 DEF TypeOK

(* A batch that is handed over goes to the end of the output. *)
LEMMA AppendBatch ==
  ASSUME TypeOK, NEW batch \in SUBSET Records, batches' = Append(batches, batch)
  PROVE  /\ batches' \in Seq(SUBSET Records)
         /\ Len(batches') = Len(batches) + 1
         /\ \A i \in 1..Len(batches) : batches'[i] = batches[i]
         /\ batches'[Len(batches) + 1] = batch
         /\ Output' = Output \cup batch
<1>1. /\ batches' \in Seq(SUBSET Records)
      /\ Len(batches') = Len(batches) + 1
      /\ \A i \in 1..Len(batches) : batches'[i] = batches[i]
      /\ batches'[Len(batches) + 1] = batch
  BY DEF TypeOK
<1>2. Len(batches) \in Nat
  BY DEF TypeOK
<1>3. ASSUME NEW r, r \in Output' PROVE r \in Output \cup batch
  <2>1. PICK i \in 1..Len(batches') : r \in batches'[i]
    BY <1>3 DEF Output
  <2>2. CASE i \in 1..Len(batches)
    BY <1>1, <2>1, <2>2 DEF Output
  <2>3. CASE i = Len(batches) + 1
    BY <1>1, <2>1, <2>3
  <2> QED
    BY <1>1, <1>2, <2>1, <2>2, <2>3
<1>4. ASSUME NEW r \in Output PROVE r \in Output'
  <2>1. PICK i \in 1..Len(batches) : r \in batches[i]
    BY DEF Output
  <2>2. i \in 1..Len(batches') /\ r \in batches'[i]
    BY <1>1, <1>2, <2>1
  <2> QED
    BY <2>2 DEF Output
<1>5. ASSUME NEW r \in batch PROVE r \in Output'
  <2>1. Len(batches) + 1 \in 1..Len(batches') /\ r \in batches'[Len(batches) + 1]
    BY <1>1, <1>2
  <2> QED
    BY <2>1 DEF Output
<1> QED
  BY <1>1, <1>3, <1>4, <1>5

(* The steps of one thread keep the types. *)
LEMMA TypeStep == TypeOK /\ [Next]_vars => TypeOK'
<1> SUFFICES ASSUME TypeOK, [Next]_vars PROVE TypeOK'
  OBVIOUS
<1>0. CASE UNCHANGED vars
  BY <1>0 DEF TypeOK, vars
<1>1. ASSUME NEW t \in Threads, NEW s \in Streams, CreateStream(t, s) PROVE TypeOK'
  <2>1. streams' \subseteq Streams
    BY <1>1 DEF TypeOK, CreateStream
  <2> QED
    BY <1>1, <2>1 DEF TypeOK, CreateStream, library
<1>2. ASSUME NEW t \in Threads, NEW s \in Streams, NEW type \in RecordTypes,
             NEW timestamp \in Timestamps, BeginRecord(t, s, type, timestamp)
      PROVE TypeOK'
  <2> DEFINE r == [id |-> created', stream |-> s, type |-> type, timestamp |-> timestamp]
  <2>1. created' \in 0..MaxRecords /\ created' \in 1..MaxRecords
    BY <1>2, WriterAssumption DEF TypeOK, BeginRecord
  <2>2. r \in Records
    BY <2>1 DEF Records
  <2>3. [op |-> "record", record |-> r] \in Calls
    BY <2>2 DEF Calls
  <2>4. call' = [call EXCEPT ![t] = [op |-> "record", record |-> r]]
    BY <1>2 DEF BeginRecord
  <2>5. call' \in [Threads -> Calls]
    <3> HIDE DEF r
    <3> QED
      BY <2>3, <2>4 DEF TypeOK
  <2> QED
    BY <1>2, <2>1, <2>5 DEF TypeOK, BeginRecord, library
<1>3. ASSUME NEW t \in Threads, CreateRecord(t) PROVE TypeOK'
  <2>1. call[t].record \in Records /\ call[t].record.stream \in Streams
    BY <1>3 DEF TypeOK, CreateRecord, Calls, Idle, Records
  <2>2. Idle \in Calls
    BY DEF Idle, Calls
  <2> QED
    BY <1>3, <2>1, <2>2 DEF TypeOK, CreateRecord
<1>4. ASSUME NEW t \in Threads, NEW timestamp \in Timestamps, BeginFlush(t, timestamp)
      PROVE TypeOK'
  <2>1. [op |-> "flush", timestamp |-> timestamp] \in Calls
    BY DEF Calls
  <2> QED
    BY <1>4, <2>1 DEF TypeOK, BeginFlush, library
<1>5. ASSUME NEW t \in Threads, CreateFileFails(t) PROVE TypeOK'
  <2>1. Idle \in Calls
    BY DEF Idle, Calls
  <2> QED
    BY <1>5, <2>1 DEF TypeOK, CreateFileFails
<1>6. ASSUME NEW t \in Threads, CreateFile(t) PROVE TypeOK'
  <2>1. call[t] \in [op : {"flush", "write"}, timestamp : Timestamps]
    BY <1>6 DEF TypeOK, CreateFile, Calls
  <2>2. call[t].timestamp \in Timestamps /\ [call[t] EXCEPT !.op = "write"] \in Calls
    BY <2>1 DEF Calls
  <2> QED
    BY <1>6, <2>2 DEF TypeOK, CreateFile, Timestamps
<1>7. ASSUME NEW t \in Threads, WriteRecords(t) PROVE TypeOK'
  <2>1. Idle \in Calls
    BY DEF Idle, Calls
  <2>2. PICK batch \in SUBSET memory :
          \/ batches' = Append(batches, batch) /\ memory' = memory \ batch
          \/ UNCHANGED <<batches, memory>>
    BY <1>7 DEF WriteRecords
  <2>3. /\ batches' \in Seq(SUBSET Records) /\ memory' \subseteq Records
        /\ written \in 0..Len(batches')
    BY <2>2, AppendBatch DEF TypeOK
  <2> QED
    BY <1>7, <2>1, <2>3 DEF TypeOK, WriteRecords
<1>8. ASSUME NEW t \in Threads, Close(t) PROVE TypeOK'
  <2>1. batches' \in Seq(SUBSET Records)
    BY <1>8, AppendBatch DEF TypeOK, Close
  <2> QED
    BY <1>8, <2>1 DEF TypeOK, Close
<1>9. CASE BackgroundWrite
  BY <1>9 DEF TypeOK, BackgroundWrite
<1> QED
  BY <1>0, <1>1, <1>2, <1>3, <1>4, <1>5, <1>6, <1>7, <1>8, <1>9 DEF Next

(* Every variable of the writer keeps its type, whatever the threads do:   *)
(* records carry timestamps the writer accepts, and the background thread  *)
(* has not written more batches than it was handed.                        *)
THEOREM TypeCorrect == Spec => []TypeOK
  BY InitType, TypeStep, PTL DEF Spec

-----------------------------------------------------------------------------
(* Why the file is in order: nothing in it is above the last flush, and    *)
(* nothing that may still be written is below what is in it.               *)
OpenInv ==
  /\ \A r \in Output : r.timestamp <= lastFlushed
  /\ \A r \in memory, q \in Output : q.timestamp <= r.timestamp
  /\ \A t \in Threads :
       /\ call[t].op = "record" => lastFlushed <= call[t].record.timestamp
       /\ call[t].op = "flush" => lastFlushed <= call[t].timestamp
       /\ call[t].op = "write" => call[t].timestamp <= lastFlushed

OrderInv ==
  /\ FileInTimestampOrder
  /\ ~fileCreated => backend = "none"
  /\ backend # "closed" => OpenInv

(* A batch that is not below what is in the output keeps it in order. *)
LEMMA AppendInOrder ==
  ASSUME TypeOK, FileInTimestampOrder, NEW batch \in SUBSET Records,
         batches' = Append(batches, batch),
         \A r \in Output, q \in batch : r.timestamp <= q.timestamp
  PROVE  FileInTimestampOrder'
<1> SUFFICES ASSUME NEW i \in 1..Len(batches'), NEW j \in 1..Len(batches'), i < j,
                    NEW r \in batches'[i], NEW q \in batches'[j]
             PROVE  r.timestamp <= q.timestamp
  BY DEF FileInTimestampOrder
<1>1. Len(batches) \in Nat /\ Len(batches') = Len(batches) + 1
  BY AppendBatch DEF TypeOK
<1>2. i \in 1..Len(batches) /\ batches'[i] = batches[i]
  BY <1>1, AppendBatch
<1>3. CASE j \in 1..Len(batches)
  BY <1>2, <1>3, AppendBatch DEF FileInTimestampOrder
<1>4. CASE j = Len(batches) + 1
  <2>1. r \in Output
    BY <1>2 DEF Output
  <2>2. q \in batch
    BY <1>4, AppendBatch
  <2> QED
    BY <2>1, <2>2
<1> QED
  BY <1>1, <1>3, <1>4

(* While the file is not closed one thread keeps the bounds.  (Two do not: *)
(* one creates a record between the other's check and flush.)              *)
LEMMA OpenStep ==
  ASSUME NEW t0, Threads = {t0}, TypeOK, OpenInv, [Next]_vars, backend' # "closed"
  PROVE  OpenInv'
<1>a. /\ t0 \in Threads /\ call[t0] \in Calls
      /\ \A c : call' = [call EXCEPT ![t0] = c] => call'[t0] = c
  BY DEF TypeOK
<1>b. /\ lastFlushed \in Int
      /\ \A r \in memory \cup Output : r.timestamp \in Int
  BY DEF TypeOK, Output, Records, Timestamps
<1>c. batches' = batches => Output' = Output
  BY DEF Output
<1>0. CASE UNCHANGED vars
  BY <1>0, <1>c DEF OpenInv, vars
<1>1. ASSUME NEW s \in Streams, CreateStream(t0, s) PROVE OpenInv'
  BY <1>1, <1>c DEF OpenInv, CreateStream, library
<1>2. ASSUME NEW s \in Streams, NEW type \in RecordTypes, NEW timestamp \in Timestamps,
             BeginRecord(t0, s, type, timestamp)
      PROVE OpenInv'
  <2>1. call'[t0] = [op |-> "record",
                     record |-> [id |-> created', stream |-> s, type |-> type,
                                 timestamp |-> timestamp]]
    BY <1>2, <1>a DEF BeginRecord
  <2>2. /\ call'[t0].op = "record" /\ call'[t0].record.timestamp = timestamp
        /\ lastFlushed <= timestamp
        /\ UNCHANGED <<batches, memory, lastFlushed>>
    BY <1>2, <2>1 DEF BeginRecord, AssertTimestamp, library
  <2> QED
    BY <1>c, <2>2 DEF OpenInv
<1>3. CASE CreateRecord(t0)
  <2>1. /\ call[t0].op = "record" /\ call'[t0] = Idle
        /\ memory' = memory \cup {call[t0].record}
        /\ UNCHANGED <<batches, lastFlushed>>
    BY <1>3, <1>a DEF CreateRecord
  <2>2. call[t0].record.timestamp \in Int
    BY <1>a, <2>1 DEF Calls, Records, Timestamps, Idle
  <2>3. lastFlushed <= call[t0].record.timestamp
    BY <1>a, <2>1 DEF OpenInv
  <2>4. ASSUME NEW r \in memory', NEW q \in Output PROVE q.timestamp <= r.timestamp
    BY <1>b, <2>1, <2>2, <2>3 DEF OpenInv
  <2> QED
    BY <1>c, <2>1, <2>4 DEF OpenInv, Idle
<1>4. ASSUME NEW timestamp \in Timestamps, BeginFlush(t0, timestamp) PROVE OpenInv'
  <2>1. call'[t0] = [op |-> "flush", timestamp |-> timestamp]
    BY <1>4, <1>a DEF BeginFlush
  <2>2. /\ lastFlushed <= timestamp
        /\ UNCHANGED <<batches, memory, lastFlushed>>
    BY <1>4 DEF BeginFlush, AssertTimestamp, library
  <2> QED
    BY <1>c, <2>1, <2>2 DEF OpenInv
<1>5. CASE CreateFileFails(t0)
  <2>1. call'[t0] = Idle /\ UNCHANGED <<batches, memory, lastFlushed>>
    BY <1>5, <1>a DEF CreateFileFails
  <2> QED
    BY <1>c, <2>1 DEF OpenInv, Idle
<1>6. CASE CreateFile(t0)
  <2>1. /\ call[t0].op = "flush" /\ call'[t0] = [call[t0] EXCEPT !.op = "write"]
        /\ lastFlushed' = call[t0].timestamp
        /\ UNCHANGED <<batches, memory>>
    BY <1>6, <1>a DEF CreateFile
  <2>2. call[t0] \in [op : {"flush", "write"}, timestamp : Timestamps]
    BY <1>a, <2>1 DEF Calls, Idle
  <2>3. /\ call'[t0].op = "write" /\ call'[t0].timestamp = lastFlushed'
        /\ lastFlushed' \in Int /\ lastFlushed <= lastFlushed'
    BY <1>a, <2>1, <2>2 DEF OpenInv, Timestamps
  <2>4. \A r \in Output : r.timestamp <= lastFlushed'
    BY <1>b, <2>3 DEF OpenInv
  <2>5. memory' = memory /\ batches' = batches /\ call'[t0].timestamp <= lastFlushed'
    BY <2>1, <2>3
  <2> QED
    BY <1>c, <2>3, <2>4, <2>5 DEF OpenInv
<1>7. CASE WriteRecords(t0)
  <2> DEFINE batch == {r \in memory : r.timestamp <= call[t0].timestamp}
  <2>1. /\ call[t0].op = "write" /\ call'[t0] = Idle /\ UNCHANGED lastFlushed
        /\ \/ batches' = Append(batches, batch) /\ memory' = memory \ batch
           \/ UNCHANGED <<batches, memory>>
    BY <1>7, <1>a DEF WriteRecords
  <2>2. CASE UNCHANGED <<batches, memory>>
    BY <1>c, <2>1, <2>2 DEF OpenInv, Idle
  <2>3. CASE batches' = Append(batches, batch) /\ memory' = memory \ batch
    <3>1. Output' = Output \cup batch
      <4>1. batch \in SUBSET Records
        BY DEF TypeOK
      <4> QED
        BY <2>3, <4>1, AppendBatch
    <3>2. call[t0].timestamp \in Int /\ call[t0].timestamp <= lastFlushed
      BY <1>a, <2>1 DEF OpenInv, Calls, Idle, Timestamps
    <3>3. \A r \in batch : r.timestamp <= lastFlushed
      BY <1>b, <3>2
    <3>4. ASSUME NEW r \in memory', NEW q \in Output' PROVE q.timestamp <= r.timestamp
      <4>1. r \in memory /\ call[t0].timestamp < r.timestamp
        BY <1>b, <2>3, <3>2
      <4>2. CASE q \in Output
        BY <4>1, <4>2 DEF OpenInv
      <4>3. CASE q \in batch
        BY <1>b, <3>2, <4>1, <4>3
      <4> QED
        BY <3>1, <4>2, <4>3
    <3> QED
      BY <2>1, <3>1, <3>3, <3>4 DEF OpenInv, Idle
  <2> QED
    BY <2>1, <2>2, <2>3
<1>8. CASE Close(t0)
  BY <1>8 DEF Close
<1>9. CASE BackgroundWrite
  BY <1>9, <1>c DEF OpenInv, BackgroundWrite
<1> QED
  BY <1>0, <1>1, <1>2, <1>3, <1>4, <1>5, <1>6, <1>7, <1>8, <1>9 DEF Next

(* A step of one thread keeps the file in order. *)
LEMMA OrderStep ==
  ASSUME NEW t0, Threads = {t0}, TypeOK, OrderInv, [Next]_vars
  PROVE  OrderInv'
<1>1. ~fileCreated' => backend' = "none"
  BY DEF OrderInv, Next, vars, library, CreateStream, BeginRecord, CreateRecord, BeginFlush,
         CreateFileFails, CreateFile, WriteRecords, Close, BackgroundWrite
<1>2. backend' # "closed" => backend # "closed"
  BY DEF OrderInv, Next, vars, library, CreateStream, BeginRecord, CreateRecord, BeginFlush,
         CreateFileFails, CreateFile, WriteRecords, Close, BackgroundWrite
<1>3. backend' # "closed" => OpenInv'
  BY <1>2, OpenStep DEF OrderInv
<1>4. FileInTimestampOrder'
  <2>1. CASE UNCHANGED batches
    BY <2>1 DEF OrderInv, FileInTimestampOrder
  <2>2. CASE \E batch \in SUBSET memory :
               batches' = Append(batches, batch) /\ backend = "open"
    <3>1. PICK batch \in SUBSET memory :
            batches' = Append(batches, batch) /\ backend = "open"
      BY <2>2
    <3>2. \A r \in Output, q \in batch : r.timestamp <= q.timestamp
      BY <3>1 DEF OrderInv, OpenInv
    <3>3. batch \in SUBSET Records
      BY DEF TypeOK
    <3> QED
      BY <3>1, <3>2, <3>3, AppendInOrder DEF OrderInv
  <2>3. ASSUME WriteRecords(t0), ~UNCHANGED batches
        PROVE  \E batch \in SUBSET memory : batches' = Append(batches, batch) /\ backend = "open"
    BY <2>3 DEF WriteRecords
  <2>4. ASSUME Close(t0), ~UNCHANGED batches
        PROVE  \E batch \in SUBSET memory : batches' = Append(batches, batch) /\ backend = "open"
    BY <2>4 DEF Close
  <2>5. ~WriteRecords(t0) /\ ~Close(t0) => UNCHANGED batches
    BY DEF Next, vars, library, CreateStream, BeginRecord, CreateRecord, BeginFlush,
           CreateFileFails, CreateFile, BackgroundWrite
  <2> QED
    BY <2>1, <2>2, <2>3, <2>4, <2>5
<1> QED
  BY <1>1, <1>3, <1>4 DEF OrderInv

(* Used by one thread, the writer hands records to the file in the order   *)
(* of their timestamps, across flushes, failed ones and the wait for the   *)
(* queue included (writer.py:95-114), for any records and any program.     *)
THEOREM FileInOrder ==
  ASSUME NEW t0, Threads = {t0}
  PROVE  Spec => []FileInTimestampOrder
<1>1. Init => OrderInv
  BY DEF Init, OrderInv, OpenInv, FileInTimestampOrder, Output, Idle
<1>2. TypeOK /\ OrderInv /\ [Next]_vars => OrderInv'
  BY OrderStep
<1>3. OrderInv => FileInTimestampOrder
  BY DEF OrderInv
<1> QED
  BY <1>1, <1>2, <1>3, TypeCorrect, PTL DEF Spec

-----------------------------------------------------------------------------
(* Why a configuration is in front of its data: ids are given in the order *)
(* of creation, and a batch leaves nothing behind that is not after it.    *)
IdInv ==
  /\ \A x \in memory \cup Output : x.id <= created
  /\ \A t \in Threads : call[t].op = "record" =>
       /\ call[t].record.id = created
       /\ \A x \in memory \cup Output : x.id < created

FrontInv == IdInv /\ ConfigIsInFront

(* While no batch is handed over, records that are no older than those in  *)
(* the output change nothing.                                              *)
LEMMA NewerKeepsFront ==
  ASSUME TypeOK, ConfigIsInFront, batches' = batches,
         \A c \in memory' \cup Output' : c \in memory \cup Output
                                          \/ \A r \in Output : ~(c.id < r.id)
  PROVE  ConfigIsInFront'
<1> SUFFICES ASSUME NEW i \in 1..Len(batches'), NEW r \in batches'[i],
                    NEW c \in memory' \cup Output',
                    r.type = "data", c.type = "configuration", c.stream = r.stream,
                    c.id < r.id, c.timestamp <= r.timestamp
             PROVE  \E j \in 1..i : c \in batches'[j]
  BY DEF ConfigIsInFront
<1>1. i \in 1..Len(batches) /\ r \in batches[i] /\ r \in Output
  BY DEF Output
<1>2. c \in memory \cup Output
  BY <1>1
<1> QED
  BY <1>1, <1>2 DEF ConfigIsInFront

(* A batch that leaves nothing in memory that is not after it keeps each   *)
(* configuration in front.                                                 *)
LEMMA AppendKeepsFront ==
  ASSUME TypeOK, ConfigIsInFront, NEW batch \in SUBSET memory,
         batches' = Append(batches, batch), memory' \subseteq memory,
         \A r \in batch, c \in memory : c.timestamp <= r.timestamp => c \in batch
  PROVE  ConfigIsInFront'
<1> SUFFICES ASSUME NEW i \in 1..Len(batches'), NEW r \in batches'[i],
                    NEW c \in memory' \cup Output',
                    r.type = "data", c.type = "configuration", c.stream = r.stream,
                    c.id < r.id, c.timestamp <= r.timestamp
             PROVE  \E j \in 1..i : c \in batches'[j]
  BY DEF ConfigIsInFront
<1>1. batch \in SUBSET Records
  BY DEF TypeOK
<1>2. /\ Len(batches) \in Nat /\ Len(batches') = Len(batches) + 1
      /\ \A k \in 1..Len(batches) : batches'[k] = batches[k]
      /\ batches'[Len(batches) + 1] = batch
      /\ Output' = Output \cup batch
  BY <1>1, AppendBatch DEF TypeOK
<1>3. c \in memory \cup Output
  BY <1>2
<1>4. CASE i \in 1..Len(batches)
  <2>1. PICK j \in 1..i : c \in batches[j]
    BY <1>2, <1>3, <1>4 DEF ConfigIsInFront
  <2> QED
    BY <1>2, <1>4, <2>1
<1>5. CASE i = Len(batches) + 1
  <2>1. r \in batch
    BY <1>2, <1>5
  <2>2. CASE c \in memory
    <3>1. c \in batch
      BY <2>1, <2>2
    <3> QED
      BY <1>2, <1>5, <3>1
  <2>3. CASE c \in Output
    <3>1. PICK j \in 1..Len(batches) : c \in batches[j]
      BY <2>3 DEF Output
    <3> QED
      BY <1>2, <1>5, <3>1
  <2> QED
    BY <1>3, <2>2, <2>3
<1> QED
  BY <1>2, <1>4, <1>5

(* One thread gives ids in the order of creation. *)
LEMMA IdStep ==
  ASSUME NEW t0, Threads = {t0}, TypeOK, IdInv, [Next]_vars
  PROVE  IdInv'
<1>a. /\ t0 \in Threads /\ call[t0] \in Calls
      /\ \A c : call' = [call EXCEPT ![t0] = c] => call'[t0] = c
  BY DEF TypeOK
<1>b. /\ created \in Int
      /\ \A r \in memory \cup Output : r.id \in Int
  BY WriterAssumption DEF TypeOK, Output, Records
<1>c. batches' = batches => Output' = Output
  BY DEF Output
<1>0. CASE UNCHANGED vars
  BY <1>0, <1>c DEF IdInv, vars
<1>1. ASSUME NEW s \in Streams, CreateStream(t0, s) PROVE IdInv'
  BY <1>1, <1>c DEF IdInv, CreateStream, library
<1>2. ASSUME NEW s \in Streams, NEW type \in RecordTypes, NEW timestamp \in Timestamps,
             BeginRecord(t0, s, type, timestamp)
      PROVE IdInv'
  <2>1. call'[t0] = [op |-> "record",
                     record |-> [id |-> created', stream |-> s, type |-> type,
                                 timestamp |-> timestamp]]
    BY <1>2, <1>a DEF BeginRecord
  <2>2. /\ call'[t0].record.id = created' /\ created' = created + 1
        /\ UNCHANGED <<batches, memory>>
    BY <1>2, <2>1 DEF BeginRecord, library
  <2>3. \A x \in memory' \cup Output' : x.id < created'
    BY <1>b, <1>c, <2>2 DEF IdInv
  <2>4. \A x \in memory' \cup Output' : x.id <= created'
    BY <1>b, <1>c, <2>2 DEF IdInv
  <2> QED
    BY <2>2, <2>3, <2>4 DEF IdInv
<1>3. CASE CreateRecord(t0)
  <2>1. /\ call[t0].op = "record" /\ call'[t0] = Idle
        /\ memory' = memory \cup {call[t0].record}
        /\ UNCHANGED <<batches, created>>
    BY <1>3, <1>a DEF CreateRecord
  <2>2. call[t0].record.id = created
    BY <1>a, <2>1 DEF IdInv
  <2>3. \A x \in memory' \cup Output' : x.id <= created'
    BY <1>b, <1>c, <2>1, <2>2 DEF IdInv
  <2>4. call'[t0].op # "record"
    BY <2>1 DEF Idle
  <2> QED
    BY <2>3, <2>4 DEF IdInv
<1>4. ASSUME NEW timestamp \in Timestamps, BeginFlush(t0, timestamp) PROVE IdInv'
  <2>1. call'[t0] = [op |-> "flush", timestamp |-> timestamp]
    BY <1>4, <1>a DEF BeginFlush
  <2> QED
    BY <1>4, <1>c, <2>1 DEF IdInv, BeginFlush, library
<1>5. CASE CreateFileFails(t0)
  <2>1. call'[t0] = Idle
    BY <1>5, <1>a DEF CreateFileFails
  <2> QED
    BY <1>5, <1>c, <2>1 DEF IdInv, CreateFileFails, Idle
<1>6. CASE CreateFile(t0)
  <2>1. call[t0].op = "flush" /\ call'[t0] = [call[t0] EXCEPT !.op = "write"]
    BY <1>6, <1>a DEF CreateFile
  <2>2. call[t0] \in [op : {"flush", "write"}, timestamp : Timestamps]
    BY <1>a, <2>1 DEF Calls, Idle
  <2>3. call'[t0].op = "write"
    BY <2>1, <2>2
  <2>4. UNCHANGED <<batches, memory, created>>
    BY <1>6 DEF CreateFile
  <2> QED
    BY <1>c, <2>3, <2>4 DEF IdInv
<1>7. CASE WriteRecords(t0)
  <2>1. call'[t0] = Idle /\ UNCHANGED created
    BY <1>7, <1>a DEF WriteRecords
  <2>2. PICK batch \in SUBSET memory :
          \/ batches' = Append(batches, batch) /\ memory' = memory \ batch
          \/ UNCHANGED <<batches, memory>>
    BY <1>7 DEF WriteRecords
  <2>3. memory' \cup Output' \subseteq memory \cup Output
    BY <1>c, <2>2, AppendBatch DEF TypeOK
  <2> QED
    BY <2>1, <2>3 DEF IdInv, Idle
<1>8. CASE Close(t0)
  <2>1. /\ call[t0] = Idle /\ UNCHANGED <<call, created>> /\ memory' = {}
        /\ batches' = batches \/ batches' = Append(batches, memory)
    BY <1>8 DEF Close
  <2>2. memory' \cup Output' \subseteq memory \cup Output
    BY <1>c, <2>1, AppendBatch DEF TypeOK
  <2> QED
    BY <2>1, <2>2 DEF IdInv, Idle
<1>9. CASE BackgroundWrite
  BY <1>9, <1>c DEF IdInv, BackgroundWrite
<1> QED
  BY <1>0, <1>1, <1>2, <1>3, <1>4, <1>5, <1>6, <1>7, <1>8, <1>9 DEF Next

(* A step of one thread keeps each configuration in front of its data.     *)
LEMMA FrontStep ==
  ASSUME NEW t0, Threads = {t0}, TypeOK, FrontInv, [Next]_vars
  PROVE  ConfigIsInFront'
<1>a. t0 \in Threads /\ call[t0] \in Calls
  BY DEF TypeOK
<1>b. \A r \in memory \cup Output : r.timestamp \in Int /\ r.id \in Int
  BY DEF TypeOK, Output, Records, Timestamps
<1>c. batches' = batches => Output' = Output
  BY DEF Output
<1>1. CASE UNCHANGED <<batches, memory>>
  BY <1>1, <1>c, NewerKeepsFront DEF FrontInv
<1>2. CASE CreateRecord(t0)
  <2>1. /\ call[t0].op = "record" /\ memory' = memory \cup {call[t0].record}
        /\ batches' = batches
    BY <1>2 DEF CreateRecord
  <2>2. /\ call[t0].record.id = created /\ created \in Int
        /\ \A r \in Output : r.id < created
    BY <1>a, <2>1, WriterAssumption DEF FrontInv, IdInv, TypeOK
  <2>3. \A r \in Output : ~(call[t0].record.id < r.id)
    BY <1>b, <2>2
  <2> QED
    BY <1>c, <2>1, <2>3, NewerKeepsFront DEF FrontInv
<1>3. CASE WriteRecords(t0) /\ ~UNCHANGED <<batches, memory>>
  <2> DEFINE batch == {r \in memory : r.timestamp <= call[t0].timestamp}
  <2>1. /\ call[t0].op = "write"
        /\ batches' = Append(batches, batch) /\ memory' = memory \ batch
    BY <1>3 DEF WriteRecords
  <2>2. call[t0].timestamp \in Int
    BY <1>a, <2>1 DEF Calls, Idle, Timestamps
  <2>3. \A r \in batch, c \in memory : c.timestamp <= r.timestamp => c \in batch
    BY <1>b, <2>2
  <2>4. batch \in SUBSET memory /\ memory' \subseteq memory
    BY <2>1
  <2> QED
    BY <2>1, <2>3, <2>4, AppendKeepsFront DEF FrontInv
<1>4. CASE Close(t0)
  <2>1. /\ memory' = {}
        /\ batches' = batches \/ batches' = Append(batches, memory)
    BY <1>4 DEF Close
  <2>2. CASE batches' = batches
    BY <1>c, <2>1, <2>2, NewerKeepsFront DEF FrontInv
  <2>3. CASE batches' = Append(batches, memory)
    BY <2>1, <2>3, AppendKeepsFront DEF FrontInv
  <2> QED
    BY <2>1, <2>2, <2>3
<1>5. ~CreateRecord(t0) /\ ~WriteRecords(t0) /\ ~Close(t0) => UNCHANGED <<batches, memory>>
  BY DEF Next, vars, library, CreateStream, BeginRecord, BeginFlush, CreateFileFails,
         CreateFile, BackgroundWrite
<1> QED
  BY <1>1, <1>2, <1>3, <1>4, <1>5

(* Used by one thread, the writer puts the configuration a data record was *)
(* created after in front of it in the file unless it has a later          *)
(* timestamp (writer.py:219-230, 99-114), for any records and any program, *)
(* failing flushes and a close that writes what was left included.         *)
THEOREM ConfigInFront ==
  ASSUME NEW t0, Threads = {t0}
  PROVE  Spec => []ConfigIsInFront
<1>1. Init => FrontInv
  BY DEF Init, FrontInv, IdInv, ConfigIsInFront, Output, Idle
<1>2. TypeOK /\ FrontInv /\ [Next]_vars => FrontInv'
  BY IdStep, FrontStep DEF FrontInv
<1>3. FrontInv => ConfigIsInFront
  BY DEF FrontInv
<1> QED
  BY <1>1, <1>2, <1>3, TypeCorrect, PTL DEF Spec

-----------------------------------------------------------------------------
(* What goes into the records (RecordFormats).  First what a definition by *)
(* recursion computes.                                                     *)

(* A set of natural numbers has a least element. *)
LEMMA HasLeast ==
  ASSUME NEW S, S \subseteq Nat, S # {}
  PROVE  \E x \in S : \A y \in S : x <= y
<1>1. PICK x \in S : \A y \in S : ~(<<y, x>> \in OpToRel(<, Nat))
  BY WFMin, NatLessThanWellFounded, Zenon
<1>2. \A y \in S : ~(y < x)
  BY <1>1 DEF OpToRel
<1> QED
  BY <1>2

(* What holds at 0 and is handed on from each number below n to the next *)
(* holds up to n.                                                        *)
LEMMA Induction ==
  ASSUME NEW n \in Nat, NEW S, 0 \in S, \A k \in 0..(n-1) : k \in S => k + 1 \in S
  PROVE  0..n \subseteq S
<1> DEFINE Out == (0..n) \ S
<1> SUFFICES ASSUME Out # {} PROVE FALSE
  OBVIOUS
<1>1. Out \subseteq Nat
  OBVIOUS
<1>2. PICK x \in Out : \A y \in Out : x <= y
  <2> HIDE DEF Out
  <2> QED BY <1>1, HasLeast
<1>3. x - 1 \in 0..(n-1) /\ x - 1 \in S
  BY <1>2
<1> QED
  BY <1>3

(* f starts at base and goes on by the steps.                              *)
Iterates(f, n, base, step) == f[0] = base /\ \A i \in 1..n : f[i] = step[i][f[i-1]]

(* There is such a function: what a recursive definition chooses exists. *)
LEMMA Recursion ==
  ASSUME NEW n \in Nat, NEW D, NEW base \in D, NEW step \in [1..n -> [D -> D]]
  PROVE  \E f \in [0..n -> D] : Iterates(f, n, base, step)
<1> DEFINE S == {k \in 0..n : \E f \in [0..k -> D] : Iterates(f, k, base, step)}
<1>1. 0 \in S
  <2>1. [i \in 0..0 |-> base] \in [0..0 -> D] /\ Iterates([i \in 0..0 |-> base], 0, base, step)
    BY DEF Iterates
  <2> QED BY <2>1
<1>2. ASSUME NEW k \in 0..(n-1), k \in S PROVE k + 1 \in S
  <2>1. PICK f \in [0..k -> D] : Iterates(f, k, base, step)
    BY <1>2
  <2> DEFINE g == [i \in 0..(k+1) |-> IF i = k + 1 THEN step[k + 1][f[k]] ELSE f[i]]
  <2>2. g \in [0..(k+1) -> D]
    <3>1. k + 1 \in 1..n /\ f[k] \in D
      OBVIOUS
    <3>2. step[k + 1][f[k]] \in D
      BY <3>1
    <3> QED
      BY <3>2
  <2>3. g[0] = base
    BY <2>1 DEF Iterates
  <2>4. ASSUME NEW i \in 1..(k+1) PROVE g[i] = step[i][g[i-1]]
    <3>1. CASE i = k + 1
      <4>1. g[k + 1] = step[k + 1][f[k]] /\ g[k] = f[k] /\ i - 1 = k
        BY <3>1
      <4> HIDE DEF g
      <4> QED
        BY <3>1, <4>1
    <3>2. CASE i \in 1..k
      BY <3>2, <2>1 DEF Iterates
    <3> QED BY <3>1, <3>2
  <2>5. Iterates(g, k + 1, base, step)
    BY <2>3, <2>4 DEF Iterates
  <2> HIDE DEF g
  <2> QED
    BY <2>2, <2>5
<1>3. n \in S
  <2> HIDE DEF S
  <2>1. 0..n \subseteq S
    BY <1>1, <1>2, Induction
  <2> QED
    BY <2>1
<1> QED
  BY <1>3


-----------------------------------------------------------------------------
(* Sequences put together and cut into pieces.                             *)

(* flattened puts the sequences of seqs one behind the other. *)
Flattening(flattened, seqs) ==
  \A i \in 1..Len(seqs) : flattened[i] = IF i = 1 THEN seqs[i] ELSE flattened[i - 1] \o seqs[i]

(* What FlattenSeq computes. *)
LEMMA FlattenSeqFlattens ==
  ASSUME NEW T, NEW seqs \in Seq(Seq(T)), Len(seqs) # 0
  PROVE  \E flattened \in [1..Len(seqs) -> Seq(T)] :
           Flattening(flattened, seqs) /\ FlattenSeq(seqs) = flattened[Len(seqs)]
<1> DEFINE n == Len(seqs)
           D == Seq(T)
           step == [i \in 1..n |-> [s \in D |-> IF i = 1 THEN seqs[i] ELSE s \o seqs[i]]]
           P(g) == g = [i \in 1..Len(seqs) |-> IF i = 1 THEN seqs[i] ELSE g[i - 1] \o seqs[i]]
           flatten == CHOOSE g : P(g)
<1>1. n \in Nat /\ n >= 1 /\ <<>> \in D /\ \A i \in 1..n : seqs[i] \in D
  OBVIOUS
<1>2. \A s, t \in D : s \o t \in D
  OBVIOUS
<1>3. step \in [1..n -> [D -> D]]
  <2> HIDE DEF D, n
  <2> QED BY <1>1, <1>2
<1>4. \A i \in 1..n, s \in D : step[i][s] = IF i = 1 THEN seqs[i] ELSE s \o seqs[i]
  OBVIOUS
<1>5. PICK f \in [0..n -> D] : Iterates(f, n, <<>>, step)
  <2> HIDE DEF n, D, step
  <2> QED BY <1>1, <1>3, Recursion
<1> DEFINE h == [i \in 1..n |-> f[i]]
<1>6. P(h)
  <2> HIDE DEF step, D
  <2>1. \A i \in 1..n : f[i - 1] \in D /\ f[i] = step[i][f[i - 1]]
    <3>1. \A i \in 1..n : f[i] = step[i][f[i - 1]]
      BY <1>5, Zenon DEF Iterates
    <3>2. \A i \in 1..n : i - 1 \in 0..n
      BY <1>1
    <3> HIDE DEF n
    <3> QED
      BY <1>5, <3>1, <3>2
  <2>2. \A i \in 1..n : f[i] = IF i = 1 THEN seqs[i] ELSE f[i - 1] \o seqs[i]
    BY <1>4, <2>1
  <2>3. \A i \in 1..n : h[i] = IF i = 1 THEN seqs[i] ELSE h[i - 1] \o seqs[i]
    BY <1>1, <2>2
  <2> QED
    BY <2>3
<1>7. P(flatten)
  <2> HIDE DEF P, h
  <2> QED BY <1>6
<1>8. FlattenSeq(seqs) = flatten[n]
  BY DEF FlattenSeq
<1> HIDE DEF flatten
<1>9. /\ flatten = [i \in 1..n |-> flatten[i]]
      /\ \A i \in 1..n : flatten[i] = IF i = 1 THEN seqs[i] ELSE flatten[i - 1] \o seqs[i]
  BY <1>7
<1>10. \A i \in 1..n : flatten[i] \in D
  <2> DEFINE S == {i \in 0..(n - 1) : flatten[i + 1] \in D}
  <2> HIDE DEF D, n
  <2>1. 0 \in S
    <3>1. 1 \in 1..n /\ 0 \in 0..(n - 1) /\ 0 + 1 = 1
      BY <1>1
    <3>2. flatten[1] = seqs[1]
      BY <1>9, <3>1, Zenon
    <3>3. flatten[1] \in D
      BY <1>1, <3>1, <3>2
    <3> QED
      BY <3>1, <3>3
  <2>2. ASSUME NEW k \in 0..((n - 1) - 1), k \in S PROVE k + 1 \in S
    <3>1. k + 2 \in 1..n /\ k + 2 # 1 /\ (k + 2) - 1 = k + 1 /\ k + 1 \in 0..(n - 1)
      BY <1>1
    <3>2. flatten[k + 2] = flatten[k + 1] \o seqs[k + 2]
      BY <1>9, <3>1
    <3>3. flatten[k + 2] \in D
      BY <1>1, <1>2, <2>2, <3>1, <3>2
    <3> QED
      BY <3>1, <3>3
  <2>3. n - 1 \in Nat
    BY <1>1
  <2>4. 0..(n - 1) \subseteq S
    <3> HIDE DEF S
    <3> QED BY <2>1, <2>2, <2>3, Induction
  <2>5. ASSUME NEW i \in 1..n PROVE flatten[i] \in D
    <3>1. i - 1 \in 0..(n - 1) /\ (i - 1) + 1 = i
      BY <1>1
    <3>2. i - 1 \in S
      BY <2>4, <3>1
    <3> QED
      BY <3>1, <3>2
  <2> QED
    BY <2>5
<1> QED
  <2>1. flatten \in [1..n -> D]
    <3> HIDE DEF D, n
    <3> QED BY <1>9, <1>10
  <2>2. Flattening(flatten, seqs)
    BY <1>9 DEF Flattening
  <2> QED
    BY <1>8, <2>1, <2>2

(* The places at which the sequences of seqs begin in the whole. *)
Beginnings(first, seqs) ==
  \A i \in 1..Len(seqs) : first[i] = IF i = 1 THEN 1 ELSE first[i - 1] + Len(seqs[i - 1])

(* The first j sequences: each is where it begins. *)
Placed(flattened, first, seqs, j) ==
  /\ first[j] \in Nat \ {0}
  /\ first[j] + Len(seqs[j]) - 1 = Len(flattened[j])
  /\ \A k \in 1..j :
       /\ first[k] \in Nat \ {0}
       /\ first[k] + Len(seqs[k]) - 1 <= Len(flattened[j])
       /\ \A p \in 1..Len(seqs[k]) : flattened[j][first[k] + p - 1] = seqs[k][p]

LEMMA PlacedOneMore ==
  ASSUME NEW T, NEW seqs \in Seq(Seq(T)), NEW flattened \in [1..Len(seqs) -> Seq(T)],
         Flattening(flattened, seqs), NEW first, Beginnings(first, seqs),
         NEW j \in 1..(Len(seqs) - 1), Placed(flattened, first, seqs, j)
  PROVE  Placed(flattened, first, seqs, j + 1)
<1> DEFINE whole == flattened[j]
           last == seqs[j + 1]
           longer == flattened[j + 1]
<1>1. j + 1 \in 1..Len(seqs) /\ j + 1 # 1 /\ (j + 1) - 1 = j /\ j \in 1..Len(seqs)
  OBVIOUS
<1>2. whole \in Seq(T) /\ last \in Seq(T) /\ longer = whole \o last
  <2>1. flattened[j + 1] = flattened[(j + 1) - 1] \o seqs[j + 1]
    BY <1>1, Zenon DEF Flattening
  <2>2. flattened[j] \in Seq(T) /\ seqs[j + 1] \in Seq(T)
    <3> DEFINE D == Seq(T)
           n == Len(seqs)
    <3>1. seqs \in Seq(D) /\ flattened \in [1..n -> D] /\ n \in Nat
      OBVIOUS
    <3>2. j + 1 \in 1..n /\ j \in 1..n
      BY <1>1
    <3>3. \A i \in 1..n : seqs[i] \in D
      BY <3>1
    <3> HIDE DEF D, n
    <3>4. \A i \in 1..n : flattened[i] \in D
      BY <3>1
    <3>5. seqs[j + 1] \in D /\ flattened[j] \in D
      BY <3>2, <3>3, <3>4
    <3> QED
      BY <3>5 DEF D
  <2> QED
    BY <1>1, <2>1, <2>2
<1>3. first[j + 1] = first[j] + Len(seqs[j])
  BY <1>1 DEF Beginnings
<1>4. Len(seqs[j]) \in Nat /\ \A k \in 1..Len(seqs) : Len(seqs[k]) \in Nat
  BY <1>1
<1>5. first[j] \in Nat \ {0} /\ first[j] + Len(seqs[j]) - 1 = Len(whole)
  BY DEF Placed
<1> HIDE DEF whole, last, longer
<1>6. /\ Len(longer) = Len(whole) + Len(last) /\ Len(whole) \in Nat /\ Len(last) \in Nat
      /\ \A p \in 1..Len(whole) : longer[p] = whole[p]
      /\ \A p \in 1..Len(last) : longer[Len(whole) + p] = last[p]
  <2>1. /\ Len(longer) = Len(whole) + Len(last) /\ Len(whole) \in Nat /\ Len(last) \in Nat
        /\ \A i \in 1..(Len(whole) + Len(last)) :
             longer[i] = IF i <= Len(whole) THEN whole[i] ELSE last[i - Len(whole)]
    BY <1>2, ConcatProperties
  <2>2. ASSUME NEW p \in 1..Len(whole) PROVE longer[p] = whole[p]
    BY <2>1
  <2>3. ASSUME NEW p \in 1..Len(last) PROVE longer[Len(whole) + p] = last[p]
    <3>1. /\ Len(whole) + p \in 1..(Len(whole) + Len(last)) /\ ~(Len(whole) + p <= Len(whole))
          /\ (Len(whole) + p) - Len(whole) = p
      BY <2>1
    <3> QED
      BY <2>1, <3>1
  <2> QED
    BY <2>1, <2>2, <2>3
<1>7. first[j + 1] = Len(whole) + 1
  BY <1>3, <1>4, <1>5, <1>6
<1>8. ASSUME NEW k \in 1..j
      PROVE  /\ first[k] \in Nat \ {0}
             /\ first[k] + Len(seqs[k]) - 1 <= Len(longer)
             /\ \A p \in 1..Len(seqs[k]) : longer[first[k] + p - 1] = seqs[k][p]
  <2>1. /\ first[k] \in Nat \ {0}
        /\ first[k] + Len(seqs[k]) - 1 <= Len(whole)
        /\ \A p \in 1..Len(seqs[k]) : whole[first[k] + p - 1] = seqs[k][p]
    BY DEF Placed, whole
  <2>2. Len(seqs[k]) \in Nat
    BY <1>4
  <2> DEFINE m == first[k]
             l == Len(seqs[k])
             piece == seqs[k]
  <2>3. /\ m \in Nat \ {0} /\ l \in Nat /\ m + l - 1 <= Len(whole)
        /\ \A p \in 1..l : whole[m + p - 1] = piece[p]
    BY <2>1, <2>2
  <2> HIDE DEF m, l, piece
  <2>4. \A p \in 1..l : m + p - 1 \in 1..Len(whole)
    BY <1>6, <2>3
  <2>5. \A p \in 1..l : longer[m + p - 1] = piece[p]
    BY <1>6, <2>3, <2>4
  <2>6. m + l - 1 <= Len(longer)
    BY <1>6, <2>3
  <2> QED
    BY <2>3, <2>5, <2>6 DEF m, l, piece
<1>9. /\ first[j + 1] \in Nat \ {0}
      /\ first[j + 1] + Len(last) - 1 = Len(longer)
      /\ \A p \in 1..Len(last) : longer[first[j + 1] + p - 1] = last[p]
  BY <1>6, <1>7
<1>10. \A k \in 1..(j + 1) : k \in 1..j \/ k = j + 1
  OBVIOUS
<1>11. first[j + 1] + Len(last) - 1 <= Len(longer)
  BY <1>6, <1>9
<1> QED
  BY <1>8, <1>9, <1>10, <1>11 DEF Placed, longer, last

(* What is between these places. *)
CutOut(whole, first, seqs) ==
  \A k \in 1..Len(seqs) : SubSeq(whole, first[k], first[k] + Len(seqs[k]) - 1) = seqs[k]

(* In the whole each sequence is where it begins, and the last one ends    *)
(* with it.                                                                *)
LEMMA FlattenedAreCutOut ==
  ASSUME NEW T, NEW seqs \in Seq(Seq(T)), Len(seqs) # 0, NEW first, Beginnings(first, seqs)
  PROVE  /\ FlattenSeq(seqs) \in Seq(T)
         /\ first[Len(seqs)] + Len(seqs[Len(seqs)]) - 1 = Len(FlattenSeq(seqs))
         /\ CutOut(FlattenSeq(seqs), first, seqs)
<1> DEFINE n == Len(seqs)
<1>1. PICK f \in [1..n -> Seq(T)] : Flattening(f, seqs) /\ FlattenSeq(seqs) = f[n]
  BY FlattenSeqFlattens
<1> DEFINE S == {i \in 0..(n - 1) : Placed(f, first, seqs, i + 1)}
<1>2. n \in Nat /\ n >= 1 /\ n - 1 \in Nat /\ \A k \in 1..n : seqs[k] \in Seq(T) /\ Len(seqs[k]) \in Nat
  OBVIOUS
<1>3. 0 \in S
  <2>1. first[1] = 1 /\ f[1] = seqs[1]
    <3>1. 1 \in 1..Len(seqs)
      BY <1>2
    <3> QED
      BY <1>1, <3>1 DEF Flattening, Beginnings
  <2>2. Placed(f, first, seqs, 1)
    BY <1>2, <2>1 DEF Placed
  <2> QED
    BY <1>2, <2>2
<1>4. ASSUME NEW k \in 0..((n - 1) - 1), k \in S PROVE k + 1 \in S
  <2>1. k + 1 \in 1..(n - 1) /\ k + 1 \in 0..(n - 1)
    BY <1>2
  <2>2. Placed(f, first, seqs, k + 1)
    BY <1>4
  <2>3. Placed(f, first, seqs, (k + 1) + 1)
    BY <1>1, <2>1, <2>2, PlacedOneMore
  <2> QED
    BY <2>1, <2>3
<1>5. Placed(f, first, seqs, n)
  <2>1. 0..(n - 1) \subseteq S
    <3> HIDE DEF S, n
    <3> QED BY <1>2, <1>3, <1>4, Induction
  <2>2. n - 1 \in S
    <3> HIDE DEF S, n
    <3> QED BY <1>2, <2>1
  <2>3. Placed(f, first, seqs, (n - 1) + 1) /\ (n - 1) + 1 = n
    BY <1>2, <2>2
  <2> QED
    BY <2>3
<1> DEFINE whole == f[n]
<1>6. whole \in Seq(T) /\ n \in 1..n /\ Len(whole) \in Nat
  BY <1>2
<1>7. ASSUME NEW k \in 1..n
      PROVE  SubSeq(whole, first[k], first[k] + Len(seqs[k]) - 1) = seqs[k]
  <2> DEFINE m == first[k]
             e == first[k] + Len(seqs[k]) - 1
             cut == SubSeq(whole, m, e)
  <2>1. /\ m \in Nat \ {0} /\ e <= Len(whole)
        /\ \A p \in 1..Len(seqs[k]) : whole[m + p - 1] = seqs[k][p]
    BY <1>5 DEF Placed
  <2>2. Len(seqs[k]) \in Nat /\ e \in Int /\ m \in Int /\ e - m + 1 = Len(seqs[k])
        /\ (m <= e => e - m + 1 = Len(seqs[k])) /\ (~(m <= e) => Len(seqs[k]) = 0)
    BY <1>2, <2>1
  <2>3. \A i \in m..e : whole[i] \in T
    <3>1. \A i \in m..e : i \in 1..Len(whole)
      BY <1>6, <2>1, <2>2
    <3> HIDE DEF whole, m, e
    <3> QED
      BY <1>6, <3>1
  <2> HIDE DEF m, e, whole
  <2>4. /\ cut \in Seq(T) /\ Len(cut) = IF m <= e THEN e - m + 1 ELSE 0
        /\ \A i \in 1..(e - m + 1) : cut[i] = whole[m + i - 1]
    BY <2>2, <2>3, SubSeqProperties
  <2> HIDE DEF cut
  <2>5. Len(cut) = Len(seqs[k]) /\ \A i \in 1..Len(seqs[k]) : cut[i] = seqs[k][i]
    BY <2>1, <2>2, <2>4
  <2>6. cut = seqs[k]
    <3> DEFINE piece == seqs[k]
    <3>1. piece \in Seq(T)
      BY <1>2
    <3>2. Len(cut) = Len(piece) /\ \A i \in 1..Len(piece) : cut[i] = piece[i]
      BY <2>5
    <3> HIDE DEF piece
    <3>3. /\ cut = [i \in 1..Len(cut) |-> cut[i]]
          /\ piece = [i \in 1..Len(piece) |-> piece[i]]
      BY <2>4, <3>1
    <3>4. cut = piece
      BY <3>2, <3>3
    <3> QED
      BY <3>4 DEF piece
  <2> QED
    BY <2>6 DEF cut, m, e
<1> QED
  BY <1>1, <1>5, <1>6, <1>7 DEF Placed, CutOut

LEMMA Lengths ==
  ASSUME NEW T, NEW seqs \in Seq(Seq(T))
  PROVE  Len(seqs) \in Nat /\ \A j \in 1..Len(seqs) : Len(seqs[j]) \in Nat
OBVIOUS

(* Cut by the sizes of the content blocks a sequence falls into the        *)
(* sequences it was put together of, when they have these sizes; the last  *)
(* block takes what is left.                                               *)
LEMMA CutBySizesCuts ==
  ASSUME NEW T, NEW seqs \in Seq(Seq(T)), NEW sizes, DOMAIN sizes = 1..Len(seqs),
         Len(sizes) = Len(seqs),
         \A k \in 1..Len(seqs) :
           \/ sizes[k] = Len(seqs[k]) /\ sizes[k] # None
           \/ k = Len(seqs) /\ sizes[k] \in {None, Len(seqs[k])}
  PROVE  CutBySizes(FlattenSeq(seqs), sizes) = seqs
<1> DEFINE n == Len(seqs)
           step == [j \in 1..n |-> [x \in Nat |-> IF j = 1 THEN 1 ELSE x + Len(seqs[j - 1])]]
           P(g) == g = [j \in 1..Len(sizes) |-> IF j = 1 THEN 1 ELSE g[j - 1] + sizes[j - 1]]
           first == CHOOSE g : P(g)
           whole == FlattenSeq(seqs)
<1>0. n \in Nat /\ Len(sizes) = n /\ \A j \in 1..n : Len(seqs[j]) \in Nat
  BY Lengths
<1>1. \A j \in 1..n : j # 1 =>
        j - 1 \in 1..n /\ Len(seqs[j - 1]) \in Nat /\ sizes[j - 1] = Len(seqs[j - 1])
  <2>1. \A k \in 1..n : sizes[k] = Len(seqs[k]) \/ k = n
    OBVIOUS
  <2> HIDE DEF n
  <2>2. \A j \in 1..n : j # 1 => j - 1 \in 1..n /\ j - 1 # n
    BY <1>0
  <2> QED
    BY <1>0, <2>1, <2>2
<1>2. step \in [1..n -> [Nat -> Nat]]
  <2> SUFFICES ASSUME NEW j \in 1..n, NEW x \in Nat
               PROVE  (IF j = 1 THEN 1 ELSE x + Len(seqs[j - 1])) \in Nat
    OBVIOUS
  <2> HIDE DEF n
  <2> QED
    BY <1>0, <1>1
<1>3. \A j \in 1..n, x \in Nat : step[j][x] = IF j = 1 THEN 1 ELSE x + Len(seqs[j - 1])
  OBVIOUS
<1>4. PICK f \in [0..n -> Nat] : Iterates(f, n, 0, step)
  <2> HIDE DEF n, step
  <2> QED BY <1>0, <1>2, Recursion
<1> DEFINE h == [j \in 1..n |-> f[j]]
<1>5. P(h)
  <2> HIDE DEF step
  <2>1. \A j \in 1..n : f[j - 1] \in Nat /\ f[j] = step[j][f[j - 1]]
    <3>1. \A j \in 1..n : f[j] = step[j][f[j - 1]]
      BY <1>4, Zenon DEF Iterates
    <3> HIDE DEF n
    <3>2. \A j \in 1..n : j - 1 \in 0..n
      BY <1>0
    <3> QED
      BY <1>4, <3>1, <3>2
  <2>2. \A j \in 1..n : f[j] = IF j = 1 THEN 1 ELSE f[j - 1] + Len(seqs[j - 1])
    BY <1>3, <2>1
  <2>3. \A j \in 1..n : h[j] = IF j = 1 THEN 1 ELSE h[j - 1] + sizes[j - 1]
    BY <1>1, <2>2
  <2> QED
    BY <1>0, <2>3
<1>6. P(first)
  <2> HIDE DEF P, h
  <2> QED BY <1>5
<1> DEFINE last(k) == IF sizes[k] = None THEN Len(whole) ELSE first[k] + sizes[k] - 1
<1>7. CutBySizes(whole, sizes) = [k \in DOMAIN sizes |-> SubSeq(whole, first[k], last(k))]
  BY DEF CutBySizes
<1> HIDE DEF first
<1>8. Beginnings(first, seqs)
  <2>1. \A j \in 1..n : first[j] = IF j = 1 THEN 1 ELSE first[j - 1] + sizes[j - 1]
    BY <1>0, <1>6
  <2>2. \A j \in 1..n : first[j] = IF j = 1 THEN 1 ELSE first[j - 1] + Len(seqs[j - 1])
    BY <1>1, <2>1
  <2> QED
    BY <2>2 DEF Beginnings
<1>9. CASE n = 0
  <2>1. CutBySizes(whole, sizes) = <<>> /\ seqs = <<>>
    BY <1>7, <1>9
  <2> QED
    BY <2>1
<1>10. CASE n # 0
  <2>1. /\ first[n] + Len(seqs[n]) - 1 = Len(whole)
        /\ \A k \in 1..n : SubSeq(whole, first[k], first[k] + Len(seqs[k]) - 1) = seqs[k]
    <3> HIDE DEF n, whole
    <3>1. Len(seqs) # 0
      BY <1>10 DEF n
    <3>2. first[Len(seqs)] + Len(seqs[Len(seqs)]) - 1 = Len(FlattenSeq(seqs))
      BY <1>8, <3>1, FlattenedAreCutOut
    <3>3. CutOut(FlattenSeq(seqs), first, seqs)
      BY <1>8, <3>1, FlattenedAreCutOut
    <3> QED
      BY <3>2, <3>3, Zenon DEF n, whole, CutOut
  <2>2. \A k \in 1..n : last(k) = first[k] + Len(seqs[k]) - 1
    <3>1. \A k \in 1..n : \/ sizes[k] = Len(seqs[k]) /\ sizes[k] # None
                          \/ k = n /\ sizes[k] \in {None, Len(seqs[k])}
      OBVIOUS
    <3> HIDE DEF n, whole
    <3>2. ASSUME NEW k \in 1..n PROVE last(k) = first[k] + Len(seqs[k]) - 1
      BY <2>1, <3>1
    <3> QED
      BY <3>2
  <2>3. \A k \in 1..n : SubSeq(whole, first[k], last(k)) = seqs[k]
    BY <2>1, <2>2
  <2>4. seqs = [k \in 1..n |-> seqs[k]]
    OBVIOUS
  <2> HIDE DEF whole, last, n
  <2>5. [k \in 1..n |-> SubSeq(whole, first[k], last(k))] = [k \in 1..n |-> seqs[k]]
    BY <2>3
  <2>6. DOMAIN sizes = 1..n
    BY DEF n
  <2> QED
    BY <1>7, <2>4, <2>5, <2>6 DEF whole
<1> QED
  BY <1>9, <1>10

(* The sources of a kind. *)
LEMMA OfType ==
  ASSUME NEW srcs \in Seq(Sources)
  PROVE  Of("array", srcs) \in Seq(Arrays)
<1> DEFINE n == Len(srcs)
           D == Seq(Arrays)
           step == [k \in 1..n |-> [list \in D |->
                      IF srcs[k][1] = "array" THEN Append(list, srcs[k][2]) ELSE list]]
           P(g) == g = [k \in 0..Len(srcs) |->
                          IF k = 0 THEN <<>>
                          ELSE IF srcs[k][1] = "array" THEN Append(g[k - 1], srcs[k][2])
                               ELSE g[k - 1]]
           of == CHOOSE g : P(g)
<1>1. n \in Nat /\ <<>> \in D
  OBVIOUS
<1>2. ASSUME NEW k \in 1..n, NEW list \in D
      PROVE  (IF srcs[k][1] = "array" THEN Append(list, srcs[k][2]) ELSE list) \in D
  <2>1. srcs[k] \in Sources
    OBVIOUS
  <2>2. srcs[k][1] = "array" => srcs[k][2] \in Arrays
    BY <2>1 DEF Sources
  <2> QED
    BY <2>2
<1>3. step \in [1..n -> [D -> D]]
  <2> HIDE DEF D, n
  <2> QED BY <1>2
<1>4. \A k \in 1..n, list \in D :
        step[k][list] = IF srcs[k][1] = "array" THEN Append(list, srcs[k][2]) ELSE list
  OBVIOUS
<1>5. PICK f \in [0..n -> D] : Iterates(f, n, <<>>, step)
  <2> HIDE DEF n, D, step
  <2> QED BY <1>1, <1>3, Recursion
<1>6. P(f)
  <2>1. f[0] = <<>> /\ \A k \in 1..n : f[k] = step[k][f[k - 1]]
    BY <1>5, Zenon DEF Iterates
  <2>2. \A k \in 1..n : f[k - 1] \in D
    <3>1. \A k \in 1..n : k - 1 \in 0..n
      BY <1>1
    <3> HIDE DEF n, D
    <3> QED BY <1>5, <3>1
  <2> HIDE DEF step, D
  <2>3. \A k \in 1..n :
          f[k] = IF srcs[k][1] = "array" THEN Append(f[k - 1], srcs[k][2]) ELSE f[k - 1]
    BY <1>4, <2>1, <2>2
  <2>4. \A k \in 0..n : k # 0 => k \in 1..n
    BY <1>1
  <2>5. \A k \in 0..n :
          f[k] = IF k = 0 THEN <<>>
                 ELSE IF srcs[k][1] = "array" THEN Append(f[k - 1], srcs[k][2]) ELSE f[k - 1]
    BY <2>1, <2>3, <2>4, Zenon
  <2> QED
    BY <1>5, <2>5
<1>7. P(of)
  <2> HIDE DEF P
  <2> QED BY <1>6
<1>8. Of("array", srcs) = of[n]
  BY DEF Of
<1> HIDE DEF of
<1>9. of[0] = <<>> /\ \A k \in 1..n :
        of[k] = IF srcs[k][1] = "array" THEN Append(of[k - 1], srcs[k][2]) ELSE of[k - 1]
  <2>1. 0 \in 0..n /\ \A k \in 1..n : k \in 0..n /\ k # 0
    BY <1>1
  <2>2. \A k \in 0..n :
          of[k] = IF k = 0 THEN <<>>
                  ELSE IF srcs[k][1] = "array" THEN Append(of[k - 1], srcs[k][2]) ELSE of[k - 1]
    BY <1>7
  <2> HIDE DEF n
  <2> QED
    BY <2>1, <2>2, Zenon
<1> DEFINE S == {k \in 0..n : of[k] \in D}
<1>10. 0 \in S
  <2>1. 0 \in 0..n /\ of[0] \in D
    BY <1>1, <1>9
  <2> QED
    BY <2>1
<1>11. ASSUME NEW k \in 0..(n - 1), k \in S PROVE k + 1 \in S
  <2>1. k + 1 \in 1..n /\ k + 1 \in 0..n /\ (k + 1) - 1 = k
    OBVIOUS
  <2>2. of[k] \in D
    BY <1>11
  <2> HIDE DEF D
  <2>3. of[k + 1] \in D
    BY <1>2, <1>9, <2>1, <2>2
  <2> QED
    BY <2>1, <2>3
<1>12. n \in S
  <2> HIDE DEF S, n
  <2>1. 0..n \subseteq S
    BY <1>1, <1>10, <1>11, Induction
  <2> QED
    BY <1>1, <2>1
<1> QED
  BY <1>8, <1>12

-----------------------------------------------------------------------------
(* Of a contiguous array the bytes one after the other are its elements.   *)
LEMMA ContiguousChunk ==
  ASSUME NEW array, array.step = 1
  PROVE  Chunk(array) = Elements(array)
<1>1. \A k \in 1..array.size : k - 1 = (k - 1) * 1
  OBVIOUS
<1> QED
  BY <1>1 DEF Chunk, Elements

(* The layouts of the format have the values of those that were passed.    *)
LEMMA PassedLayouts ==
  ASSUME NEW s, NEW type, NEW srcs, ParseCreateRecordParams(s, type, srcs)
  PROVE  LET layouts == Of("layout", srcs) IN
         [i \in DOMAIN FormatOf(s, type).layouts |-> staged[<<s, type, i>>]]
           = [k \in DOMAIN layouts |-> staged[layouts[k]]]
<1> DEFINE D == DOMAIN FormatOf(s, type).layouts
           layouts == Of("layout", srcs)
<1>1. layouts = [i \in D |-> <<s, type, i>>]
  BY DEF ParseCreateRecordParams, LayoutsMatch
<1> HIDE DEF D, layouts
<1>2. DOMAIN layouts = D /\ \A i \in D : layouts[i] = <<s, type, i>>
  BY <1>1
<1>3. [i \in D |-> staged[<<s, type, i>>]] = [k \in DOMAIN layouts |-> staged[layouts[k]]]
  BY <1>2
<1> QED
  BY <1>3 DEF D, layouts

(* A record that is created is made of what was passed. *)
LEMMA CreateRecordWrites ==
  ASSUME NEW s, NEW type, NEW srcs, CreateRecordFrom(s, type, srcs)
  PROVE  WhatIsPassedIsWritten'
<1> DEFINE layouts == Of("layout", srcs)
           arrays == Of("array", srcs)
           written1 == [k \in DOMAIN layouts |-> staged[layouts[k]]]
           chunks == [k \in DOMAIN arrays |-> Chunk(arrays[k])]
           elements == [k \in DOMAIN arrays |-> Elements(arrays[k])]
<1>1. CASE ~ParseCreateRecordParams(s, type, srcs)
  <2>1. record' = None
    BY <1>1 DEF CreateRecordFrom
  <2> QED
    BY <2>1 DEF WhatIsPassedIsWritten
<1>2. CASE ParseCreateRecordParams(s, type, srcs)
  <2>1. record' = [stream |-> s, type |-> type, layouts |-> written1, arrays |-> arrays,
                   payload |-> GetDataSource(s, type, arrays)]
    BY <1>2 DEF CreateRecordFrom
  <2>2. GetDataSource(s, type, arrays) = written1 \o FlattenSeq(chunks)
    <3> DEFINE own == [i \in DOMAIN FormatOf(s, type).layouts |-> staged[<<s, type, i>>]]
    <3>1. own = written1
      BY <1>2, PassedLayouts
    <3>2. GetDataSource(s, type, arrays) = own \o FlattenSeq(chunks)
      BY DEF GetDataSource
    <3> HIDE DEF own, written1
    <3> QED
      BY <3>1, <3>2
  <2>3. ASSUME \A k \in DOMAIN arrays : arrays[k].step = 1
        PROVE  chunks = elements
    BY <2>3, ContiguousChunk
  <2> HIDE DEF written1, arrays
  <2>4. /\ record'.layouts = written1 /\ record'.arrays = arrays
        /\ record'.payload = written1 \o FlattenSeq(chunks)
    BY <2>1, <2>2
  <2> QED
    BY <2>3, <2>4 DEF WhatIsPassedIsWritten, Contiguous
<1> QED
  BY <1>1, <1>2

(* A record has the values of the layouts passed for it and the elements   *)
(* of the contiguous arrays, although the data source is made of the       *)
(* format's layouts (PyRecordable.cpp:48, 178): for any formats, flavors,  *)
(* values, refused ones included, and any order of the calls.              *)
THEOREM PassedIsWritten == FormatsSpec => []WhatIsPassedIsWritten
<1>1. FormatsInit => WhatIsPassedIsWritten
  BY DEF FormatsInit, WhatIsPassedIsWritten
<1>2. WhatIsPassedIsWritten /\ [FormatsNext]_formatsVars
        => WhatIsPassedIsWritten'
  <2> SUFFICES ASSUME WhatIsPassedIsWritten, [FormatsNext]_formatsVars
               PROVE  WhatIsPassedIsWritten'
    OBVIOUS
  <2>1. CASE record' = None
    BY <2>1 DEF WhatIsPassedIsWritten
  <2>2. ASSUME NEW s, NEW type, NEW srcs, CreateRecordFrom(s, type, srcs)
        PROVE  WhatIsPassedIsWritten'
    BY <2>2, CreateRecordWrites
  <2>3. CASE UNCHANGED formatsVars
    BY <2>3 DEF formatsVars, WhatIsPassedIsWritten, Contiguous
  <2> QED
    BY <2>1, <2>2, <2>3
    DEF FormatsNext, CreateStreamNamed, CreateFlavoredStream, AddStream,
        SetPiece
<1> QED
  BY <1>1, <1>2, PTL DEF FormatsSpec
-----------------------------------------------------------------------------
(* Reading back.                                                           *)

(* A content block that takes what is left is the last one of its record:  *)
(* the library could not tell where the next one begins.                   *)
LeftIsLast(format) ==
  \A k \in DOMAIN format.blocks : format.blocks[k] = None => k = Len(format.blocks)

FormatOK(format) == IsPyRecordFormat(format) /\ LeftIsLast(format)

(* What the factory makes. *)
FactoryStreams ==
  {RegisteredStreams[name] : name \in DOMAIN RegisteredStreams}
    \cup UNION {{FlavoredStreams[name][flavor] : flavor \in Flavors} : name \in DOMAIN FlavoredStreams}

(* The streams an application registers, as those of the writer. *)
OtherLeftIsLast ==
  \A name \in DOMAIN OtherStreams, type \in FormatTypes : LeftIsLast(OtherStreams[name].formats[type])

LEMMA FormatTypesOK ==
  ASSUME NEW layouts, Len(layouts) \in 0..2, DOMAIN layouts = 1..Len(layouts),
         NEW blocks, blocks = <<>> \/ blocks = <<None>>
  PROVE  FormatOK(PyRecordFormat(layouts, blocks))
<1>1. blocks \in Seq(Nat \cup {None}) /\ \A k \in DOMAIN blocks : k = Len(blocks)
  <2> DEFINE D == Nat \cup {None}
  <2>1. None \in D
    OBVIOUS
  <2> HIDE DEF D
  <2>2. CASE blocks = <<>>
    <3>1. blocks \in Seq(D) /\ DOMAIN blocks = {}
      BY <2>2
    <3> QED
      BY <3>1 DEF D
  <2>3. CASE blocks = <<None>>
    <3>1. blocks \in Seq(D) /\ DOMAIN blocks = 1..1 /\ Len(blocks) = 1
      BY <2>1, <2>3
    <3> QED
      BY <3>1 DEF D
  <2> QED
    BY <2>2, <2>3
<1> QED
  BY <1>1 DEF FormatOK, IsPyRecordFormat, PyRecordFormat, LeftIsLast

LEMMA PyStreamOK ==
  ASSUME NEW flavor, NEW configuration, NEW data, FormatOK(configuration), FormatOK(data)
  PROVE  \A type \in FormatTypes : FormatOK(PyStream(flavor, configuration, data).formats[type])
<1>1. FormatOK(PyRecordFormat(<<>>, <<>>))
  BY FormatTypesOK
<1> QED
  BY <1>1 DEF PyStream, FormatTypes

LEMMA FactoryFormats ==
  ASSUME OtherLeftIsLast, NEW stream \in FactoryStreams, NEW type \in FormatTypes
  PROVE  FormatOK(stream.formats[type])
<1>1. \A a, b : /\ Len(<<a>>) = 1 /\ DOMAIN <<a>> = 1..1
               /\ Len(<<a, b>>) = 2 /\ DOMAIN <<a, b>> = 1..2
  OBVIOUS
<1>2. /\ FormatOK(PyRecordFormat(<<MyConfiguration>>, <<>>))
      /\ FormatOK(PyRecordFormat(<<MyMetadata>>, <<>>))
      /\ FormatOK(PyRecordFormat(<<MyMetadata>>, <<None>>))
      /\ FormatOK(PyRecordFormat(<<MyMetadata, MyMetadata>>, <<None>>))
  BY <1>1, FormatTypesOK
<1>3. /\ \A flavor : FormatOK(SampleStream(flavor).formats[type])
      /\ FormatOK(SampleStreamWithImage.formats[type])
      /\ FormatOK(SampleStreamWithMultipleDataLayout.formats[type])
  BY <1>2, PyStreamOK DEF SampleStream, SampleStreamWithImage, SampleStreamWithMultipleDataLayout
<1>4. CASE \E name \in DOMAIN RegisteredStreams : stream = RegisteredStreams[name]
  <2>1. PICK name \in DOMAIN RegisteredStreams : stream = RegisteredStreams[name]
    BY <1>4
  <2>2. CASE name \in DOMAIN WriterStreams
    <3>1. stream = WriterStreams[name]
      BY <2>1, <2>2 DEF RegisteredStreams
    <3>2. stream \in {SampleStream(""), SampleStream("flavor_1"), SampleStream("flavor_2"),
                      SampleStreamWithImage, SampleStreamWithMultipleDataLayout}
      <4> DEFINE a == SampleStream("")
                 b == SampleStream("flavor_1")
                 c == SampleStream("flavor_2")
                 d == SampleStreamWithImage
                 e == SampleStreamWithMultipleDataLayout
                 all == [sample |-> a, sample_with_flavor_1 |-> b, sample_with_flavor_2 |-> c,
                         sample_with_image |-> d, sample_with_multiple_data_layout |-> e]
      <4>1. WriterStreams = all
        BY DEF WriterStreams
      <4> HIDE DEF a, b, c, d, e
      <4>2. name \in DOMAIN all /\ stream = all[name]
        BY <2>2, <3>1, <4>1
      <4>3. stream \in {a, b, c, d, e}
        BY <4>2
      <4> QED
        BY <4>3 DEF a, b, c, d, e
    <3> QED
      BY <1>3, <3>2
  <2>3. CASE name \notin DOMAIN WriterStreams
    <3>1. name \in DOMAIN OtherStreams /\ stream = OtherStreams[name]
      BY <2>1, <2>3 DEF RegisteredStreams
    <3> QED
      BY <3>1, RecordFormatsAssumption DEF OtherLeftIsLast, FormatOK
  <2> QED
    BY <2>2, <2>3
<1>5. CASE \E name \in DOMAIN FlavoredStreams, flavor \in Flavors :
             stream = FlavoredStreams[name][flavor]
  <2>1. PICK flavor \in Flavors : stream = SampleStream(flavor)
    BY <1>5 DEF FlavoredStreams
  <2> QED
    BY <1>3, <2>1
<1> QED
  BY <1>4, <1>5 DEF FactoryStreams

(* The streams made are the factory's, and what is known of the last       *)
(* record: it is one of these streams', with as many layouts as its format *)
(* has, and with arrays.                                                   *)
MadeInv ==
  /\ made \in Seq(FactoryStreams)
  /\ record # None =>
       /\ record.stream \in DOMAIN made /\ record.type \in FormatTypes
       /\ record.layouts =
            [i \in DOMAIN FormatOf(record.stream, record.type).layouts |-> record.layouts[i]]
       /\ record.arrays \in Seq(Arrays)

LEMMA MadeInvHolds == FormatsSpec => []MadeInv
<1>1. FormatsInit => MadeInv
  BY DEF FormatsInit, MadeInv
<1>2. MadeInv /\ [FormatsNext]_formatsVars => MadeInv'
  <2> SUFFICES ASSUME MadeInv, [FormatsNext]_formatsVars PROVE MadeInv'
    OBVIOUS
  <2>1. ASSUME NEW stream \in FactoryStreams, AddStream(stream) PROVE MadeInv'
    BY <2>1 DEF AddStream, MadeInv
  <2>2. CASE record' = None /\ UNCHANGED made
    BY <2>2 DEF MadeInv
  <2>3. ASSUME NEW name \in Names, CreateStreamNamed(name) PROVE MadeInv'
    BY <2>1, <2>2, <2>3 DEF CreateStreamNamed, FactoryStreams
  <2>4. ASSUME NEW name \in Names, NEW flavor \in Flavors, CreateFlavoredStream(name, flavor)
        PROVE  MadeInv'
    BY <2>1, <2>2, <2>4 DEF CreateFlavoredStream, FactoryStreams
  <2>5. ASSUME NEW s \in DOMAIN made, NEW type \in FormatTypes, NEW n \in 0..MaxSources,
               NEW srcs \in [1..n -> Sources], CreateRecordFrom(s, type, srcs)
        PROVE  MadeInv'
    <3>1. CASE ~ParseCreateRecordParams(s, type, srcs)
      BY <2>2, <2>5, <3>1 DEF CreateRecordFrom
    <3>2. CASE ParseCreateRecordParams(s, type, srcs)
      <4> DEFINE layouts == Of("layout", srcs)
                 arrays == Of("array", srcs)
                 D == DOMAIN FormatOf(s, type).layouts
      <4>1. record' = [stream |-> s, type |-> type,
                       layouts |-> [k \in DOMAIN layouts |-> staged[layouts[k]]],
                       arrays |-> arrays, payload |-> GetDataSource(s, type, arrays)]
        BY <2>5, <3>2 DEF CreateRecordFrom
      <4>2. made' = made
        BY <2>5 DEF CreateRecordFrom
      <4>3. DOMAIN layouts = D
        BY <3>2 DEF ParseCreateRecordParams, LayoutsMatch
      <4>4. arrays \in Seq(Arrays)
        <5>1. n \in Nat
          BY RecordFormatsAssumption
        <5>2. srcs \in Seq(Sources)
          BY <5>1
        <5> QED
          BY <5>2, OfType
      <4> HIDE DEF layouts, arrays, D
      <4>5. /\ record'.stream = s /\ record'.type = type /\ record'.arrays = arrays
            /\ record'.layouts = [k \in D |-> staged[layouts[k]]]
        BY <4>1, <4>3
      <4>6. FormatOf(s, type)' = FormatOf(s, type)
        BY <4>2 DEF FormatOf
      <4>7. record'.layouts = [i \in D |-> record'.layouts[i]]
        BY <4>5
      <4>8. DOMAIN FormatOf(record.stream, record.type)'.layouts = D
        BY <4>2, <4>5 DEF FormatOf, D
      <4> QED
        BY <4>2, <4>4, <4>5, <4>7, <4>8 DEF MadeInv
    <3> QED
      BY <3>1, <3>2
  <2>6. ASSUME NEW l, NEW label, NEW value, SetPiece(l, label, value) PROVE MadeInv'
    BY <2>2, <2>6 DEF SetPiece
  <2>7. CASE UNCHANGED formatsVars
    BY <2>7 DEF formatsVars, MadeInv, FormatOf
  <2> QED
    BY <2>3, <2>4, <2>5, <2>6, <2>7 DEF FormatsNext
<1> QED
  BY <1>1, <1>2, PTL DEF FormatsSpec

(* The elements of arrays. *)
LEMMA ElementsType ==
  ASSUME NEW array \in Arrays
  PROVE  /\ Elements(array) \in Seq(UNION {{Elements(a)[k] : k \in Nat} : a \in Arrays})
         /\ Len(Elements(array)) = array.size
<1> DEFINE T == UNION {{Elements(a)[k] : k \in Nat} : a \in Arrays}
           n == array.size
           list == Elements(array)
<1>1. n \in Nat
  BY RecordFormatsAssumption
<1>2. \A k \in 1..n : list[k] \in T
  OBVIOUS
<1>3. list = [k \in 1..n |-> list[k]]
  BY DEF Elements
<1> HIDE DEF T, list, n
<1> QED
  BY <1>1, <1>2, <1>3 DEF list, n, T

(* What two sequences are put together of is in front and behind. *)
LEMMA FrontAndBehind ==
  ASSUME NEW T, NEW s \in Seq(T), NEW t \in Seq(T)
  PROVE  /\ SubSeq(s \o t, 1, Len(s)) = s
         /\ SubSeq(s \o t, Len(s) + 1, Len(s \o t)) = t
<1> DEFINE whole == s \o t
           a == SubSeq(whole, 1, Len(s))
           b == SubSeq(whole, Len(s) + 1, Len(whole))
<1>1. /\ whole \in Seq(T) /\ Len(whole) = Len(s) + Len(t)
      /\ Len(s) \in Nat /\ Len(t) \in Nat
      /\ \A i \in 1..(Len(s) + Len(t)) : whole[i] = IF i <= Len(s) THEN s[i] ELSE t[i - Len(s)]
  BY ConcatProperties
<1> HIDE DEF whole
<1>2. \A i \in 1..Len(whole) : whole[i] \in T
  BY <1>1
<1>3. /\ a \in Seq(T) /\ Len(a) = IF 1 <= Len(s) THEN Len(s) - 1 + 1 ELSE 0
      /\ \A i \in 1..(Len(s) - 1 + 1) : a[i] = whole[1 + i - 1]
  <2>1. \A i \in 1..Len(s) : whole[i] \in T
    BY <1>1, <1>2
  <2> QED
    BY <1>1, <2>1, SubSeqProperties
<1>4. /\ b \in Seq(T)
      /\ Len(b) = IF Len(s) + 1 <= Len(whole) THEN Len(whole) - (Len(s) + 1) + 1 ELSE 0
      /\ \A i \in 1..(Len(whole) - (Len(s) + 1) + 1) : b[i] = whole[(Len(s) + 1) + i - 1]
  <2>1. \A i \in (Len(s) + 1)..Len(whole) : whole[i] \in T
    BY <1>1, <1>2
  <2> QED
    BY <1>1, <2>1, SubSeqProperties
<1> HIDE DEF a, b
<1>5. Len(a) = Len(s) /\ \A i \in 1..Len(s) : a[i] = s[i]
  BY <1>1, <1>3
<1>6. Len(b) = Len(t) /\ \A i \in 1..Len(t) : b[i] = t[i]
  <2>1. Len(b) = Len(t)
    BY <1>1, <1>4
  <2>2. ASSUME NEW i \in 1..Len(t) PROVE b[i] = t[i]
    <3>1. i \in 1..(Len(whole) - (Len(s) + 1) + 1) /\ (Len(s) + 1) + i - 1 = Len(s) + i
      BY <1>1
    <3>2. b[i] = whole[Len(s) + i]
      BY <1>4, <3>1
    <3>3. /\ Len(s) + i \in 1..(Len(s) + Len(t)) /\ ~(Len(s) + i <= Len(s))
          /\ (Len(s) + i) - Len(s) = i
      BY <1>1
    <3> QED
      BY <1>1, <3>2, <3>3
  <2> QED
    BY <2>1, <2>2
<1>7. a = s /\ b = t
  <2>1. /\ a = [i \in 1..Len(a) |-> a[i]] /\ b = [i \in 1..Len(b) |-> b[i]]
        /\ s = [i \in 1..Len(s) |-> s[i]] /\ t = [i \in 1..Len(t) |-> t[i]]
    BY <1>3, <1>4
  <2> QED
    BY <1>5, <1>6, <2>1
<1> QED
  BY <1>7 DEF a, b, whole

(* A record read back by the format of its stream gives its layouts and    *)
(* its arrays: the arrays are where the sizes of the content blocks say.   *)
LEMMA ReadsBack ==
  ASSUME OtherLeftIsLast, MadeInv, WhatIsPassedIsWritten
  PROVE  RoundTrip
<1> SUFFICES ASSUME record # None, Contiguous, ArraysFit
             PROVE  /\ ReadBack.layouts = record.layouts
                    /\ ReadBack.blocks = [k \in DOMAIN record.arrays |-> Elements(record.arrays[k])]
  BY DEF RoundTrip
<1> DEFINE format == FormatOf(record.stream, record.type)
           n == Len(format.layouts)
           arrays == record.arrays
           layouts == record.layouts
           T == UNION {{Elements(a)[k] : k \in Nat} : a \in Arrays}
           elements == [k \in DOMAIN arrays |-> Elements(arrays[k])]
<1>1. FormatOK(format)
  <2>1. made[record.stream] \in FactoryStreams /\ record.type \in FormatTypes
    BY DEF MadeInv
  <2> QED
    BY <2>1, FactoryFormats DEF FormatOf
<1>2. n \in Nat /\ DOMAIN format.layouts = 1..n
  BY <1>1 DEF FormatOK, IsPyRecordFormat
<1>3. layouts = [i \in 1..n |-> layouts[i]] /\ Len(layouts) = n
  BY <1>2 DEF MadeInv
<1>4. arrays \in Seq(Arrays) /\ DOMAIN arrays = 1..Len(arrays) /\ Len(arrays) \in Nat
  BY DEF MadeInv
<1>5. elements \in Seq(Seq(T)) /\ Len(elements) = Len(arrays)
      /\ \A k \in 1..Len(arrays) : Len(elements[k]) = arrays[k].size
  <2>1. \A k \in 1..Len(arrays) : arrays[k] \in Arrays
    BY <1>4
  <2>2. \A k \in 1..Len(arrays) : elements[k] \in Seq(T) /\ Len(elements[k]) = arrays[k].size
    BY <1>4, <2>1, ElementsType
  <2>3. elements = [k \in 1..Len(arrays) |-> elements[k]]
    BY <1>4
  <2> DEFINE D == Seq(T)
  <2> HIDE DEF elements, arrays, T, D
  <2>4. \A k \in 1..Len(arrays) : elements[k] \in D
    BY <2>2 DEF D
  <2>5. elements \in Seq(D) /\ Len(elements) = Len(arrays)
    BY <1>4, <2>3, <2>4
  <2> QED
    BY <2>2, <2>5 DEF D
<1>6. record.payload = layouts \o FlattenSeq(elements)
  BY DEF WhatIsPassedIsWritten
<1>7. CutBySizes(FlattenSeq(elements), format.blocks) = elements
  <2> DEFINE sizes == format.blocks
  <2>1. sizes \in Seq(Nat \cup {None}) /\ \A k \in DOMAIN sizes : sizes[k] = None => k = Len(sizes)
    BY <1>1 DEF FormatOK, IsPyRecordFormat, LeftIsLast
  <2>2. Len(arrays) = Len(sizes) /\ \A k \in DOMAIN sizes : sizes[k] \in {None, arrays[k].size}
    BY DEF ArraysFit
  <2> HIDE DEF sizes, elements, arrays, T
  <2>3. DOMAIN sizes = 1..Len(sizes)
    BY <2>1
  <2>4. DOMAIN sizes = 1..Len(elements) /\ Len(sizes) = Len(elements)
    BY <1>5, <2>2, <2>3
  <2>5. \A k \in 1..Len(elements) :
          \/ sizes[k] = Len(elements[k]) /\ sizes[k] # None
          \/ k = Len(elements) /\ sizes[k] \in {None, Len(elements[k])}
    BY <1>5, <2>1, <2>2, <2>4
  <2> QED
    BY <1>5, <2>4, <2>5, CutBySizesCuts DEF sizes
<1>8. PICK U : layouts \in Seq(U) /\ FlattenSeq(elements) \in Seq(U)
  <2> DEFINE whole == FlattenSeq(elements)
             U == {layouts[i] : i \in 1..n} \cup T
  <2>1. whole \in Seq(T)
    <3>1. CASE Len(elements) = 0
      <4>1. whole = elements
        BY <3>1 DEF FlattenSeq
      <4>2. elements = <<>>
        BY <1>5, <3>1
      <4> QED
        BY <4>1, <4>2
    <3>2. CASE Len(elements) # 0
      <4> HIDE DEF elements, T
      <4>1. PICK f \in [1..Len(elements) -> Seq(T)] :
              Flattening(f, elements) /\ FlattenSeq(elements) = f[Len(elements)]
        BY <1>5, <3>2, FlattenSeqFlattens
      <4>2. Len(elements) \in 1..Len(elements)
        BY <1>5, <3>2
      <4> DEFINE D == Seq(T)
      <4>3. f \in [1..Len(elements) -> D]
        BY <4>1
      <4> HIDE DEF D
      <4>4. f[Len(elements)] \in D
        BY <4>2, <4>3
      <4> QED
        BY <4>1, <4>4 DEF D
    <3> QED
      BY <3>1, <3>2
  <2>2. \A i \in 1..n : layouts[i] \in U
    OBVIOUS
  <2>3. T \subseteq U
    OBVIOUS
  <2> HIDE DEF U, T, whole, layouts, n
  <2>4. layouts \in Seq(U)
    BY <1>2, <1>3, <2>2
  <2>5. whole \in Seq(U)
    BY <2>1, <2>3
  <2> QED
    BY <2>4, <2>5 DEF whole
<1>9. /\ SubSeq(record.payload, 1, n) = layouts
      /\ SubSeq(record.payload, n + 1, Len(record.payload)) = FlattenSeq(elements)
  <2> DEFINE whole == FlattenSeq(elements)
  <2>1. layouts \in Seq(U) /\ whole \in Seq(U)
    BY <1>8
  <2>2. Len(layouts) = n /\ record.payload = layouts \o whole
    BY <1>3, <1>6
  <2> HIDE DEF whole, layouts, n, elements
  <2>3. SubSeq(layouts \o whole, 1, Len(layouts)) = layouts
    BY <2>1, FrontAndBehind
  <2>4. SubSeq(layouts \o whole, Len(layouts) + 1, Len(layouts \o whole)) = whole
    BY <2>1, FrontAndBehind
  <2> QED
    BY <2>2, <2>3, <2>4 DEF whole
<1>10. /\ ReadBack.layouts = SubSeq(record.payload, 1, n)
       /\ ReadBack.blocks =
            CutBySizes(SubSeq(record.payload, n + 1, Len(record.payload)), format.blocks)
  BY DEF ReadBack
<1> HIDE DEF n, format, elements
<1> QED
  BY <1>7, <1>9, <1>10 DEF elements

(* For any streams registered, whose content blocks but the last have a    *)
(* size, any layouts, values and contiguous arrays that fit the blocks: a  *)
(* record read back by the format of its stream gives each layout and each *)
(* array as it was passed (PyRecordable.cpp:178, getRecordFormat).         *)
THEOREM ReadBackIsPassed ==
  ASSUME OtherLeftIsLast
  PROVE  FormatsSpec => []RoundTrip
<1>1. MadeInv /\ WhatIsPassedIsWritten => RoundTrip
  BY ReadsBack
<1> QED
  BY <1>1, MadeInvHolds, PassedIsWritten, PTL
=============================================================================
