-------------------------- MODULE AsyncImageFilter --------------------------
(***************************************************************************)
(* The asynchronous image filter (csrc/filter): it walks the selected      *)
(* records of a VRS file, writes the records without an image to the       *)
(* output file at once, hands the images out to the program, and takes     *)
(* them back (or discards them) in any order, keeping a backlog so that    *)
(* the output file is still written in order.                              *)
(*                                                                         *)
(* Records are named by their index in the input file, 0..FileLength-1;    *)
(* the filter has its own indices, positions in records_, which is what    *)
(* ImageBuffer::recordIndex holds.  The pixel data is left out.            *)
(***************************************************************************)
EXTENDS Naturals, Sequences, FiniteSets

CONSTANTS
  FileLength,   \* number of records of the input file
  Kind,         \* per record: "image", "layout" (in a filtered stream, with and
                \* without an image) or "copied" (in a stream copied as is)
  Timestamp,    \* per record; the file's index is sorted by it
  Selected,     \* the records that pass the FilteredFileReader's filter, in order
  PreRoll,      \* configuration and state records read ahead of the time range
  Unreadable,   \* records whose read returns an error
  MaxCreates    \* bounds the calls of createOutputFile

File == 0..(FileLength - 1)

ASSUME FilterAssumption ==
  /\ FileLength \in Nat
  /\ Kind \in [File -> {"image", "layout", "copied"}]
  /\ Timestamp \in [File -> Nat]
  /\ \A r, q \in File : r < q => Timestamp[r] <= Timestamp[q]
  /\ Selected \in Seq(File)
  /\ \A i, j \in 1..Len(Selected) : i < j => Selected[i] < Selected[j]
  /\ PreRoll \subseteq {r \in File : Kind[r] # "image"}
  /\ \A r \in PreRoll, i \in 1..Len(Selected) : r < Selected[i]
  /\ Unreadable \subseteq File
  /\ MaxCreates \in Nat

VARIABLES
  creates,      \* calls of createOutputFile made so far
  inputOpen,    \* filteredReader_.reader.isOpened()
  initialized,  \* initialized_
  fileCreated,  \* OssThrottledFileHelper::fileCreated_
  copiers,      \* copiers_: how many copiers each selected stream has
  records,      \* records_
  next,         \* nextRecordIndex_
  waiting,      \* pendingRecords_ whose image is still out (needsImageProcessing)
  processed,    \* pendingRecords_ whose image came back
  discarded,    \* history: the indices discarded
  passedOver,   \* history: the indices read without a copier to give the record to
  written,      \* how often createRecord was called for a record
  flushed,      \* records the writer has put in the file
  collectMetadata, metadata,   \* collectMetadata_; the keys of metadata_
  closed        \* closeFile returned 0

vars == <<creates, inputOpen, initialized, fileCreated, copiers, records, next,
          waiting, processed, discarded, passedOver, written, flushed,
          collectMetadata, metadata, closed>>

setup == <<creates, inputOpen, initialized, fileCreated, copiers, records, collectMetadata, closed>>

(* The record at an index of the filter. *)
Rec(i) == records[i + 1]

Indices == 0..(Len(records) - 1)

(* Records the writer holds in memory. *)
Buffered == {r \in File : written[r] > 0} \ flushed

TypeOK ==
  /\ creates \in 0..MaxCreates
  /\ inputOpen \in BOOLEAN /\ initialized \in BOOLEAN /\ fileCreated \in BOOLEAN
  /\ collectMetadata \in BOOLEAN /\ closed \in BOOLEAN
  /\ copiers \in 0..MaxCreates
  /\ records \in Seq(File)
  /\ next \in 0..Len(records)
  /\ waiting \in SUBSET Indices /\ processed \in SUBSET Indices
  /\ discarded \in SUBSET Indices /\ passedOver \in SUBSET Indices
  /\ written \in [File -> Nat]
  /\ flushed \in SUBSET File /\ metadata \in SUBSET File

Init ==
  /\ creates = 0 /\ inputOpen \in BOOLEAN
  /\ initialized = FALSE /\ fileCreated = FALSE /\ closed = FALSE
  /\ copiers = 0 /\ records = <<>> /\ next = 0
  /\ waiting = {} /\ processed = {} /\ discarded = {} /\ passedOver = {}
  /\ written = [r \in File |-> 0] /\ flushed = {}
  /\ collectMetadata = FALSE /\ metadata = {}

-----------------------------------------------------------------------------
(* The writer: createRecord for a set of records.                          *)
Create(S) == [r \in File |-> IF r \in S \ Unreadable THEN written[r] + 1 ELSE written[r]]

(* doDataLayoutEdits: the datalayouts of the records of filtered streams   *)
(* are kept under their index in the file.                                 *)
Collected(S) ==
  IF collectMetadata
    THEN metadata \cup {r \in S \ Unreadable : Kind[r] # "copied"}
    ELSE metadata

(* need_record_metadata(), "first", before the file is created.            *)
NeedRecordMetadata ==
  /\ creates = 0 /\ ~collectMetadata
  /\ collectMetadata' = TRUE
  /\ UNCHANGED <<creates, inputOpen, initialized, fileCreated, copiers, records, next, waiting,
                 processed, discarded, passedOver, written, flushed, metadata, closed>>

(* createOutputFile fails: the input does not open (the early return), or  *)
(* the output is not created, after the copiers were; a writer that has a  *)
(* file open creates no second one.                                        *)
CreateOutputFileFails ==
  /\ creates < MaxCreates
  /\ creates' = creates + 1
  /\ initialized' = TRUE
  /\ \/ ~inputOpen /\ UNCHANGED <<inputOpen, copiers, next, passedOver>>
     \/ /\ inputOpen' = TRUE /\ copiers' = copiers + 1
        /\ next' = 0 /\ passedOver' = {}
  /\ UNCHANGED <<fileCreated, records, waiting, processed, discarded, written,
                 flushed, collectMetadata, metadata, closed>>

(* createOutputFile succeeds: one more copier per stream, the pre-roll     *)
(* records are copied to the new file, and the selected records are        *)
(* appended to records_.                                                   *)
CreateOutputFile ==
  /\ creates < MaxCreates /\ ~fileCreated
  /\ creates' = creates + 1
  /\ inputOpen' = TRUE /\ initialized' = TRUE
  /\ fileCreated' = TRUE /\ closed' = FALSE
  /\ copiers' = copiers + 1
  /\ records' = records \o Selected
  /\ next' = 0 /\ passedOver' = {}
  /\ written' = [r \in File |-> IF r \in PreRoll \ Unreadable THEN 1 ELSE 0]
  /\ flushed' = {}
  /\ metadata' = Collected(PreRoll)
  /\ UNCHANGED <<waiting, processed, discarded, collectMetadata>>

(* The record at i has an image to hand out. *)
HasImage(i) == Kind[Rec(i)] = "image" /\ Rec(i) \notin Unreadable

(* A getNextImage that skips the records without an image. *)
GetNextImageSkipping ==
  /\ initialized
  /\ next < Len(records)
  /\ \E j \in next..Len(records) :
       /\ \A k \in next..(j - 1) : ~HasImage(k)
       /\ j < Len(records) /\ HasImage(j)
       /\ next' = j + 1 /\ waiting' = waiting \cup {j}
       /\ metadata' = Collected({Rec(k) : k \in next..j})
  /\ UNCHANGED <<setup, processed, discarded, passedOver, flushed, written>>

(* A getNextImage that counts on when it finds no more records. *)
GetNextImageOverrun ==
  /\ initialized
  /\ \A k \in next..(Len(records) - 1) : ~HasImage(k)
  /\ next' = Len(records) + 1
  /\ UNCHANGED <<setup, waiting, processed, discarded, passedOver, written, flushed,
                 metadata>>

(* getNextImage reads on to the next record with an image, j, writing the  *)
(* ones before it as they are; at the end of records_ there is none.  The  *)
(* status of readRecord is ignored: an unreadable record is passed over.   *)
(* Nothing is asked of the output file: after closeFile it goes on.        *)
GetNextImage ==
  /\ initialized
  /\ next < Len(records)
  /\ \E j \in next..Len(records) :
       /\ \A k \in next..(j - 1) : ~HasImage(k)
       /\ written' = Create({Rec(k) : k \in next..(j - 1)})
       /\ \/ /\ j < Len(records) /\ HasImage(j)
             /\ next' = j + 1
             /\ waiting' = waiting \cup {j}
             /\ metadata' = Collected({Rec(k) : k \in next..j})
          \/ /\ j = Len(records)
             /\ next' = j
             /\ metadata' = Collected({Rec(k) : k \in next..(j - 1)})
             /\ UNCHANGED waiting
  /\ UNCHANGED <<setup, processed, discarded, passedOver, flushed>>

(* A getNextImage after closeFile, when the reader has no call left for a  *)
(* copier that is gone: it finds no image, and passes over every record.   *)
(* The reader is not part of this repository; it may also still give them  *)
(* the records, which is a GetNextImage like any other.                    *)
GetNextImageUnplayed ==
  /\ initialized /\ copiers = 0
  /\ next < Len(records)
  /\ next' = Len(records)
  /\ passedOver' = passedOver \cup (next..(Len(records) - 1))
  /\ UNCHANGED <<setup, waiting, processed, discarded, written, flushed, metadata>>

(* Pending records w (images out) and p (images back): those of p in front *)
(* of every image that is still out. *)
InFront(w, p) == {i \in p : \A k \in w : i < k}

(* processPendingRecords that writes whatever is ready. *)
ProcessAllReady(w, p) ==
  /\ waiting' = w
  /\ processed' = {}
  /\ written' = Create({Rec(i) : i \in p})
  /\ \/ UNCHANGED flushed
     \/ \E last \in p :
          /\ fileCreated
          /\ \A i \in p : i <= last
          /\ flushed' = flushed \cup
               {r \in File : written'[r] > 0 /\ Timestamp[r] <= Timestamp[Rec(last)]}

(* processPendingRecords: the ready records in front go to the writer in   *)
(* index order; then onRecordDecoded(timestamp of the last) lets the       *)
(* throttled writer flush everything up to that timestamp, or not yet; a   *)
(* writer whose file is closed keeps it all.                               *)
ProcessPendingRecords(w, p) ==
  /\ waiting' = w
  /\ processed' = p \ InFront(w, p)
  /\ written' = Create({Rec(i) : i \in InFront(w, p)})
  /\ \/ UNCHANGED flushed
     \/ \E last \in InFront(w, p) :
          /\ fileCreated
          /\ \A i \in InFront(w, p) : i <= last
          /\ flushed' = flushed \cup
               {r \in File : written'[r] > 0 /\ Timestamp[r] <= Timestamp[Rec(last)]}

(* A key that is off by one. *)
ForgetNextMetadata(i) ==
  metadata' = IF collectMetadata THEN metadata \ {i + 1} ELSE metadata

(* Both calls first forget the metadata kept under the buffer's index.     *)
ForgetMetadata(i) == metadata' = IF collectMetadata THEN metadata \ {i} ELSE metadata

(* writeProcessedImage for a buffer that is not known or was returned: the *)
(* call fails.                                                             *)
RejectImage(i) ==
  /\ i \notin waiting
  /\ ForgetMetadata(i)
  /\ UNCHANGED <<setup, next, waiting, processed, discarded, passedOver, written, flushed>>

(* writeProcessedImage: the image of a pending record comes back.          *)
WriteProcessedImage(i) ==
  /\ i \in waiting
  /\ ForgetMetadata(i)
  /\ ProcessPendingRecords(waiting \ {i}, processed \cup {i})
  /\ UNCHANGED <<setup, next, discarded, passedOver>>

(* A discardRecord that does not look at the backlog behind the record. *)
DiscardOnly(i) ==
  /\ i \in waiting
  /\ ForgetMetadata(i)
  /\ waiting' = waiting \ {i}
  /\ discarded' = discarded \cup {i}
  /\ UNCHANGED <<setup, next, passedOver, processed, written, flushed>>

(* discardRecord: the pending record is dropped from the output.           *)
DiscardRecord(i) ==
  /\ i \in waiting
  /\ ForgetMetadata(i)
  /\ ProcessPendingRecords(waiting \ {i}, processed)
  /\ discarded' = discarded \cup {i}
  /\ UNCHANGED <<setup, next, passedOver>>

(* A closeFile that does not wait for the images that are out. *)
CloseAnyway ==
  /\ fileCreated
  /\ fileCreated' = FALSE /\ closed' = TRUE /\ copiers' = 0
  /\ flushed' = {r \in File : written[r] > 0}
  /\ UNCHANGED <<creates, inputOpen, initialized, records, next, waiting, processed,
                 discarded, passedOver, written, collectMetadata, metadata>>

(* closeFile fails at once while records are pending; otherwise it closes  *)
(* the file (FAILURE when none was created), which writes what is left,    *)
(* and drops the copiers.                                                  *)
CloseFile ==
  /\ waiting = {} /\ processed = {}
  /\ copiers' = 0
  /\ \/ /\ fileCreated
        /\ fileCreated' = FALSE /\ closed' = TRUE
        /\ flushed' = {r \in File : written[r] > 0}
     \/ /\ fileCreated' = FALSE          \* not created, or a write error
        /\ UNCHANGED <<closed, flushed>>
  /\ UNCHANGED <<creates, inputOpen, initialized, records, next, waiting, processed,
                 discarded, passedOver, written, collectMetadata, metadata>>

Next ==
  \/ NeedRecordMetadata \/ CreateOutputFileFails \/ CreateOutputFile
  \/ GetNextImage \/ GetNextImageUnplayed
  \/ \E i \in Indices :
       RejectImage(i) \/ WriteProcessedImage(i) \/ DiscardRecord(i)
  \/ CloseFile

Spec == Init /\ [][Next]_vars

-----------------------------------------------------------------------------
(* Properties.                                                             *)

(* "VRS must writte them out in order": whatever the order in which images *)
(* come back, nothing is created after a later record has already gone to  *)
(* the file, so every record in memory belongs behind those in the file.   *)
FileInOrder ==
  \A r \in Buffered, f \in flushed : Timestamp[f] <= Timestamp[r]

(* No record is lost or invented: a record the filter has passed is in the *)
(* output, or its image is out or waits in the backlog, or it was          *)
(* discarded, or it could not be read, or was read for no one after the    *)
(* filter was closed; and none of these twice.                             *)
NothingLost ==
  \A i \in Indices :
    i < next /\ Rec(i) \notin Unreadable /\ i \notin passedOver =>
      IF written[Rec(i)] = 1
        THEN i \notin waiting \cup processed \cup discarded
        ELSE /\ written[Rec(i)] = 0
             /\ i \in waiting \cup processed \cup discarded
             /\ ~(i \in waiting /\ i \in processed)
             /\ ~(i \in discarded /\ i \in waiting \cup processed)

(* The backlog only waits for images that are out: "For every image        *)
(* retrieved ... a corresponding writeProcessedImage() or discardRecord()  *)
(* call must be made ..., or the output file can not be closed", and once  *)
(* they are made nothing is left that would keep it from closing.          *)
BacklogWaitsForImages ==
  \A p \in processed : \E w \in waiting : w < p

(* When closeFile succeeds nothing is left behind: the file holds every    *)
(* record passed to the writer, and the images handed out so far are in it *)
(* or were discarded.  (What a get_next_image after it hands out is not    *)
(* part of the file any more, and nothing tells the program.)              *)
ClosedIsComplete ==
  [][closed' /\ ~closed =>
       /\ Buffered' = {}
       /\ \A i \in Indices :
            i < next /\ HasImage(i) => Rec(i) \in flushed' \/ i \in discarded]_vars

(* get_record_metadata(record_index) of an image being processed gives the *)
(* datalayouts of that very record.                                        *)
MetadataOfRecord ==
  collectMetadata => \A i \in waiting : i \in metadata /\ Rec(i) = i

=============================================================================
