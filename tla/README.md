# pyvrs in TLA+

pyvrs is the Python interface to VRS, a file format for streams of timestamped
sensor records. A C++ extension (`csrc/`) wraps the VRS library: readers, an
asynchronous image filter and a writer. Python classes (`pyvrs/`) sit on top.
This directory models the parts of it that keep state and can be driven into a
wrong one, checks them with TLC on small instances, and proves what matters
most with TLAPS for every value of the constants.

The VRS library itself is a git submodule and not part of the repository. What
it does is modelled from how `csrc/` uses it, and marked `external` in
`PROJECT.json`.

## 1. Inventory

A *record* has a stream, a type (configuration, state, data), a timestamp, and
content blocks (datalayouts, images, audio...). The index of a file is sorted
by timestamp. A data record is interpreted under the configuration record
before it in its stream.

| Component | State | Operations | Correct when |
|---|---|---|---|
| **AsyncReadHandler** (`csrc/reader/AsyncVRSReader.*`) | a worker thread, its job queue, a stop flag; the GIL, the event loop's futures | `async_read_record` + `await`, cancellation, the destructor | the worker and Python never touch Python objects or the reader at the same time; every awaited read settles, once, with its record, in order; the destructor ends the thread before it frees anything, and returns |
| **AsyncImageFilter** (`csrc/filter/`) | the selected records, a position in them, the images that are out or came back, the writer's buffer, the metadata map | `create_output_file`, `get_next_image`, `write_processed_image`, `discard_record`, `close_file`, `get_record_metadata` | the output is in order, complete, and holds nothing twice whatever the order of the calls; metadata is that of the image at hand |
| **FilteredFileReader** (`csrc/reader/FilteredFileReader.*`) | time range and stream filter | setters, traversal in index order, pre-roll of configurations | the selection is in order; the pre-roll is before it |
| **VRSReader** (`csrc/reader/VRSReader.*`) | cursor, enabled streams, last configuration read per stream, trailing-block limits | open, close, enable, goto, skip trailing blocks, the `read_*` calls | the record asked for, decoded under its configuration, with its own blocks; reading on skips nothing |
| **Stream player, record cache** (`VRSReader.cpp`, `utils/PyRecord.*`) | the blocks delivered so far | setBlock, onDataLayoutRead, clear | a record leaves with exactly its blocks |
| **MultiVRSReader** (`csrc/reader/MultiVRSReader.*`) | as VRSReader, over several files whose stream ids may clash; image conversions and the options derived from them | as VRSReader, `set_image_conversion` | as VRSReader, per unique stream; options are those of the configuration in force |
| **Index queries** (`VRSReader.cpp`, `MultiVRSReader.cpp`) | none (summaries are kept) | next, previous, by time, nearest, filtered indices, record infos, counts and sizes | equal to what a search of the index finds; agree with each other |
| **Python readers, slices, filtered readers** (`pyvrs/base.py`, `reader.py`, `slice.py`, `filter.py`) | filtered indices, iteration position | indexing, slicing, iteration, async iteration, filters, navigation and queries | an iteration sees its reader's records once and in order; a filter is exact; answers are about the records they name |
| **Python record and helpers** (`record.py`, `utils.py`, `datalayout.py`) | none | keys of metadata, filters over names, views | every piece of metadata is found under one key |
| **VRSWriter, VRSStream** (`pyvrs/writer.py`, `csrc/writer/VRSWriter.*`) | last flush, flag of the file's creation, streams, records in memory, the background queue | create_stream, create_*_record, flush_records, close | the file is in timestamp order, configurations in front of their data; a flush hands over what it should and returns |
| **Recordables, formats, factory** (`csrc/writer/PyRecordable.*`, `PyDataPiece.h`, `StreamFactory.*`) | the layouts of each stream and what Python put into them | `create_stream`, setting pieces, `create_*_record` | a record holds what was passed for it, and is read back as such |
| **PyBuffer** (`csrc/utils/PyBuffer.*`) | the bytes of a block, adjusted or not; arrays over them; image buffers | access, compress, decompress, build an ImageBuffer from an array | arrays stay in their bytes, have the items they say, and show the values recorded, at every access |
| **Bindings, factory helper, utilities** | none | tables and conversions | out of scope, see section 7 |

Interactions: the Python event loop hands jobs to the worker, which reads
through the same VRSReader object and answers through `call_soon_threadsafe`.
Filtered readers and slices read through the reader they were made of. The
image filter pulls records from the filtered reader, calls back into its Python
layer (`doDataLayoutEdits`) and pushes records to a writer whose flushes follow
the records it has seen. The writer shares its queue with a background thread
of the library and its checks with every Python thread that uses it. A reader's
player is called back by the library while a record is read; the blocks it
keeps become arrays long after.

Hard behaviours: the GIL and a `join` under it; cancellation racing a result;
exceptions in a thread; images that come back in any order; failing reads and
a failing file creation in the middle of an operation; what a reader remembers
of earlier reads, and under which key; an index read before an `await` and
moved after it; memory that is rewritten by looking at it; checks that are
separate from the calls they guard. `PROJECT.json` lists each under `hazards` at
its line, with the property that would catch it going wrong or the reason there
is none.

## 2. The modules

    AsyncReadHandler  <- MCAsyncReadHandler (TLC)   <- AsyncReadHandlerProofs (TLAPS)
    AsyncImageFilter  <- MCAsyncImageFilter         <- AsyncImageFilterProofs
    VRSWriter         <- MCVRSWriter                <- VRSWriterProofs
    RecordFormats     <- MCRecordFormats            <- VRSWriterProofs too
    RecordIndex, RecordCache <- VRSReader      <- MCVRSReader       <- VRSReaderProofs
    RecordIndex, RecordCache <- MultiVRSReader <- MCMultiVRSReader  <- MultiVRSReaderProofs
        both implement RecordSource, and their proofs share RecordIndexProofs
    RecordIndex, MetadataKeys <- PyReaders     <- MCPyReaders       <- PyReadersProofs
        with RecordIndexProofs too
    PyBuffer          <- MCPyBuffer                 <- PyBufferProofs

A module X declares the constants with their named assumption, the state, one
action per operation and the properties. MCX gives the constants small values.
Operators named for a fault (`WaitForJobLast`, `DiscardOnly`, ...) stand beside
the definition they distort. They are not part of any specification:
`PROJECT.json` (`mutants`) pairs each with the property that notices it, which
shows that the property depends on that piece of code.

### AsyncReadHandler

Two processes. The *Python thread* takes and gives up the GIL, awaits records
(`Await`: a future and a queued job, which carries the record's index), is
refused one (`AwaitRefused`: a failing `async_read_record` moves the reader's
`nextRecordIndex_`, which the worker reads at, to the end), cancels, runs the loop's callbacks, closes
the loop or the reader, and finally drops the reader (`DropReader`, `Join`,
`FreeReader`: the destructor, which runs under the GIL). The *worker* goes
through `asyncThreadActivity` one synchronisation point at a time: `LoopTest`,
`WaitForJob`/`WaitTimeout`, `Check` (the second condition of the `if`),
`AcquireGil`, `StartRead` (the test under the GIL, and the job's index put into
`nextRecordIndex_`), `PerformJob` (the record found there is read, and `set_result`
scheduled with it), `NotifyLoop` (where CPython may give up the GIL around the
wake-up of the loop) with `ReacquireGil`, `ResetJob`, and `Leave`, the end of the
function, which destroys its local job. An exception in `performJob` leaves the
thread function, which is `std::terminate`: `alive` becomes FALSE. The future a
result goes to is the job's, the result is what the worker found at the reader's
position: that it is what the task asked for is `SettledOnce`, not an assumption.

The reader is dropped only when nothing awaits: a suspended coroutine's frame
holds the reader. Jobs of cancelled awaits may be left.

### AsyncImageFilter

One process, the Python program, over the state of `OssAsyncImageFilter`, its
Python layer and its throttled writer. Records are named by their index in the
input file, the filter's own indices are positions in `records_`. `GetNextImage`
covers the whole loop: it writes records without an image as they are, and
stops at an image. `ProcessPendingRecords` moves the front of the backlog to the
writer; whether the writer flushes up to the last timestamp is nondeterministic
(it depends on memory, and only an open file is flushed). `written` counts the `createRecord` calls per record,
`flushed` is what is in the file; `discarded` is a history variable.
`get_next_image` is not refused after `close_file`, which leaves the filter
initialized and its position where it was, and only drops the copiers. What the
reader then does with a stream whose copier is gone is the library's affair, so
the model has both: it still gives it the records (`GetNextImage`), or passes
over them all (`GetNextImageUnplayed`, with `passedOver` as a history variable).

### RecordIndex, RecordCache and RecordSource

`RecordIndex` is the sorted index as constants, and every query of the two C++
readers as an operator over it: next and previous index (the searches over one
file raise where there is none; the one over several files runs below zero and
answers -1, `MultiGetPrevIndex`), the record at or nearest to a time, the
indices a filter lets through, record infos, counts, first and last records.
The reader over several files has code of its own for each, which goes through
the records one by one: the `Multi...` operators. Most give the same answers.
Streams have a unique id and the id of their file. Where the code chooses by a
rule this repository does not show (the nearest of two equally near records)
the operator is the set of what it may answer.

`RecordCache` has the block lists of `lastRecord_` and the rule of `setBlock`,
which recognises leftovers by comparing a list's length with the block's index.
`ReadBlocks` is a read of a record's first blocks, one `AddBlock` after the other;
`HoldsOwnBlocks` says of the lists, without a recursion, that they have this
record's blocks of each kind, all, no other, and in order.

`RecordSource` is the abstract specification of a reader: a position in the index
and at most one record delivered per call, just in front of the position and
under the configuration that governs it. `VRSReader` and `MultiVRSReader` implement
it: the position is the cursor; the record delivered is the last one returned
(data records of enabled streams; None after any other call or an exception); the
governing configuration is the last one in front of the record in its stream.
For MultiVRSReader nothing is promised for streams that share their id
(`Unshared`), which is finding 3.

### VRSReader

One process. `ReadNextRecordInternal(c)` is the common end of all read calls: end
of file; a failing configuration read (`ConfigReadFails`); a failing read of the
record (`RecordReadFails`); or a record, with the blocks the cache has and the
configuration its player has in force. Records in `Broken` may fail or not at
each attempt. `file`, `enabled`, `cursor`, `cache`, `lastReadConfig` and `trailing`
are the C++ members; `inForce` is what the player captured last, and `returned`
the PyRecord given out. `InfosForetellReads` relates the record infos to what is
then read.

### MultiVRSReader

The same cursor over several files. The cursor's record decides about trailing
blocks and image conversion (`BlockCount(at, r)`, `GetImageConversion`), also while
the configuration record in front of it is read. Players go by unique stream
id; `configIndex_` and `lastReadConfigIndex_` by the id of the record in its file
(`ConfigsBefore`, `RememberConfig`). `options` has, per player, the configuration
its normalisation options were derived from: `Normalize` makes them when an image
is converted and there are none, `Capture` drops them with each configuration.

### PyReaders and MetadataKeys

The Python objects over one opened reader: the whole reader, filtered readers,
slices. A synchronous iteration is a generator and keeps its index (`NextSync`).
An asynchronous one is split at its `await`: `Anext` looks at the object's `_index`
and queues the read, `Arrive` moves `_index` when the record comes, and in between
other tasks run, iterate over other objects (or the same one, `alone` is then
FALSE), await single items, or are cancelled. The queue is served in order, as
`AsyncReadHandler` shows. The queries are actions that leave everything but
`answer` alone; the reader is that of one file or of several.

`MetadataKeys` is `stringify_metadata_keys`: the state of its loop (the filtered
dictionary, the removed types, the ambiguous labels, and whether a KeyError was
raised), and `TakePiece`, one round of it, over the pieces of a layout. Labels are
sequences of tokens, so that a label may read like a key made for another one.

### VRSWriter

Threads that use the writer, and the library's background thread. Each Python
method is split where the thread can lose the GIL between a check and what it
guards: `BeginRecord`/`CreateRecord`, `BeginFlush`/`CreateFile` (or
`CreateFileFails`)/`WriteRecords`. A batch handed to the library is a set, for
the library sorts it; the order of the file is the order of the batches. What
`close` does with records that were never flushed is not visible in this
repository: `Close` does both.

### RecordFormats

What goes into a record. The streams are those `VRSWriter::init` registers, with
the formats `SampleDataLayout` gives them, and any other an application may
register (`OtherStreams`). `CreateStreamNamed` and `CreateFlavoredStream` make a stream
with layouts of its own (`made`), or refuse a name; `SetPiece` fills in a piece, or raises when
there is no such member (`GetMembers`) or an array is too long for it.
`CreateRecordFrom` is `create_config_record`, `create_data_record` and
`create_state_record`: the layouts among the sources are compared with the
format's own by identity (`LayoutsMatch`), other sources are passed over, and the
data source is made of the *format's* layouts and the arrays' memory
(`GetDataSource`). `record` keeps what was passed next to what was made of it;
`ReadBack` cuts it up again the way the record format says.

### PyBuffer

A block from `setBlock` (`Init`, every content and conversion) to the arrays
Python makes of it. A normalised image has the format and the unpadded rows of
the frame the library made (`NormalizeFrame`): which format that is is the
library's choice, so each is tried, the 16-bit one with `Normalize` only. `ConvertContentBlockBuffer` is one access, `np.asarray(block)`:
an image by its pixel format (`PixelLayout`), audio by frames and channels after
an adjustment of the bytes (`Widened` for 24-bit samples, `Swapped` for big-endian
ones), anything else as bytes. A byte is known by its place in the block as it
was read; an array is a shape and strides over a memory, and `memory` changes
when the buffer is replaced. `Offset` is where an element is, `Shown` what Python
sees of an array, element by element in the order of rows, columns and channels.
`Compress`, `Decompress` and `WriteBack` make image
buffers; `ConvertImageBlockBuffer` is the array of one.

## 3. The runs

| Run | Instance | States | Shows |
|---|---|---|---|
| `AsyncReadHandler` | 3 awaits, 2 records, the read of one may fail | 190 240 | threads kept apart, ownership, no await lost, results once and in order; each await settles or the process is terminated |
| `AsyncImageFilter` | 8 records, time range of 6 with 3 images, 2 pre-roll records, 1 unreadable | 4 413 | order, completeness, a backlog that never sticks, complete when closed |
| `VRSReader` | 6 records, 2 streams of one type, 3 configurations, 2 unreliable records, trailing limits 0..2 | 13 041 | exact blocks, right configuration, no record skipped, infos true of reads, a record source |
| `MultiVRSReader` | 8 records of 3 streams in 2 files, two with the same id; conversions, a failing configuration | 12 738 | current options, exact blocks, no record skipped, infos true of reads, a record source |
| `PyReaders` | 6 records, one file or two, 2 filters or slices, 2 tasks | 2 522 676 | complete iterations, exact filters, true answers |
| `PyBuffer` | blocks of every content, layout and conversion, 3 accesses | 1 174 | arrays in their bytes, items as formatted, samples as recorded |
| `VRSWriter` | 1 thread, 2 streams, 2 timestamps, 3 records, queue limit 1 | 156 467 | timestamp order, configurations in front, flushes that return |
| `RecordFormats` | 2 streams of 3 kinds, a piece of each layout, up to 4 sources of every kind | 21 921 | what is passed is written, and read back |
| `AsyncDestructor` | 2 awaits | | *violated*: finding 1 |
| `FilterMetadataIndex` | as `AsyncImageFilter` | | *violated*: finding 2 |
| `MultiSharedId` | as `MultiVRSReader` | | *violated*: finding 3 |
| `AudioSecondAccess` | as `PyBuffer` | | *violated*: finding 4 |

Properties, by what they rule out:

* `NeverSideBySide`, `ReaderOutlivesWorker`, `NoGilBlockAfterStop`: the worker
  using Python objects, the file or the queue at the same time as the Python
  thread or after the destructor. `NeverSideBySide` includes the one place where
  the worker handles Python objects without the GIL, the job it destroys as it
  leaves (section 5): that is no race, because the destructor keeps the GIL while
  it joins. A destructor that gives the GIL up for the join, the obvious remedy for
  finding 1, violates it (`DropReaderReleasingGil`). The last property also says that the test of the
  stop flag under the GIL (`AsyncVRSReader.cpp:60`) can never see it set.
* `PendingIsCarried`, `SettledOnce`, `DeliveredInOrder`, `AwaitSettlesOrDies`: an
  await dropped on the way, a cancelled future that is settled, a record other than
  the one asked for (another task's, or the one at a position somebody else moved),
  overtaking, an await that hangs.
* `FileInOrder`, `NothingLost`, `BacklogWaitsForImages`, `ClosedIsComplete`: a
  flush that overtakes an image still out, a record lost or written twice, a
  backlog that keeps the file from closing, a file closed too early
  (`ClosedIsComplete` is an action property, about the step that closes it).
* `ExactBlocks`, `DecodedUnderItsConfig`, `NextRecordIsNext`: blocks of the
  configuration read on a record's behalf or of an earlier record, a
  configuration of another part of the file, a record skipped over streams that
  are not enabled or after a failed read. `ImplementsRecordSource` has all a
  caller may rely on in one formula: no call moves the cursor out of the index,
  or leaves it elsewhere than behind the record delivered.
* `InfosForetellReads`, `AnswersAgree`: infos, counts and sizes that number or
  count other records than those a search or a read finds. Over several files
  `NextRecordIsNext` says both that nothing is skipped and that the infos foretell
  the read.
* `OptionsAreCurrent`: an image normalised with the options of a configuration
  that is no longer in force, after any mixture of reads, failures, seeks and
  conversions switched on and off.
* `IterationComplete`: a record seen twice, skipped or out of order in an
  iteration while others run through the same reader, are cancelled, or leave
  reads behind. The bound on `_index` in `TypeOK` says by how much tasks that
  share an object can run past its end.
* `FilterIsExact`, `NavigationIsExact`, `IndexByTimeIsRecord`: off by one at the
  bounds of a filter, at either end of a search, in the bisection.
* `EveryPieceIsFound`: a value of the metadata overwritten under a shared key.
* `FileInTimestampOrder`, `ConfigIsInFront`, `FlushReturns`: a batch below an
  earlier one, a data record written while its earlier configuration is still
  in memory, a flush waiting for a queue nobody empties.
* `WhatIsPassedIsWritten`, `RoundTrip`: the layout of another stream or type with
  the same name accepted for the format's own, a block of the record out of
  place when it is read back.
* `ArraysAreValid`, `SamplesAreRecorded`, `ArraysKeepTheirBytes`,
  `WrittenBackIsShown`: an array over freed memory or past
  its end, elements of the wrong width, samples widened or swapped twice, an
  earlier array changed by a later access, padding written back as pixels.

### Bounds, and why they are enough

* Awaits (`Tasks`): the worker holds one job, so three reach a queue with two
  behind it, a scheduled result, and a cancelled one in between.
* The filter's file has every kind of neighbour: image after image, a layout or
  a copied record between images, equal timestamps across streams, pre-roll,
  an unreadable record. `MaxCreates = 1`: one `create_output_file` per filter.
* The reader's file has a configuration change in one stream, records of both
  streams under each, a record with two images, and audio. `MaxLeftovers` stops
  reads once a failed read left more than one datalayout behind. Reads are of
  `ReadTypes` only, and with `EnableLate = FALSE` a stream is enabled before
  data is read from it; section 5 says what happens otherwise.
* The two files share one id and have one stream of their own each beside it; the
  unshared stream changes its configuration, and that configuration may fail.
* Two tasks and two further objects are enough for two iterations over one
  object, over two, over a slice of a filtered reader, and a read between. The
  index has equal timestamps, a stream with no state record, and records at the
  file's first and last timestamp. Queries are asked one after each change of
  the objects: no answer depends on an earlier one.
* The metadata's layouts have labels shared by up to three pieces, in several
  orders, and a label that reads like a key.
* The buffers have padded and unpadded rows, one and several channels, every
  class of pixel format, samples of 8 to 32 bits of either byte order, and three
  accesses: the second may find what the first changed, the third what the
  second did.
* Two timestamps and three records give records before, at and after a flush.
  `MaxQueue = 1` is a limit that is reached.
* Two streams of one name or of two, with and without a flavor; formats with one
  layout and two, with an open content block and two sized ones (`two_blocks`, of
  `OtherStreams`); an array that fits its piece and one that does not; one source
  more than is allowed.

Deadlock is checked for `RecordFormats` only. In each other model the program may
stop calling at any point, which the cfg says. The one deadlock the code has is
a liveness violation, finding 1.

### Fairness

* `AsyncReadHandler`: the OS runs both threads (WF on the worker, on `Join` and
  `FreeReader`, on `PyRelease`); CPython's GIL makes its holder give it up to a
  waiting thread at the switch interval (SF on the acquisitions); the running
  loop gets to its ready callbacks (SF). Nothing the program decides is fair.
* `VRSWriter`: the library's thread writes what it is given, and a method that
  was called is run on (WF). No record need be created, no flush called.
* The other models are driven by the program, which owes nobody a next call:
  they have no liveness property.

## 4. The findings

1. The destructor joins the worker under the GIL; a worker waiting for the GIL
   never ends, nor does the destructor (`AsyncVRSReader.cpp:51`). A cancelled
   await, or a reader dropped right after its last record, is enough.
2. Metadata is stored by the index in the input file and looked up by the
   filter's index (`OssPyImageFilter.cpp:85`): they agree only when the selection
   starts at the first record and has no gap.
3. The reader over several files finds and remembers configuration records by
   the id a stream has in its file (`MultiVRSReader.cpp:899`). With two files from
   one kind of device the ids clash: the configuration read for a data record is
   the other file's, and the record is decoded under none or an earlier one.
4. The first access to 24-bit audio replaces the block's bytes by 32-bit samples
   and leaves its spec alone; at the second the size no longer fits
   (`PyBuffer.cpp:295`) and plain bytes are returned where samples were before.

## 5. Other things seen while modelling

The passing runs exclude these, by a constant or in the statement of the
property; changing the constant shows most of them.

*The asynchronous reader and the filter*

* A read that throws in the worker (unreadable record, reader or loop closed) is
  not caught: `std::terminate` instead of an exception at the await
  (`AsyncVRSReader.cpp:61`; `AsyncVRSReader.h:135` promises "the same data as calling
  readRecord"). `AwaitSettlesOrDies` allows it.
* A worker that sees the stop flag between popping a job and taking the GIL
  (`AsyncVRSReader.cpp:58`) leaves with the job in hand, and destroys the job's
  Python objects without the GIL; line 63 says the GIL is needed for that. In the
  model: `Leave` with `job # None`. What saves it is that the thread that set the
  flag holds the GIL and waits in the join (`NeverSideBySide`).
* `get_next_image` after `close_file` is not refused (`OssPyImageFilter.cpp:28` tests
  `initialized_`, which nothing resets): images it hands out, and records it gives
  to the writer, are in no file any more, and nothing tells the program.
  `NothingLost` and `FileInOrder` cover these calls; `ClosedIsComplete` is about the
  moment of closing.
* `readRecord`'s status is ignored by `getNextImage`
  (`OssAsyncImageFilter.cpp:171`), so a closed file may lack a record without an
  error. `NothingLost` exempts `Unreadable`, and `HasImage` in `ClosedIsComplete` too.
* `createOutputFile` appends to `records_` and never clears it: with
  `MaxCreates = 2` the second output goes over the first one's records too, and
  `ClosedIsComplete` is violated.

*The readers*

* After a configuration record is read explicitly, the reader still believes
  the one it read itself to be in force (`VRSReader.cpp:850`): with
  `ReadTypes = RecordTypes`, `DecodedUnderItsConfig` is violated.
* `setBlock` drops the first of two images that are the first two blocks of a
  record (`VRSReader.cpp:296`): with such a record in `Blocks`, `ExactBlocks` is
  violated. `ReadsExactBlocks` proves that there is no other case when the cache is
  empty: its hypothesis excludes just the records whose first two blocks are of
  one kind other than layouts.
* A record read before its stream is enabled marks the configuration as read
  although no player saw it (`VRSReader.cpp:859`): with `EnableLate = TRUE`
  `DecodedUnderItsConfig` is violated.
* A configuration record of several blocks that fails after its layout is in
  force for the player, but not remembered (`VRSReader.cpp:856`): data under the
  configuration remembered is then decoded under the wrong one. With such a
  record in `Blocks` and `Broken`, `DecodedUnderItsConfig` is violated.
* A read that fails half way leaves its blocks in the cache (`VRSReader.cpp:826`);
  a next read without a configuration in between returns them in front of its
  own. `ExactBlocks` judges only reads that start from an empty cache.
* Over several files, `read_prev_record` raises IndexError where there is no such
  record (`MultiVRSReader.cpp:854`), though `base.py:389` says None; record infos
  are numbered from the first one asked for (515); sizes go by unique ids (353).

*The Python readers*

* Two asynchronous iterations over one object share its `_index`: records are
  seen twice or skipped, and the one that looks last raises IndexError.
* A filtered reader's `read_next_record`, `read_prev_record` and
  `read_record_by_time` search the whole file (`filter.py:402`, 423, 383): the record
  need not pass the filter. Their index is one of the filtered reader, though the
  docstring calls it "the absolute index in the file"; an index outside gives
  None in one and an IndexError in the other.
* A filtered reader's `get_record_index_by_time` gives the index of a neighbour
  when the record found does not pass the filter (the TODO at `filter.py:356`).
* A tolerance of 0 is taken for none (`reader.py`, `if epsilon`).
* The Python layer calls methods the bindings do not have, which is an
  AttributeError: the readers by serial number (`reader.py:436`, 444) in all four; in
  the asynchronous ones `read_record`, so that `read_next_record`, `read_prev_record`
  and `read_record_by_time` (`reader.py:702`, 725, 748) raise, and
  `get_estimated_frame_rate`, which those over several files lack too, next to
  `get_stream_for_flavor`. The model asks such queries of synchronous readers only.
* A layout with a label `a<t>` next to two pieces labelled `a` may raise KeyError
  (`utils.py:129`), or give one of them a key with more brackets.

*The writer*

* When creating the file fails the writer believes it was created: a later
  flush does not try again, raises nothing, and nothing is written
  (`writer.py:118`).
* The writer's check is against the last flush only, not against the last record
  of the stream, which `docs/source/modules/writer.rst:289` names as an error too.
* With two elements in `Threads`, `FileInTimestampOrder` is violated: a flush of one
  thread fits between the check and the creation of a record of the other.
* A configuration with a later timestamp than its data is behind it in the file
  (`writer.py:224`): no check relates the two. `ConfigIsInFront` is about the others.
* Sources that are neither layouts nor arrays, a list or a bytes object, are left
  out without an error (`writer.py:180`).
* Arrays are taken as so many bytes from their first, whatever their strides
  (`PyRecordable.cpp:189`, `PyBuffer.cpp:177`), and their length is not compared with
  the content block's: `WhatIsPassedIsWritten` and `RoundTrip` are about contiguous
  arrays, and arrays that fit.

*The buffers*

* The swap of big-endian audio takes a frame for a word, and its pointer is both
  moved and indexed (`PyBuffer.cpp:400`): stereo samples change places, words past
  the buffer are touched. `SamplesAreRecorded` is about what is `Swappable`.
* An ImageBuffer of RGB_IR_RAW_4X4 has items of size 0 (`PyBuffer.cpp:519`); the array
  of a block treats the format apart, `ArraysAreValid` exempts the buffer.

## 6. The proofs

Every leaf is checked by tlapm; no step is left open. Assumptions are the named
`ASSUME`s of the modules (`HandlerAssumption`, `FilterAssumption`,
`WriterAssumption`, `RecordIndexAssumption`, `ReaderAssumption`,
`MultiReaderAssumption`, `PyReadersAssumption`, `PyBufferAssumption`,
`PixelInfoAssumption`, `StreamsAssumption`, `RecordFormatsAssumption`), which TLC evaluates on every run, and those stated in a
theorem.

* **AsyncReadHandlerProofs**, for any sets of awaits and records. `TypeCorrect`,
  `WorkerNeverSideBySide`, `ReaderIsLast` and `StopKeepsOut` follow from
  `Inv == TypeOK /\ StopInv /\ WorkerInv /\ GilInv`. The properties alone are not
  inductive: that the worker never re-enters its GIL block after a stop needs
  `StopInv` (from the moment the flag is set until the join has returned the
  Python thread has the GIL), and that the reader is freed last needs that the
  thread leaves its function only on a stop, with no job (`WorkerInv`).
  `NoAwaitForgotten` (`PendingIsCarried`) follows a job from queue to worker to
  loop, one lemma for each process's steps. Where the worker would drop a job on
  a stop, `StopInv` says that nothing is awaited. `FuturesSettleOnce` (`SettledOnce`)
  and `ResultsInOrder` (`DeliveredInOrder`) are action properties. The first needs
  `JobsInv` beside `Inv`: every job under way, in the queue, in hand or scheduled, has
  the record its task asked for (`OwnJobs`); and `WorkerInv` says that while the worker
  reads, the reader's position is that of its job. The Python thread moves the position too, but not
  while the worker has the GIL. The worker touches no future, and the loop's
  callback settles only a pending one.
  The scheduled results, the job in hand and the queue, one after the other, are a
  pipeline: a job moves from one part to the next without changing it, unless the
  worker drops it, which it does on a stop only.
* **AsyncImageFilterProofs**. `TypeCorrect` holds for any file, selection and
  number of creations. `OutputInOrder` and `BacklogNeverStuck` assume
  `MaxCreates = 1` and rest on `OnceInv`: `PlaceInv` (the filter goes over
  `Selected`; what is pending is behind the cursor), `BacklogWaitsForImages`, and
  `OrderInv`, which strengthens `FileInOrder` by what has yet to be created: all
  that is in the file is at most as late as anything pending and anything not yet
  read, and all that was given to the writer is at most as late as anything not
  yet read, for `closeFile` puts it in the file while the filter may still read
  on. `EveryRecordAccountedFor`
  (`NothingLost`) and `ClosedFileComplete` (`ClosedIsComplete`) add `CompleteInv`: each
  selected record is not read yet, out, back, discarded, passed over, or written
  exactly once (`CountInv`), and none is passed over while a file is open
  (`OpenInv`), so that the step that closes it leaves nothing out.
* **VRSWriterProofs**. `TypeCorrect` holds for any threads. `FileInOrder` is for a
  single thread and rests on `OrderInv`: while the file is open (`OpenInv`) all
  output is at or below the last flush and below whatever is in memory, and a
  record or flush that passed its check is still at or above the last flush.
  That last part is what a second thread breaks. `ConfigInFront`
  (`ConfigIsInFront`) adds `IdInv`, records are numbered as they are created, and
  `FrontInv`: a data record that is in the file leaves no configuration that was
  created before it and is not later in memory, and those in the file are not
  behind it. A flush takes all records up to its timestamp, which is what keeps
  `FrontInv`; a flush of a single timestamp would not.

  The module also has the theorems about RecordFormats, for any streams, formats,
  values and arrays. `PassedIsWritten` (`WhatIsPassedIsWritten`): what passed
  `LayoutsMatch` is the list of the format's own layouts (`PassedLayouts`), and a
  contiguous array's elements are its bytes (`ContiguousChunk`), so that
  `getDataSource`, which is never shown the sources, makes the record of what they
  are. It is inductive as it stands. `ReadBackIsPassed` (`RoundTrip`) rests on it and
  on `MadeInv`, every stream made is one of the factory's: chunks put one after the
  other are found again by adding up their lengths (`FlattenedAreCutOut`), and the
  sizes of the content blocks add up to the same places (`CutBySizesCuts`). It
  assumes `OtherLeftIsLast`, that no registered format has a content block of
  unknown size in front of another block: where the next one begins is then
  written nowhere. The formats of this repository are shown to be so
  (`FactoryFormats`), the hypothesis is about those an application adds.

* **RecordIndexProofs**: what a search of the index finds, for any index. A set of
  records has a first and a last one, so that the searches of both readers stop
  where they should and `gotoTime` stays in the file. `ListedFirst`: whichever way
  `getEnabledStreamsRecordsInfo` makes its list, of all records or of those of the
  enabled streams, the first one listed from a position on is the first record
  of an enabled stream, and `NextIndexIsFirst` says the same of `getNextIndex`.
  `ReadBlocksExact`: read into an empty cache, the first blocks of a record are in
  the lists, each once, in order, and alone. By induction over the blocks, with
  `ListOK`: a list never has as many blocks as the record has in front of the next
  one, so that `setBlock` does not take its own blocks for leftovers. The first two
  blocks must be of two kinds (`FirstTwoDiffer`), or layouts, which do not go
  through `setBlock`: a list of one block is then as long as the index of the next
  one (section 5).
* **VRSReaderProofs**. `TypeCorrect`, `ReadsOn` (`NextRecordIsNext`) and `InfosForetell`
  (`InfosForetellReads`) hold for any file, streams, limits and failures; the last
  two assume that None is not a record. Both come down to `skipIgnoredRecords`
  stopping where the lists do. `ReadsExactBlocks` (`ExactBlocks`) assumes of the
  file that its records are `FirstTwoDiffer`, whatever fails or failed, and comes from `ReadBlocksExact` and
  from `clear` after a configuration read on the record's behalf.
  `DecodesUnderItsConfig` and `IsRecordSource` assume `Disciplined`: streams are enabled
  before they are read, configuration records are read automatically only, and
  are one layout. They rest on `RememberedInForce`: the configuration the reader
  remembers (`lastReadConfig`) is the one the player of an enabled stream has in
  force. Neither half of the reader knows this of the other; each clause of
  `Disciplined` is there because without it one of the two memories changes alone
  (section 5), and then "it is the one I read last" is the wrong reason not to
  read it again. For `IsRecordSource` every step is mapped to `Deliver`,
  `DeliverNothing` or a stutter.
* **MultiVRSReaderProofs**. `TypeCorrect` and `OptionsCurrent` (`OptionsAreCurrent`) are
  one induction, for any files, ids shared or not: the state of the players is
  passed through capture and conversion as a record, and `PlayType` shows that each
  keeps the options current. `ReadsOn` is as above, the record infos
  included. `IsRecordSource` has `RememberedInForce` for `Unshared` streams only, the part of it that finding 3
  leaves: for these `lastReadConfig` has an entry no other stream writes.
  `ReadsExactBlocks` is as in VRSReaderProofs.
* **PyReadersProofs**, for any index, tasks, filters and slices, and every kind of
  reader. `TypeCorrect` has the bound on `_index`, which rests on `MoversInv`: the
  tasks that looked at `_index` and will still move it are counted with it.
  `IterationsComplete` (`IterationComplete`) rests on `QueueInv`, a task has at most one
  read in the queue and none while it runs, and on `IterInv`: an iteration that
  has its object to itself finds `_index` where it left it, equal to the number of
  records it got, and the read it awaits is of the next one. `FiltersExact`
  (`FilterIsExact`): a filtered reader lists what passes its filter, in order
  (`FilteredInv`), although the scan stops at the first record behind the range.
  `NavigationExact`, `IndexByTimeExact` and `AnswersConsistent` are about the last
  answer: `AnswerInv` keeps where it came from, the lemmas about the searches say
  what that is, and the bisection of an increasing list gives a record's place.
  `EveryPieceFound` (`EveryPieceIsFound`) has the loop over the pieces as a sequence
  of states with the invariant `Keyed`: the keys so far lead to the pieces so far,
  one each, and a key is either the label of its piece, whose type is then kept in
  `removed`, or was made for an ambiguous label. So a KeyError needs a label that
  reads like a key (`TakePieceOK`). A key that is not taken always exists, for the candidates are one more than the keys
  (`UniqueKey`, by the pigeonhole principle), and they all differ (`KeysDiffer`).
* **PyBufferProofs**, for any content, sizes, layout and conversion that are in
  the named assumptions. `ArraysStayValid` (`ArraysAreValid`): offsets in one to three
  dimensions end inside a memory that holds the rows (`ArraysInv`; the arithmetic
  is in lemmas of its own). `ArraysKeepWhatTheyShow` (`ArraysKeepTheirBytes`) is an
  action property from `KeepInv`: once there is an array, nothing is left to
  adjust. `SamplesStayRecorded` (`SamplesAreRecorded`) rests on `AudioInv`, the bytes are
  those read or those of a single adjustment, and on what widening and swapping
  make of each byte of a sample. `WrittenBackStaysShown` (`WrittenBackIsShown`) is an
  action property from `ImageOK`: an array of an image presents it by its spec,
  then all its bytes are there, or is a flat one. `initBytesFromPyBuffer` compares
  one number, the size of the array with that of the image. That this is enough
  is `NoPadding`: elements, columns and rows that fit into steps, strides and bytes,
  and are together as many as the bytes, leave no room for padding or for another
  plane; then an element is where its number says (`DenseShown`).

All safety and action properties of the passing runs are proved. Only
model-checked is liveness (`AwaitSettlesOrDies`, `FlushReturns`), which the provers
cannot reach.

Induction: the library's theorems of induction take an operator as a parameter,
which no installed prover can instantiate. The proofs go by sets instead: a set
of numbers that has 0 and with each number the next one has all up to a bound,
for the least one it lacks (`HasLeast`, from well-foundedness) would have a
predecessor in it (`Induction`). The definitions by recursion over the blocks of a
record, the sources, the sizes or the pieces are functions on an interval of
numbers, and `Recursion` shows that there is such a function, from which
`ReadBlocksReads`, `OfType`, `CutBySizesCuts` and `Stringified` unfold them.

## 7. Not modelled

* Pixel values, compression presets, encodings of strings, wording and string
  representations: no state depends on them. Of the image codecs only that they
  may fail, and the shape of what they give.
* The bindings, the factory helper and the utilities (`PyUtils`, `PyFileSpec`,
  exceptions): tables and conversions without a life of their own.
* The types of the pieces' elements and their conversions: the wrappers are
  modelled by kind, and what the kind refuses.
* Tags and the catalogue of streams: constant once a file is open.
* A second `open` on the same reader: it depends on what the library keeps of the
  players. The frames of a video stream the library reads again after a jump
  (`VRSReader.cpp:289`): when it does so is not visible in this repository.
* The lifetime of an `AwaitableRecord` that outlives its reader
  (`AsyncVRSReader.h:95`): undefined behaviour, to be modelled with reference
  counts.
* The build files, tests and docs, which are read as statements about the code.

## 8. Plan

Done, in this order: the asynchronous reader, the image filter, the reader, the
writer and first proofs; then the index queries, the reader over several files,
the abstract record source, the Python readers, the record formats and the
buffers; then the proofs about both readers and their refinement of the record
source; then those about the handler's futures, the filter's completeness, the
Python readers, the buffers, the record infos and the record formats.

The last proofs are those about block lists, records read back, keys of metadata
and arrays written back, for all of which the models' recursions had to be
written so that they can be unfolded.

Left, in this order:

1. An *ordered output* implemented by VRSWriter and AsyncImageFilter.
2. Reference counts for awaitables, handlers and readers.
