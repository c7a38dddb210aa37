-------------------------- MODULE AsyncReadHandler --------------------------
(***************************************************************************)
(* The background reading thread of AsyncReader and AsyncMultiReader       *)
(* (csrc/reader/AsyncVRSReader.cpp).                                       *)
(*                                                                         *)
(* Two threads share the Python GIL: the Python thread, which runs the     *)
(* asyncio event loop, awaits records and finally destroys the reader, and *)
(* the worker thread of the AsyncReadHandler, which pops jobs from the     *)
(* queue, reads the record under the GIL and hands the result to the loop  *)
(* with call_soon_threadsafe.                                              *)
(*                                                                         *)
(* A task awaits one record.  Its job carries the future, which belongs to *)
(* that task alone, and the index captured by the AwaitableRecord.  The    *)
(* worker puts that index into the reader's nextRecordIndex_, which it     *)
(* shares with the Python thread, and reads the record it then finds       *)
(* there.                                                                  *)
(***************************************************************************)
EXTENDS Naturals, Sequences

CONSTANTS
  Tasks,        \* the awaits made over the reader's life: bounds the run
  RecordCount,  \* number of records of the file
  BadRecords,   \* the records whose read may throw (I/O or decoding error)
  None          \* no job, no record

(* The record indices asyncReadRecord accepts. *)
Records == 0..(RecordCount - 1)

ASSUME HandlerAssumption ==
  /\ RecordCount \in Nat
  /\ BadRecords \subseteq Records
  /\ None \notin Tasks
  /\ None \notin Records

VARIABLES
  gil,         \* the holder of the GIL: "free", "py" or "worker"
  reader,      \* life of the C++ reader: "live", "joining", "closing", "freed"
  fileOpen,    \* the reader's file is open
  loopOpen,    \* the asyncio event loop is not closed
  alive,       \* the process; FALSE once std::terminate was called
  shouldEnd,   \* shouldEndAsyncThread_
  queue,       \* workerQueue_: a sequence of jobs
  workerPc,    \* where the worker is in asyncThreadActivity
  job,         \* the worker's local unique_ptr<AsyncJob>
  cursor,      \* the reader's nextRecordIndex_, which both threads move
  ready,       \* set_result callbacks scheduled on the loop, in order, each
               \* with its task's future and the record that was read
  future,      \* each task's future
  request,     \* the record index each task awaits
  result       \* the record its future was given

vars == <<gil, reader, fileOpen, loopOpen, alive, shouldEnd, queue, workerPc,
          job, cursor, ready, future, request, result>>

pyVars == <<reader, fileOpen, loopOpen, future, request, result>>
workerVars == <<workerPc, job, cursor>>

(* A job: the future of a task, and the record to read, or read, for it.   *)
Jobs == [task : Tasks, record : Records]

(* Where the worker holds the GIL, and where it waits for it. *)
HoldsGil == {"recheck", "read", "notify", "reset"}
WantsGil == {"acquire", "reacquire"}
WorkerPcs == {"loop", "wait", "check", "leave", "exited"} \cup HoldsGil \cup WantsGil

TypeOK ==
  /\ gil \in {"free", "py", "worker"}
  /\ reader \in {"live", "joining", "closing", "freed"}
  /\ fileOpen \in BOOLEAN /\ loopOpen \in BOOLEAN
  /\ alive \in BOOLEAN /\ shouldEnd \in BOOLEAN
  /\ queue \in Seq(Jobs) /\ ready \in Seq(Jobs)
  /\ workerPc \in WorkerPcs
  /\ job \in Jobs \cup {None}
  /\ cursor \in 0..RecordCount
  /\ future \in [Tasks -> {"none", "pending", "done", "cancelled"}]
  /\ request \in [Tasks -> Records \cup {None}]
  /\ result \in [Tasks -> Records \cup {None}]

(* AsyncReadHandler's constructor starts the thread on an open reader.     *)
Init ==
  /\ gil = "py" /\ reader = "live"
  /\ fileOpen = TRUE /\ loopOpen = TRUE /\ alive = TRUE
  /\ shouldEnd = FALSE /\ queue = <<>>
  /\ workerPc = "loop" /\ job = None /\ cursor = 0
  /\ ready = <<>>
  /\ future = [t \in Tasks |-> "none"]
  /\ request = [t \in Tasks |-> None]
  /\ result = [t \in Tasks |-> None]

-----------------------------------------------------------------------------
(* The Python thread.                                                      *)

(* It runs Python code: it holds the GIL and is not inside the destructor. *)
PyRuns == alive /\ gil = "py" /\ reader \in {"live", "freed"}

NoneAwaiting == \A t \in Tasks : future[t] # "pending"

(* The interpreter gives the GIL up while it blocks in select() and at its *)
(* switch interval, and takes it again.                                    *)
PyAcquire ==
  /\ alive /\ gil = "free"
  /\ gil' = "py"
  /\ UNCHANGED <<pyVars, workerVars, alive, shouldEnd, queue, ready>>

PyRelease ==
  /\ PyRuns
  /\ gil' = "free"
  /\ UNCHANGED <<pyVars, workerVars, alive, shouldEnd, queue, ready>>

(* `await reader.async_read_record(i)`: asyncReadRecord has checked the    *)
(* index against the file's, AwaitableRecord::await captures the running   *)
(* loop, creates the future and sends the job.                             *)
Await(t, i) ==
  /\ PyRuns /\ reader = "live" /\ loopOpen /\ fileOpen
  /\ future[t] = "none"
  /\ future' = [future EXCEPT ![t] = "pending"]
  /\ request' = [request EXCEPT ![t] = i]
  /\ queue' = Append(queue, [task |-> t, record |-> i])
  /\ UNCHANGED <<gil, reader, fileOpen, loopOpen, alive, shouldEnd, workerVars,
                 ready, result>>

(* `async_read_record(stream, type, i)` of a record the stream has not got *)
(* raises, and leaves the reader's position at the end of the file.        *)
AwaitRefused ==
  /\ PyRuns /\ reader = "live" /\ fileOpen
  /\ cursor' = RecordCount
  /\ UNCHANGED <<gil, pyVars, alive, shouldEnd, queue, workerPc, job, ready>>

(* A timeout or a cancelled task cancels the future; nobody tells the job. *)
Cancel(t) ==
  /\ PyRuns
  /\ future[t] = "pending"
  /\ future' = [future EXCEPT ![t] = "cancelled"]
  /\ UNCHANGED <<gil, reader, fileOpen, loopOpen, alive, shouldEnd, queue,
                 workerVars, ready, request, result>>

(* The loop runs the next scheduled future.set_result(record).  On a       *)
(* cancelled future it raises InvalidStateError, which the loop reports.   *)
RunCallback ==
  /\ PyRuns /\ loopOpen /\ ready # <<>>
  /\ ready' = Tail(ready)
  /\ LET t == Head(ready).task IN
       \/ /\ future[t] = "pending"
          /\ future' = [future EXCEPT ![t] = "done"]
          /\ result' = [result EXCEPT ![t] = Head(ready).record]
       \/ /\ future[t] # "pending"
          /\ UNCHANGED <<future, result>>
  /\ UNCHANGED <<gil, reader, fileOpen, loopOpen, alive, shouldEnd, queue,
                 workerVars, request>>

(* asyncio.run closes its loop once its tasks are done or cancelled, and   *)
(* drops what was still scheduled.                                         *)
CloseLoop ==
  /\ PyRuns /\ loopOpen /\ NoneAwaiting
  /\ loopOpen' = FALSE
  /\ ready' = <<>>
  /\ UNCHANGED <<gil, reader, fileOpen, alive, shouldEnd, queue, workerVars,
                 future, request, result>>

(* VRSReader.close(), also called by __exit__.                             *)
CloseReader ==
  /\ PyRuns /\ reader = "live" /\ fileOpen
  /\ fileOpen' = FALSE
  /\ UNCHANGED <<gil, reader, loopOpen, alive, shouldEnd, queue, workerVars,
                 ready, future, request, result>>

(* A destructor that gives the GIL up before it joins the worker.          *)
DropReaderReleasingGil ==
  /\ PyRuns /\ reader = "live" /\ NoneAwaiting
  /\ shouldEnd' = TRUE
  /\ reader' = "joining"
  /\ gil' = "free"
  /\ UNCHANGED <<fileOpen, loopOpen, alive, queue, workerVars, ready, future,
                 request, result>>

(* A reader that an awaiting coroutine does not keep alive. *)
DropReaderWhileAwaited ==
  /\ PyRuns /\ reader = "live"
  /\ shouldEnd' = TRUE
  /\ reader' = "joining"
  /\ UNCHANGED <<gil, fileOpen, loopOpen, alive, queue, workerVars, ready,
                 future, request, result>>

(* The last Python reference goes away: ~OssAsyncVRSReader runs under the  *)
(* GIL and calls AsyncReadHandler::cleanup.  The frame of a coroutine that *)
(* awaits a record holds the reader, so nothing is awaited any more; jobs  *)
(* of cancelled awaits, and a worker that has just scheduled the last      *)
(* result, may well be left.                                               *)
DropReader ==
  /\ PyRuns /\ reader = "live" /\ NoneAwaiting
  /\ shouldEnd' = TRUE
  /\ reader' = "joining"
  /\ UNCHANGED <<gil, fileOpen, loopOpen, alive, queue, workerVars, ready,
                 future, request, result>>

(* A cleanup that does not wait for the thread. *)
JoinNothing ==
  /\ alive /\ reader = "joining"
  /\ reader' = "closing"
  /\ UNCHANGED <<gil, fileOpen, loopOpen, alive, shouldEnd, queue, workerVars,
                 ready, future, request, result>>

(* asyncThread_.join() returns. *)
Join ==
  /\ alive /\ reader = "joining" /\ workerPc = "exited"
  /\ reader' = "closing"
  /\ UNCHANGED <<gil, fileOpen, loopOpen, alive, shouldEnd, queue, workerVars,
                 ready, future, request, result>>

(* reader_.closeFile(), then the members: the queue drops its jobs.        *)
FreeReader ==
  /\ alive /\ reader = "closing"
  /\ reader' = "freed"
  /\ fileOpen' = FALSE
  /\ queue' = <<>>
  /\ UNCHANGED <<gil, loopOpen, alive, shouldEnd, workerVars, ready, future,
                 request, result>>

-----------------------------------------------------------------------------
(* The worker: AsyncReadHandler::asyncThreadActivity.                      *)

(* A worker step that touches only its own locals. *)
WorkerKeeps == UNCHANGED <<pyVars, cursor, alive, shouldEnd>>

(* while (!shouldEndAsyncThread_)                                          *)
LoopTest ==
  /\ alive /\ workerPc = "loop"
  /\ workerPc' = IF shouldEnd THEN "leave" ELSE "wait"
  /\ UNCHANGED <<gil, queue, ready, job>> /\ WorkerKeeps

(* Leaving the function destroys the local job, which may still hold one:  *)
(* its loop and its future are released here, without the GIL.             *)
Leave ==
  /\ alive /\ workerPc = "leave"
  /\ job' = None
  /\ workerPc' = "exited"
  /\ UNCHANGED <<gil, queue, ready>> /\ WorkerKeeps

(* A queue served from the wrong end. *)
WaitForJobLast ==
  /\ alive /\ workerPc = "wait" /\ queue # <<>>
  /\ job' = queue[Len(queue)]
  /\ queue' = SubSeq(queue, 1, Len(queue) - 1)
  /\ workerPc' = "check"
  /\ UNCHANGED <<gil, ready>> /\ WorkerKeeps

(* waitForJob(job, 1) finds a job within the second it waits.              *)
WaitForJob ==
  /\ alive /\ workerPc = "wait" /\ queue # <<>>
  /\ job' = Head(queue)
  /\ queue' = Tail(queue)
  /\ workerPc' = "check"
  /\ UNCHANGED <<gil, ready>> /\ WorkerKeeps

(* waitForJob(job, 1) times out.                                           *)
WaitTimeout ==
  /\ alive /\ workerPc = "wait" /\ queue = <<>>
  /\ workerPc' = "loop"
  /\ UNCHANGED <<gil, queue, ready, job>> /\ WorkerKeeps

(* ... && !shouldEndAsyncThread_: a stop seen here goes back to the loop   *)
(* test with the job still in hand.                                        *)
Check ==
  /\ alive /\ workerPc = "check"
  /\ workerPc' = IF shouldEnd THEN "loop" ELSE "acquire"
  /\ UNCHANGED <<gil, queue, ready, job>> /\ WorkerKeeps

(* A worker that forgets py::gil_scoped_acquire. *)
AcquireNothing ==
  /\ alive /\ workerPc = "acquire"
  /\ workerPc' = "recheck"
  /\ UNCHANGED <<gil, queue, ready, job>> /\ WorkerKeeps

(* py::gil_scoped_acquire *)
AcquireGil ==
  /\ alive /\ workerPc = "acquire" /\ gil = "free"
  /\ gil' = "worker"
  /\ workerPc' = "recheck"
  /\ UNCHANGED <<queue, ready, job>> /\ WorkerKeeps

(* A read that goes on from where the reader is: readNextRecord. *)
StartReadOnward ==
  /\ alive /\ workerPc = "recheck"
  /\ workerPc' = IF shouldEnd THEN "reset" ELSE "read"
  /\ UNCHANGED <<pyVars, gil, alive, shouldEnd, queue, ready, job, cursor>>

(* Under the GIL: if (!shouldEndAsyncThread_) job->performJob(reader_).    *)
(* readRecord first puts the job's index into nextRecordIndex_.            *)
StartRead ==
  /\ alive /\ workerPc = "recheck"
  /\ IF shouldEnd
       THEN workerPc' = "reset" /\ UNCHANGED cursor
       ELSE workerPc' = "read" /\ cursor' = job.record
  /\ UNCHANGED <<pyVars, gil, alive, shouldEnd, queue, ready, job>>

(* performJob throws: there is no record at nextRecordIndex_, the reader   *)
(* was closed, or call_soon_threadsafe finds the loop closed.              *)
PerformFails == cursor = RecordCount \/ ~fileOpen \/ ~loopOpen

(* A job reset before its result is handed over: a use after reset. *)
PerformResetJob ==
  /\ alive /\ workerPc = "read" /\ ~PerformFails
  /\ job' = None
  /\ ready' = Append(ready, job')
  /\ workerPc' = "notify"
  /\ UNCHANGED <<pyVars, gil, alive, shouldEnd, queue, cursor>>

(* The record at nextRecordIndex_ is read, the position moves on, and      *)
(* set_result is scheduled for the job's future with that record; an       *)
(* exception leaves the thread function: std::terminate.                   *)
PerformJob ==
  /\ alive /\ workerPc = "read"
  /\ \/ /\ PerformFails \/ cursor \in BadRecords
        /\ alive' = FALSE
        /\ UNCHANGED <<ready, workerPc, cursor>>
     \/ /\ ~PerformFails
        /\ ready' = Append(ready, [task |-> job.task, record |-> cursor])
        /\ cursor' = cursor + 1
        /\ workerPc' = "notify"
        /\ UNCHANGED alive
  /\ UNCHANGED <<pyVars, gil, shouldEnd, queue, job>>

(* call_soon_threadsafe wakes the loop by a socket write; the interpreter  *)
(* gives up the GIL around it, or not.                                     *)
NotifyLoop ==
  /\ alive /\ workerPc = "notify"
  /\ \/ gil' = "free" /\ workerPc' = "reacquire"
     \/ gil' = gil /\ workerPc' = "reset"
  /\ UNCHANGED <<queue, ready, job>> /\ WorkerKeeps

ReacquireGil ==
  /\ alive /\ workerPc = "reacquire" /\ gil = "free"
  /\ gil' = "worker"
  /\ workerPc' = "reset"
  /\ UNCHANGED <<queue, ready, job>> /\ WorkerKeeps

(* A GIL block whose end does not release the GIL. *)
ResetJobKeepingGil ==
  /\ alive /\ workerPc = "reset"
  /\ job' = None
  /\ workerPc' = "loop"
  /\ UNCHANGED <<gil, queue, ready>> /\ WorkerKeeps

(* job.reset(), then ~gil_scoped_acquire gives the GIL back.               *)
ResetJob ==
  /\ alive /\ workerPc = "reset"
  /\ job' = None
  /\ gil' = "free"
  /\ workerPc' = "loop"
  /\ UNCHANGED <<queue, ready>> /\ WorkerKeeps

-----------------------------------------------------------------------------
WorkerStep ==
  \/ LoopTest \/ Leave \/ WaitForJob \/ WaitTimeout \/ Check \/ AcquireGil
  \/ StartRead \/ PerformJob \/ NotifyLoop \/ ReacquireGil \/ ResetJob

PyStep ==
  \/ PyAcquire \/ PyRelease
  \/ \E t \in Tasks, i \in Records : Await(t, i)
  \/ AwaitRefused
  \/ \E t \in Tasks : Cancel(t)
  \/ RunCallback \/ CloseLoop \/ CloseReader
  \/ DropReader \/ Join \/ FreeReader

Next == WorkerStep \/ PyStep

Spec == Init /\ [][Next]_vars

(* Both threads are scheduled by the OS.  CPython's GIL hands over to a    *)
(* waiting thread at the switch interval, so neither side starves (SF on   *)
(* the acquisitions), and the running loop gets to its callbacks (SF: it   *)
(* loses the GIL now and then).  No fairness on what the program's user    *)
(* decides: Await, AwaitRefused, Cancel, CloseLoop, CloseReader and        *)
(* DropReader.                                                             *)
Fairness ==
  /\ WF_vars(WorkerStep)
  /\ SF_vars(AcquireGil) /\ SF_vars(ReacquireGil)
  /\ SF_vars(PyAcquire) /\ WF_vars(PyRelease) /\ SF_vars(RunCallback)
  /\ WF_vars(Join) /\ WF_vars(FreeReader)

FairSpec == Spec /\ Fairness

-----------------------------------------------------------------------------
(* Properties.                                                             *)

(* The worker and the Python thread never touch Python objects or the      *)
(* reader at the same time.  In its GIL block (the read, the call of the   *)
(* loop, the reset of the job) the worker has the GIL.  The one thing it   *)
(* does without it is to destroy a job still in hand when it leaves; then  *)
(* the GIL is with the Python thread, and that thread is inside the join.  *)
NeverSideBySide ==
  alive =>
    /\ workerPc \in HoldsGil <=> gil = "worker"
    /\ workerPc = "leave" /\ job # None => gil = "py" /\ reader = "joining"

(* The reader outlives its worker: ~OssAsyncVRSReader closes the file and  *)
(* frees the queue only after the thread has left asyncThreadActivity.     *)
ReaderOutlivesWorker ==
  reader \in {"closing", "freed"} => workerPc = "exited" /\ job = None

(* Where the worker has a job it has popped and not yet performed. *)
Busy == {"check", "acquire", "recheck", "read"}

InHand == IF workerPc \in Busy THEN <<job>> ELSE <<>>

(* All the jobs under way, the one awaited first in front. *)
Pipeline == ready \o InHand \o queue

(* No await is forgotten: the job of a pending future is in the queue, in  *)
(* the worker's hands, or its set_result is scheduled.  (A job popped but  *)
(* dropped on shutdown can only be that of a cancelled await.)             *)
PendingIsCarried ==
  \A t \in Tasks :
    future[t] = "pending" =>
      \/ \E i \in 1..Len(queue) : queue[i].task = t
      \/ workerPc \in Busy /\ job.task = t
      \/ \E i \in 1..Len(ready) : ready[i].task = t

(* A future is settled with the record its task asked for, and only once:  *)
(* of the index captured at the await, the job that carries it through the *)
(* queue, the position the worker reads at, which a failing                *)
(* async_read_record moves too, and the callback that comes after a        *)
(* cancellation, none is mixed up with another await's.                    *)
SettledOnce ==
  [][\A t \in Tasks :
       /\ future[t] \in {"done", "cancelled"} =>
            future'[t] = future[t] /\ result'[t] = result[t]
       /\ future[t] = "pending" /\ future'[t] = "done" =>
            result'[t] = request[t]]_vars

(* Once the destructor has set shouldEndAsyncThread_ the worker is never   *)
(* inside its GIL block again: the second test of the flag, after the GIL  *)
(* is acquired, can never see TRUE, because whoever set it holds the GIL   *)
(* until the thread has been joined.                                       *)
NoGilBlockAfterStop == alive /\ shouldEnd => workerPc \notin HoldsGil

(* Results reach the loop in the order of the awaits, through the queue,   *)
(* the worker and the loop's callbacks: until the reader is dropped or the *)
(* loop closed, a step leaves the jobs under way as they are, adds one at  *)
(* the back or delivers the one in front.                                  *)
DeliveredInOrder ==
  [][reader' = "live" /\ loopOpen' =>
       \/ Pipeline' = Pipeline
       \/ Pipeline # <<>> /\ Pipeline' = Tail(Pipeline)
       \/ \E j \in Jobs : Pipeline' = Append(Pipeline, j)]_vars

(* Every awaited read settles (gets its record or is cancelled), unless    *)
(* the process is brought down by an exception that escapes the worker.    *)
AwaitSettlesOrDies ==
  \A t \in Tasks : (future[t] = "pending") ~> (future[t] # "pending" \/ ~alive)

(* Dropping the reader returns: the destructor finishes whatever the       *)
(* worker was doing when it started.                                       *)
DestructorReturns == (reader = "joining") ~> (reader = "freed" \/ ~alive)

=============================================================================
