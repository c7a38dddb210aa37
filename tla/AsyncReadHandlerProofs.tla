----------------------- MODULE AsyncReadHandlerProofs -----------------------
(***************************************************************************)
(* Theorems about AsyncReadHandler, for any number of awaits, any records  *)
(* and any set of records that cannot be read.                             *)
(***************************************************************************)
EXTENDS AsyncReadHandler, TLAPS, SequenceTheorems

(* The stop flag follows the destructor, which keeps the GIL until the     *)
(* thread was joined, and starts when nothing is awaited any more.         *)
StopInv ==
  /\ shouldEnd <=> reader # "live"
  /\ reader \in {"joining", "closing"} => gil = "py"
  /\ reader # "live" => NoneAwaiting
  /\ reader \in {"closing", "freed"} => workerPc = "exited"

(* The worker holds a job where it needs one, leaves its function only on  *)
(* a stop, and reads at the position it has set.                           *)
WorkerInv ==
  /\ workerPc \in {"leave", "exited"} => shouldEnd
  /\ workerPc = "exited" => job = None
  /\ workerPc \in Busy => job \in Jobs
  /\ workerPc = "read" => cursor = job.record

(* The worker is in its GIL block when it has the GIL, and not after a stop. *)
GilInv ==
  /\ workerPc \in HoldsGil <=> gil = "worker"
  /\ shouldEnd => workerPc \notin HoldsGil

Inv == TypeOK /\ StopInv /\ WorkerInv /\ GilInv

(* Every variable of a step that leaves the state alone. *)
LEMMA Stutter == Inv /\ UNCHANGED vars => Inv'
  BY DEF Inv, TypeOK, StopInv, WorkerInv, GilInv, vars, NoneAwaiting, WorkerPcs,
         HoldsGil, WantsGil, Busy

(* A reader just built satisfies the invariant. *)
LEMMA InitInv == Init => Inv
<1> SUFFICES ASSUME Init PROVE Inv
  OBVIOUS
<1> USE HandlerAssumption DEF Init, WorkerPcs, HoldsGil, WantsGil, Busy
<1>1. TypeOK
  <2>1. /\ future \in [Tasks -> {"none", "pending", "done", "cancelled"}]
        /\ request \in [Tasks -> Records \cup {None}]
        /\ result \in [Tasks -> Records \cup {None}]
    BY Zenon
  <2>2. queue \in Seq(Jobs) /\ ready \in Seq(Jobs) /\ cursor \in 0..RecordCount
    OBVIOUS
  <2> QED
    BY <2>1, <2>2 DEF TypeOK
<1>2. StopInv /\ WorkerInv /\ GilInv
  BY DEF StopInv, WorkerInv, GilInv
<1> QED
  BY <1>1, <1>2 DEF Inv

(* The steps of the worker keep the invariant. *)
LEMMA WorkerKeepsInv == Inv /\ WorkerStep => Inv'
<1> SUFFICES ASSUME Inv, WorkerStep PROVE Inv'
  OBVIOUS
<1> USE HandlerAssumption DEF Inv, TypeOK, StopInv, WorkerInv, GilInv, NoneAwaiting,
        WorkerPcs, HoldsGil, WantsGil, Busy, WorkerKeeps, pyVars
<1>1. CASE LoopTest
  BY <1>1 DEF LoopTest
<1>2. CASE WaitForJob
  <2>1. Head(queue) \in Jobs /\ Tail(queue) \in Seq(Jobs)
    BY <1>2 DEF WaitForJob
  <2> QED
    BY <1>2, <2>1 DEF WaitForJob
<1>3. CASE WaitTimeout
  BY <1>3 DEF WaitTimeout
<1>4. CASE Check
  BY <1>4 DEF Check
<1>5. CASE AcquireGil
  BY <1>5 DEF AcquireGil
<1>6. CASE PerformJob
  <2>1. /\ job \in Jobs /\ workerPc = "read" /\ cursor \in Records
        /\ Append(ready, [task |-> job.task, record |-> cursor]) \in Seq(Jobs)
    BY <1>6 DEF PerformJob, Jobs
  <2>2. cursor # RecordCount => cursor + 1 \in 0..RecordCount
    BY DEF Records
  <2>3. CASE UNCHANGED <<ready, workerPc, cursor>>
    BY <1>6, <2>1, <2>3 DEF PerformJob
  <2>4. CASE /\ ~PerformFails /\ cursor' = cursor + 1 /\ workerPc' = "notify"
             /\ ready' = Append(ready, [task |-> job.task, record |-> cursor])
             /\ UNCHANGED alive
    BY <1>6, <2>1, <2>2, <2>4 DEF PerformJob, PerformFails
  <2> QED
    BY <1>6, <2>3, <2>4 DEF PerformJob
<1>10. CASE StartRead
  <2>1. job \in Jobs /\ job.record \in 0..RecordCount
    BY <1>10 DEF StartRead, Jobs, Records
  <2> QED
    BY <1>10, <2>1 DEF StartRead
<1>11. CASE Leave
  BY <1>11 DEF Leave
<1>7. CASE NotifyLoop
  BY <1>7 DEF NotifyLoop
<1>8. CASE ReacquireGil
  BY <1>8 DEF ReacquireGil
<1>9. CASE ResetJob
  BY <1>9 DEF ResetJob
<1> QED
  BY <1>1, <1>2, <1>3, <1>4, <1>5, <1>6, <1>7, <1>8, <1>9, <1>10, <1>11 DEF WorkerStep

(* The steps of the Python thread keep it. *)
LEMMA PyKeepsInv == Inv /\ PyStep => Inv'
<1> SUFFICES ASSUME Inv, PyStep PROVE Inv'
  OBVIOUS
<1> USE HandlerAssumption DEF Inv, TypeOK, StopInv, WorkerInv, GilInv, NoneAwaiting,
        WorkerPcs, HoldsGil, WantsGil, Busy, workerVars, pyVars, PyRuns
<1>1. CASE PyAcquire
  BY <1>1 DEF PyAcquire
<1>2. CASE PyRelease
  BY <1>2 DEF PyRelease
<1>3. ASSUME NEW t \in Tasks, NEW i \in Records, Await(t, i) PROVE Inv'
  <2>1. /\ queue' \in Seq(Jobs)
        /\ future' \in [Tasks -> {"none", "pending", "done", "cancelled"}]
        /\ request' \in [Tasks -> Records \cup {None}]
    BY <1>3 DEF Await, Jobs
  <2> QED
    BY <1>3, <2>1 DEF Await
<1>4. ASSUME NEW t \in Tasks, Cancel(t) PROVE Inv'
  BY <1>4 DEF Cancel
<1>5. CASE RunCallback
  <2>0. Head(ready) \in Jobs /\ Tail(ready) \in Seq(Jobs)
    BY <1>5 DEF RunCallback
  <2>1. Head(ready).task \in Tasks /\ Head(ready).record \in Records
    BY <2>0 DEF Jobs
  <2>2. /\ future' \in [Tasks -> {"none", "pending", "done", "cancelled"}]
        /\ result' \in [Tasks -> Records \cup {None}]
    BY <1>5, <2>1 DEF RunCallback
  <2>3. reader = "live" \/ \A t \in Tasks : future'[t] # "pending"
    BY <1>5, <2>1 DEF RunCallback
  <2> QED
    BY <1>5, <2>0, <2>2, <2>3 DEF RunCallback
<1>6. CASE CloseLoop
  <2>1. ready' \in Seq(Jobs)
    BY <1>6 DEF CloseLoop
  <2> QED
    BY <1>6, <2>1 DEF CloseLoop
<1>7. CASE CloseReader
  BY <1>7 DEF CloseReader
<1>8. CASE DropReader
  BY <1>8 DEF DropReader
<1>9. CASE Join
  BY <1>9 DEF Join
<1>10. CASE FreeReader
  <2>1. queue' \in Seq(Jobs)
    BY <1>10 DEF FreeReader
  <2> QED
    BY <1>10, <2>1 DEF FreeReader
<1>11. CASE AwaitRefused
  BY <1>11 DEF AwaitRefused
<1> QED
  BY <1>1, <1>2, <1>3, <1>4, <1>5, <1>6, <1>7, <1>8, <1>9, <1>10, <1>11 DEF PyStep

(* The invariant holds in every state of every run. *)
THEOREM InvHolds == Spec => []Inv
<1>1. Inv /\ [Next]_vars => Inv'
  BY Stutter, WorkerKeepsInv, PyKeepsInv DEF Next
<1> QED
  BY <1>1, InitInv, PTL DEF Spec

(* Every variable keeps its type: the queue and the scheduled callbacks    *)
(* hold only awaited tasks, futures only records that can be asked for.    *)
THEOREM TypeCorrect == Spec => []TypeOK
<1>1. Inv => TypeOK
  BY DEF Inv
<1> QED
  BY <1>1, InvHolds, PTL

(* The worker and the Python thread never touch Python objects or the      *)
(* reader at the same time, however they interleave: in its block the      *)
(* worker has the GIL (AsyncVRSReader.cpp:59-64), and when it destroys a   *)
(* job as it leaves, without the GIL (line 66), the Python thread has it   *)
(* and is inside the join (line 51).                                       *)
THEOREM WorkerNeverSideBySide == Spec => []NeverSideBySide
<1>1. Inv => NeverSideBySide
  <2> SUFFICES ASSUME Inv, workerPc = "leave" PROVE gil = "py" /\ reader = "joining"
    BY DEF Inv, GilInv, NeverSideBySide
  <2>1. reader # "live" /\ reader \notin {"closing", "freed"}
    BY DEF Inv, StopInv, WorkerInv
  <2> QED
    BY <2>1 DEF Inv, TypeOK, StopInv
<1> QED
  BY <1>1, InvHolds, PTL

(* ~OssAsyncVRSReader closes the file and frees its members only after the *)
(* thread that uses them is gone.                                          *)
THEOREM ReaderIsLast == Spec => []ReaderOutlivesWorker
<1>1. Inv => ReaderOutlivesWorker
  BY DEF Inv, StopInv, WorkerInv, ReaderOutlivesWorker
<1> QED
  BY <1>1, InvHolds, PTL

(* The second test of shouldEndAsyncThread_ (AsyncVRSReader.cpp:60) never  *)
(* sees TRUE: a worker that waits for the GIL when the destructor starts   *)
(* stays outside of its GIL block.                                         *)
THEOREM StopKeepsOut == Spec => []NoGilBlockAfterStop
<1>1. Inv => NoGilBlockAfterStop
  BY DEF Inv, GilInv, NoGilBlockAfterStop
<1> QED
  BY <1>1, InvHolds, PTL

-----------------------------------------------------------------------------
(* Where the job of a task may be: the disjuncts of PendingIsCarried. *)
Carried(t) ==
  \/ \E i \in 1..Len(queue) : queue[i].task = t
  \/ workerPc \in Busy /\ job.task = t
  \/ \E i \in 1..Len(ready) : ready[i].task = t

(* The task of a job in a sequence is that of its head, or of one in its   *)
(* tail.                                                                   *)
LEMMA HeadOrTail ==
  ASSUME NEW S, NEW q \in Seq(S), NEW x, NEW i \in 1..Len(q), q[i].task = x, q # <<>>
  PROVE  x = Head(q).task \/ \E j \in 1..Len(Tail(q)) : Tail(q)[j].task = x
<1>1. CASE i = 1
  BY <1>1
<1>2. CASE i # 1
  <2>1. i - 1 \in 1..Len(Tail(q)) /\ Tail(q)[i - 1] = q[i]
    BY <1>2
  <2> QED
    BY <2>1
<1> QED
  BY <1>1, <1>2

(* The tasks of the jobs in a sequence stay when a job is appended, and    *)
(* its own comes in.                                                       *)
LEMMA InAppend ==
  ASSUME NEW S, NEW q \in Seq(S), NEW e \in S, NEW x,
         x = e.task \/ \E i \in 1..Len(q) : q[i].task = x
  PROVE  \E i \in 1..Len(Append(q, e)) : Append(q, e)[i].task = x
<1>1. CASE x = e.task
  <2>1. /\ Len(q) + 1 \in 1..Len(Append(q, e))
        /\ Append(q, e)[Len(q) + 1] = e
    OBVIOUS
  <2> QED
    BY <1>1, <2>1
<1>2. CASE \E i \in 1..Len(q) : q[i].task = x
  <2>1. PICK i \in 1..Len(q) : q[i].task = x
    BY <1>2
  <2>2. i \in 1..Len(Append(q, e)) /\ Append(q, e)[i] = q[i]
    OBVIOUS
  <2> QED
    BY <2>1, <2>2
<1> QED
  BY <1>1, <1>2

(* A job moves from the queue to the worker's hands to the loop's          *)
(* callbacks; only a stop, when nothing is awaited, drops it.              *)
LEMMA WorkerKeepsCarried ==
  ASSUME Inv, WorkerStep, NEW t \in Tasks, future[t] = "pending", Carried(t)
  PROVE  Carried(t)'
<1>0. ~shouldEnd
  BY DEF Inv, StopInv, NoneAwaiting
<1> USE DEF Busy
<1>1. CASE LoopTest
  BY <1>0, <1>1 DEF LoopTest, Carried
<1>2. CASE WaitForJob
  <2>1. UNCHANGED ready /\ job' = Head(queue) /\ workerPc' = "check"
        /\ queue' = Tail(queue) /\ queue # <<>> /\ workerPc = "wait"
    BY <1>2 DEF WaitForJob
  <2>2. CASE \E i \in 1..Len(queue) : queue[i].task = t
    <3>1. PICK i \in 1..Len(queue) : queue[i].task = t
      BY <2>2
    <3>2. queue \in Seq(Jobs)
      BY DEF Inv, TypeOK
    <3>3. t = Head(queue).task \/ \E j \in 1..Len(Tail(queue)) : Tail(queue)[j].task = t
      BY <2>1, <3>1, <3>2, HeadOrTail
    <3> QED
      BY <2>1, <3>3 DEF Carried
  <2>3. CASE \E i \in 1..Len(ready) : ready[i].task = t
    BY <2>1, <2>3 DEF Carried
  <2> QED
    BY <2>1, <2>2, <2>3 DEF Carried
<1>3. CASE WaitTimeout
  BY <1>3 DEF WaitTimeout, Carried
<1>4. CASE Check
  BY <1>0, <1>4 DEF Check, Carried
<1>5. CASE AcquireGil
  BY <1>5 DEF AcquireGil, Carried
<1>6. CASE PerformJob
  <2> DEFINE done == [task |-> job.task, record |-> cursor]
  <2>1. /\ done \in Jobs /\ done.task = job.task /\ ready \in Seq(Jobs)
        /\ workerPc = "read"
    BY <1>6 DEF PerformJob, Inv, TypeOK, WorkerInv, Jobs
  <2>2. UNCHANGED <<queue, job>>
    BY <1>6 DEF PerformJob
  <2>3. CASE ready' = Append(ready, done)
    <3> HIDE DEF done
    <3>1. CASE t = done.task \/ \E i \in 1..Len(ready) : ready[i].task = t
      <4>1. \E i \in 1..Len(Append(ready, done)) : Append(ready, done)[i].task = t
        BY <2>1, <3>1, InAppend
      <4> QED
        BY <2>3, <4>1 DEF Carried
    <3> QED
      BY <2>1, <2>2, <3>1 DEF Carried
  <2>4. CASE UNCHANGED <<ready, workerPc>>
    BY <2>2, <2>4 DEF Carried
  <2> QED
    BY <1>6, <2>3, <2>4 DEF PerformJob
<1>10. CASE StartRead
  BY <1>0, <1>10 DEF StartRead, Carried
<1>11. CASE Leave
  BY <1>0, <1>11 DEF Leave, Carried, Inv, WorkerInv
<1>7. CASE NotifyLoop
  BY <1>7 DEF NotifyLoop, Carried
<1>8. CASE ReacquireGil
  BY <1>8 DEF ReacquireGil, Carried
<1>9. CASE ResetJob
  BY <1>9 DEF ResetJob, Carried
<1> QED
  BY <1>1, <1>2, <1>3, <1>4, <1>5, <1>6, <1>7, <1>8, <1>9, <1>10, <1>11
     DEF WorkerStep

(* The Python thread adds a job for a new await and takes a callback away  *)
(* only to settle its future.                                              *)
LEMMA PyKeepsCarried ==
  ASSUME Inv, PyStep, NEW t \in Tasks, future'[t] = "pending",
         future[t] = "pending" => Carried(t)
  PROVE  Carried(t)'
<1> USE DEF pyVars, workerVars
<1>0. /\ queue \in Seq(Jobs) /\ ready \in Seq(Jobs)
      /\ future \in [Tasks -> {"none", "pending", "done", "cancelled"}]
  BY DEF Inv, TypeOK
<1>1. CASE PyAcquire \/ PyRelease \/ CloseReader \/ DropReader \/ Join
  BY <1>1 DEF PyAcquire, PyRelease, CloseReader, DropReader, Join, Carried
<1>7. CASE AwaitRefused
  BY <1>7 DEF AwaitRefused, Carried
<1>2. ASSUME NEW u \in Tasks, NEW i \in Records, Await(u, i) PROVE Carried(t)'
  <2> DEFINE new == [task |-> u, record |-> i]
  <2>1. /\ queue' = Append(queue, new) /\ UNCHANGED <<ready, workerPc, job>>
        /\ future' = [future EXCEPT ![u] = "pending"]
        /\ new \in Jobs /\ new.task = u
    BY <1>2 DEF Await, Jobs
  <2> HIDE DEF new
  <2>2. CASE t = u \/ \E k \in 1..Len(queue) : queue[k].task = t
    <3>1. \E k \in 1..Len(Append(queue, new)) : Append(queue, new)[k].task = t
      BY <1>0, <2>1, <2>2, InAppend
    <3> QED
      BY <2>1, <3>1 DEF Carried
  <2> QED
    BY <1>0, <2>1, <2>2 DEF Carried
<1>3. ASSUME NEW u \in Tasks, Cancel(u) PROVE Carried(t)'
  BY <1>0, <1>3 DEF Cancel, Carried
<1>4. CASE RunCallback
  <2>1. /\ ready # <<>> /\ ready' = Tail(ready) /\ UNCHANGED <<queue, workerPc, job>>
        /\ \/ future' = [future EXCEPT ![Head(ready).task] = "done"]
           \/ future[Head(ready).task] # "pending" /\ UNCHANGED future
    BY <1>4 DEF RunCallback
  <2>2. t # Head(ready).task /\ future[t] = "pending"
    BY <1>0, <2>1
  <2>3. CASE \E i \in 1..Len(ready) : ready[i].task = t
    <3>1. PICK i \in 1..Len(ready) : ready[i].task = t
      BY <2>3
    <3>2. \E j \in 1..Len(Tail(ready)) : Tail(ready)[j].task = t
      BY <1>0, <2>1, <2>2, <3>1, HeadOrTail
    <3> QED
      BY <2>1, <3>2 DEF Carried
  <2> QED
    BY <2>1, <2>2, <2>3 DEF Carried
<1>5. CASE CloseLoop
  BY <1>5 DEF CloseLoop, NoneAwaiting
<1>6. CASE FreeReader
  BY <1>6 DEF FreeReader, Inv, StopInv, NoneAwaiting
<1> QED
  BY <1>1, <1>2, <1>3, <1>4, <1>5, <1>6, <1>7 DEF PyStep

(* No await is forgotten, however many there are and whatever is cancelled: *)
(* the job of a pending future is queued, in the worker's hands, or its    *)
(* set_result is scheduled (AsyncVRSReader.cpp:40-72).                     *)
THEOREM NoAwaitForgotten == Spec => []PendingIsCarried
<1>1. PendingIsCarried <=> \A t \in Tasks : future[t] = "pending" => Carried(t)
  BY DEF PendingIsCarried, Carried
<1>2. Init => PendingIsCarried
  BY DEF Init, PendingIsCarried
<1>3. Inv /\ PendingIsCarried /\ [Next]_vars => PendingIsCarried'
  <2> SUFFICES ASSUME Inv, PendingIsCarried, [Next]_vars,
                      NEW t \in Tasks, future'[t] = "pending"
               PROVE  Carried(t)'
    BY DEF PendingIsCarried, Carried
  <2>1. future[t] = "pending" => Carried(t)
    BY <1>1
  <2>2. CASE UNCHANGED vars
    BY <2>1, <2>2 DEF vars, Carried
  <2>3. CASE WorkerStep
    <3>1. UNCHANGED future
      BY <2>3 DEF WorkerStep, LoopTest, WaitForJob, WaitTimeout, Check, AcquireGil,
                  Leave, StartRead, PerformJob, NotifyLoop, ReacquireGil, ResetJob, WorkerKeeps, pyVars
    <3> QED
      BY <2>1, <2>3, <3>1, WorkerKeepsCarried
  <2>4. CASE PyStep
    BY <2>1, <2>4, PyKeepsCarried
  <2> QED
    BY <2>2, <2>3, <2>4 DEF Next
<1> QED
  BY <1>2, <1>3, InvHolds, PTL DEF Spec

-----------------------------------------------------------------------------
(* What the worker never touches: futures, requests and results belong to  *)
(* the Python thread.                                                      *)
LEMMA WorkerKeepsFutures == WorkerStep => UNCHANGED pyVars /\ UNCHANGED shouldEnd
  BY DEF WorkerStep, LoopTest, Leave, WaitForJob, WaitTimeout, Check, AcquireGil,
         StartRead, PerformJob, NotifyLoop, ReacquireGil, ResetJob, WorkerKeeps, pyVars

(* The jobs an await may have made: each with the record its task asks for. *)
OwnJobs == {j \in Jobs : future[j.task] # "none" /\ request[j.task] = j.record}

(* All the jobs under way are such, wherever they are.                     *)
JobsInv ==
  /\ queue \in Seq(OwnJobs) /\ ready \in Seq(OwnJobs)
  /\ workerPc \in Busy => job \in OwnJobs

(* A sequence over a set is one over a larger set. *)
LEMMA SeqGrows ==
  ASSUME NEW S, NEW T, S \subseteq T, NEW q \in Seq(S)
  PROVE  q \in Seq(T)
<1>1. q \in [1..Len(q) -> T] /\ Len(q) \in Nat
  OBVIOUS
<1> QED
  BY <1>1

(* A job stays its task's own: an await asks for a task that had no job.   *)
LEMMA OwnJobsGrow == Inv /\ [Next]_vars => OwnJobs \subseteq OwnJobs'
<1> SUFFICES ASSUME Inv, [Next]_vars, NEW j \in OwnJobs PROVE j \in OwnJobs'
  OBVIOUS
<1>0. /\ future \in [Tasks -> {"none", "pending", "done", "cancelled"}]
      /\ request \in [Tasks -> Records \cup {None}] /\ ready \in Seq(Jobs)
      /\ j \in Jobs /\ j.task \in Tasks
  BY DEF Inv, TypeOK, Jobs, OwnJobs
<1>1. CASE UNCHANGED <<future, request>>
  BY <1>1 DEF OwnJobs
<1>2. CASE WorkerStep
  BY <1>1, <1>2, WorkerKeepsFutures DEF pyVars
<1>3. ASSUME NEW u \in Tasks, NEW i \in Records, Await(u, i) PROVE j \in OwnJobs'
  BY <1>0, <1>3 DEF Await, OwnJobs
<1>4. ASSUME NEW u \in Tasks, Cancel(u) PROVE j \in OwnJobs'
  BY <1>0, <1>4 DEF Cancel, OwnJobs
<1>5. CASE RunCallback
  <2>1. Head(ready) \in Jobs
    BY <1>0, <1>5 DEF RunCallback
  <2>2. Head(ready).task \in Tasks
    BY <2>1 DEF Jobs
  <2> QED
    BY <1>0, <1>5, <2>2 DEF RunCallback, OwnJobs
<1>6. CASE PyAcquire \/ PyRelease \/ AwaitRefused \/ CloseLoop \/ CloseReader
             \/ DropReader \/ Join \/ FreeReader
  BY <1>1, <1>6 DEF PyAcquire, PyRelease, AwaitRefused, CloseLoop, CloseReader,
                    DropReader, Join, FreeReader, pyVars
<1>7. CASE UNCHANGED vars
  BY <1>1, <1>7 DEF vars
<1> QED
  BY <1>2, <1>3, <1>4, <1>5, <1>6, <1>7 DEF Next, PyStep

(* No step gives a task another's job, or a job another's record: the      *)
(* worker reads at the position it has set, whoever moved it before.       *)
LEMMA JobsStep == Inv /\ JobsInv /\ [Next]_vars => JobsInv'
<1> SUFFICES ASSUME Inv, JobsInv, [Next]_vars PROVE JobsInv'
  OBVIOUS
<1> DEFINE After == OwnJobs'
<1>0. /\ queue \in Seq(After) /\ ready \in Seq(After)
      /\ workerPc \in Busy => job \in After
  BY OwnJobsGrow, SeqGrows DEF JobsInv
<1> SUFFICES /\ queue' \in Seq(After) /\ ready' \in Seq(After)
             /\ workerPc' \in Busy => job' \in After
  BY DEF JobsInv
<1>1. CASE WaitForJob
  <2>1. /\ queue # <<>> /\ ready' = ready
        /\ job' = Head(queue) /\ queue' = Tail(queue)
    BY <1>1 DEF WaitForJob
  <2> HIDE DEF After
  <2> QED
    BY <1>0, <2>1
<1>2. CASE PerformJob
  <2> DEFINE done == [task |-> job.task, record |-> cursor]
  <2>1. workerPc = "read" /\ done = job /\ UNCHANGED <<queue, job>>
    BY <1>2 DEF PerformJob, Inv, WorkerInv, Busy, Jobs
  <2> HIDE DEF After, done
  <2>2. \/ ready' = ready /\ workerPc' = workerPc
        \/ ready' = Append(ready, done) /\ workerPc' = "notify"
    BY <1>2 DEF PerformJob, done
  <2> QED
    BY <1>0, <2>1, <2>2 DEF Busy
<1>3. CASE LoopTest \/ Leave \/ WaitTimeout \/ Check \/ AcquireGil \/ StartRead
             \/ NotifyLoop \/ ReacquireGil \/ ResetJob
  <2>1. UNCHANGED <<queue, ready>> /\ (workerPc' \in Busy => workerPc \in Busy /\ job' = job)
    BY <1>3 DEF LoopTest, Leave, WaitTimeout, Check, AcquireGil, StartRead, NotifyLoop,
                ReacquireGil, ResetJob, Busy
  <2> QED
    BY <1>0, <2>1
<1>4. ASSUME NEW u \in Tasks, NEW i \in Records, Await(u, i)
      PROVE  /\ queue' \in Seq(After) /\ ready' \in Seq(After)
             /\ workerPc' \in Busy => job' \in After
  <2> DEFINE new == [task |-> u, record |-> i]
  <2>1. new \in After
    BY <1>4 DEF Await, Inv, TypeOK, Jobs, OwnJobs
  <2>2. queue' = Append(queue, new) /\ UNCHANGED <<ready, workerPc, job>>
    BY <1>4 DEF Await, workerVars
  <2> HIDE DEF After, new
  <2> QED
    BY <1>0, <2>1, <2>2
<1>5. CASE RunCallback
  <2>1. /\ ready # <<>> /\ ready' = Tail(ready)
        /\ UNCHANGED <<queue, workerPc, job>>
    BY <1>5 DEF RunCallback, workerVars
  <2> HIDE DEF After
  <2> QED
    BY <1>0, <2>1
<1>6. CASE CloseLoop \/ FreeReader
  <2>1. /\ queue' = queue \/ queue' = <<>>
        /\ ready' = ready \/ ready' = <<>>
        /\ UNCHANGED <<workerPc, job>>
    BY <1>6 DEF CloseLoop, FreeReader, workerVars
  <2> HIDE DEF After
  <2>2. <<>> \in Seq(After)
    OBVIOUS
  <2>3. queue' \in Seq(After)
    BY <1>0, <2>1, <2>2
  <2>4. ready' \in Seq(After)
    BY <1>0, <2>1, <2>2
  <2> QED
    BY <1>0, <2>1, <2>3, <2>4
<1>7. ASSUME NEW u \in Tasks, Cancel(u)
      PROVE  UNCHANGED <<queue, ready, workerPc, job>>
  BY <1>7 DEF Cancel, workerVars
<1>8. CASE PyAcquire \/ PyRelease \/ AwaitRefused \/ CloseReader \/ DropReader \/ Join
             \/ UNCHANGED vars \/ UNCHANGED <<queue, ready, workerPc, job>>
  BY <1>0, <1>8 DEF PyAcquire, PyRelease, AwaitRefused, CloseReader, DropReader, Join,
                    workerVars, vars
<1> QED
  BY <1>1, <1>2, <1>3, <1>4, <1>5, <1>6, <1>7, <1>8 DEF Next, WorkerStep, PyStep

(* A future gets the record its task asked for, and only once: the index   *)
(* captured at the await, the job that carries it, the position the worker *)
(* reads at and the callback are those of one await, whatever was          *)
(* cancelled or refused in between (AsyncVRSReader.cpp:68-95).             *)
THEOREM FuturesSettleOnce == Spec => SettledOnce
<1> DEFINE Settles(t) ==
      /\ future[t] \in {"done", "cancelled"} =>
           future'[t] = future[t] /\ result'[t] = result[t]
      /\ future[t] = "pending" /\ future'[t] = "done" => result'[t] = request[t]
<1>1. ASSUME Inv, JobsInv, [Next]_vars, NEW t \in Tasks PROVE Settles(t)
  <2>0. /\ future \in [Tasks -> {"none", "pending", "done", "cancelled"}]
        /\ result \in [Tasks -> Records \cup {None}] /\ ready \in Seq(OwnJobs)
    BY <1>1 DEF Inv, TypeOK, JobsInv
  <2>1. CASE UNCHANGED <<future, result>>
    BY <2>1
  <2>2. CASE WorkerStep
    BY <2>1, <2>2, WorkerKeepsFutures DEF pyVars
  <2>3. ASSUME NEW u \in Tasks, NEW i \in Records, Await(u, i) PROVE Settles(t)
    BY <2>0, <2>3 DEF Await
  <2>4. ASSUME NEW u \in Tasks, Cancel(u) PROVE Settles(t)
    BY <2>0, <2>4 DEF Cancel
  <2>5. CASE RunCallback
    <3>1. Head(ready) \in OwnJobs
      BY <2>0, <2>5 DEF RunCallback
    <3>2. Head(ready).task \in Tasks /\ request[Head(ready).task] = Head(ready).record
      BY <3>1 DEF OwnJobs, Jobs
    <3> QED
      BY <2>0, <2>5, <3>2 DEF RunCallback
  <2>6. CASE PyAcquire \/ PyRelease \/ AwaitRefused \/ CloseLoop \/ CloseReader
               \/ DropReader \/ Join \/ FreeReader
    BY <2>1, <2>6 DEF PyAcquire, PyRelease, AwaitRefused, CloseLoop, CloseReader,
                      DropReader, Join, FreeReader, pyVars
  <2>7. CASE UNCHANGED vars
    BY <2>1, <2>7 DEF vars
  <2> QED
    BY <1>1, <2>2, <2>3, <2>4, <2>5, <2>6, <2>7 DEF Next, PyStep
<1>2. Inv /\ JobsInv /\ [Next]_vars => [\A t \in Tasks : Settles(t)]_vars
  BY <1>1
<1>3. Init => JobsInv
  BY DEF Init, JobsInv, Busy
<1> QED
  BY <1>2, <1>3, JobsStep, InvHolds, PTL DEF Spec, SettledOnce

-----------------------------------------------------------------------------
(* Moving the first of t to the end of the part before it changes nothing. *)
LEMMA Handover ==
  ASSUME NEW S, NEW s \in Seq(S), NEW t \in Seq(S), t # <<>>
  PROVE  (s \o <<Head(t)>>) \o Tail(t) = s \o t
<1>1. Head(t) \in S /\ Tail(t) \in Seq(S) /\ <<Head(t)>> \in Seq(S)
  BY HeadTailProperties
<1>2. <<Head(t)>> \o Tail(t) = t
  <2> DEFINE u == <<Head(t)>> \o Tail(t)
  <2>1. /\ u \in Seq(S) /\ Len(u) = 1 + Len(Tail(t))
        /\ \A i \in 1..Len(u) : u[i] = IF i <= 1 THEN Head(t) ELSE Tail(t)[i - 1]
    BY <1>1, ConcatProperties
  <2>2. Len(u) = Len(t) /\ \A i \in 1..Len(u) : u[i] = t[i]
    BY <2>1, HeadTailProperties
  <2> HIDE DEF u
  <2>3. u = t
    BY <2>1, <2>2, SeqEqual
  <2> QED
    BY <2>3 DEF u
<1> QED
  BY <1>1, <1>2, ConcatAssociative

(* The first of a sequence in two parts is the first of a front part that  *)
(* is not empty.                                                           *)
LEMMA TailOfConcat ==
  ASSUME NEW S, NEW s \in Seq(S), NEW t \in Seq(S), s # <<>>
  PROVE  s \o t # <<>> /\ Tail(s) \o t = Tail(s \o t)
<1>1. Tail(s) \in Seq(S) /\ Len(Tail(s)) = Len(s) - 1 /\ Len(s) \in Nat /\ Len(t) \in Nat
  BY HeadTailProperties, LenProperties
<1>2. s \o t \in Seq(S) /\ s \o t # <<>>
  BY ConcatProperties, ConcatEqualIffEmpty
<1> DEFINE a == Tail(s) \o t
           b == Tail(s \o t)
<1>3. a \in Seq(S) /\ b \in Seq(S)
  BY <1>1, <1>2, ConcatProperties, HeadTailProperties
<1>4. Len(a) = Len(s) - 1 + Len(t) /\ Len(b) = Len(s) + Len(t) - 1
  BY <1>1, <1>2, ConcatProperties, HeadTailProperties
<1>5. ASSUME NEW i \in 1..Len(a) PROVE a[i] = b[i]
  <2>1. a[i] = IF i <= Len(s) - 1 THEN Tail(s)[i] ELSE t[i - (Len(s) - 1)]
    BY <1>1, <1>4, ConcatProperties
  <2>2. b[i] = (s \o t)[i + 1]
    BY <1>2, <1>4, HeadTailProperties
  <2>3. (s \o t)[i + 1] = IF i + 1 <= Len(s) THEN s[i + 1] ELSE t[i + 1 - Len(s)]
    BY <1>1, <1>4, ConcatProperties
  <2>4. i <= Len(s) - 1 => Tail(s)[i] = s[i + 1]
    BY <1>1, HeadTailProperties
  <2>5. i - (Len(s) - 1) = i + 1 - Len(s)
    BY <1>1
  <2> QED
    BY <1>1, <2>1, <2>2, <2>3, <2>4, <2>5
<1>6. Len(a) = Len(b)
  BY <1>1, <1>4
<1> HIDE DEF a, b
<1>7. a = b
  BY <1>3, <1>5, <1>6, SeqEqual
<1> QED
  BY <1>2, <1>7 DEF a, b

(* What is appended to the last part is appended to the whole. *)
LEMMA AppendToConcat ==
  ASSUME NEW S, NEW s \in Seq(S), NEW t \in Seq(S), NEW e \in S
  PROVE  s \o Append(t, e) = Append(s \o t, e)
<1>1. <<e>> \in Seq(S) /\ s \o t \in Seq(S)
  BY ConcatProperties
<1> QED
  BY <1>1, AppendIsConcat, ConcatAssociative

(* Results reach the loop in the order of the awaits: while the reader     *)
(* lives and the loop is open, a step leaves the jobs under way alone, adds *)
(* one at the back or delivers the one in front                            *)
(* (AsyncVRSReader.cpp:40-72).                                             *)
THEOREM ResultsInOrder == Spec => DeliveredInOrder
<1> DEFINE InOrder ==
      \/ Pipeline' = Pipeline
      \/ Pipeline # <<>> /\ Pipeline' = Tail(Pipeline)
      \/ \E j \in Jobs : Pipeline' = Append(Pipeline, j)
<1>1. ASSUME Inv, [Next]_vars, reader' = "live", loopOpen' PROVE InOrder
  <2>0. /\ queue \in Seq(Jobs) /\ ready \in Seq(Jobs) /\ InHand \in Seq(Jobs)
        /\ Pipeline = (ready \o InHand) \o queue
    BY <1>1 DEF Inv, TypeOK, WorkerInv, InHand, Pipeline, Busy
  <2>1. ready \o InHand \in Seq(Jobs) /\ ready \o <<>> = ready
    BY <2>0, ConcatProperties, ConcatEmptySeq
  <2>2. CASE UNCHANGED <<queue, ready, InHand>>
    BY <2>2 DEF Pipeline
  <2>3. ASSUME reader = "live" PROVE ~shouldEnd
    BY <1>1, <2>3 DEF Inv, StopInv
  <2>4. CASE WorkerStep
    <3>0. ~shouldEnd
      BY <1>1, <2>3, <2>4, WorkerKeepsFutures DEF pyVars
    <3>1. CASE WaitForJob
      <4>1. /\ queue # <<>> /\ ready' = ready /\ queue' = Tail(queue)
            /\ InHand = <<>> /\ InHand' = <<Head(queue)>>
        BY <3>1 DEF WaitForJob, InHand, Busy
      <4>2. Pipeline' = (ready \o <<Head(queue)>>) \o Tail(queue)
        BY <4>1 DEF Pipeline
      <4> QED
        BY <2>0, <2>1, <4>1, <4>2, Handover
    <3>2. CASE PerformJob
      <4>1. CASE UNCHANGED <<ready, workerPc>>
        BY <2>2, <3>2, <4>1 DEF PerformJob, InHand, Busy
      <4>2. CASE /\ ready' = Append(ready, [task |-> job.task, record |-> cursor])
                 /\ workerPc' = "notify"
        <5>1. queue' = queue /\ InHand = <<job>> /\ InHand' = <<>> /\ job \in Jobs
          BY <1>1, <3>2, <4>2 DEF PerformJob, InHand, Inv, WorkerInv, Busy
        <5>4. [task |-> job.task, record |-> cursor] = job
          BY <1>1, <3>2, <5>1 DEF PerformJob, Inv, WorkerInv, Jobs
        <5>2. ready' = ready \o InHand
          BY <2>0, <4>2, <5>1, <5>4, AppendIsConcat
        <5>3. (ready \o InHand) \o <<>> = ready \o InHand
          BY <2>1, ConcatEmptySeq
        <5> QED
          BY <2>0, <5>1, <5>2, <5>3 DEF Pipeline
      <4> QED
        BY <3>0, <3>2, <4>1, <4>2 DEF PerformJob
    <3>3. CASE LoopTest \/ WaitTimeout \/ Check \/ AcquireGil \/ StartRead \/ NotifyLoop
                 \/ ReacquireGil \/ ResetJob
      BY <2>2, <3>0, <3>3 DEF LoopTest, WaitTimeout, Check, AcquireGil, StartRead,
                              NotifyLoop, ReacquireGil, ResetJob, InHand, Busy
    <3>4. CASE Leave
      BY <1>1, <3>0, <3>4 DEF Leave, Inv, WorkerInv
    <3> QED
      BY <2>4, <3>1, <3>2, <3>3, <3>4 DEF WorkerStep
  <2>5. ASSUME NEW t \in Tasks, NEW i \in Records, Await(t, i) PROVE InOrder
    <3> DEFINE new == [task |-> t, record |-> i]
    <3>1. queue' = Append(queue, new) /\ UNCHANGED <<ready, InHand>> /\ new \in Jobs
      BY <2>5 DEF Await, InHand, workerVars, Jobs
    <3> HIDE DEF new
    <3>2. Pipeline' = (ready \o InHand) \o Append(queue, new)
      BY <3>1 DEF Pipeline
    <3> DEFINE front == ready \o InHand
    <3>3. front \in Seq(Jobs)
      BY <2>1
    <3> HIDE DEF front
    <3>4. front \o Append(queue, new) = Append(front \o queue, new)
      BY <2>0, <3>1, <3>3, AppendToConcat
    <3>5. Pipeline' = Append(Pipeline, new)
      BY <2>0, <3>2, <3>4 DEF front
    <3> QED
      BY <3>1, <3>5
  <2>6. CASE RunCallback
    <3>1. ready # <<>> /\ ready' = Tail(ready) /\ UNCHANGED <<queue, InHand>>
      BY <2>6 DEF RunCallback, InHand, workerVars
    <3>2. ready \o InHand # <<>> /\ Tail(ready) \o InHand = Tail(ready \o InHand)
      BY <2>0, <3>1, TailOfConcat
    <3>3. Pipeline # <<>> /\ Tail(ready \o InHand) \o queue = Tail(Pipeline)
      BY <2>0, <2>1, <3>2, TailOfConcat
    <3> QED
      BY <3>1, <3>2, <3>3 DEF Pipeline
  <2>7. ASSUME NEW t \in Tasks, Cancel(t) PROVE InOrder
    BY <2>2, <2>7 DEF Cancel, InHand, workerVars
  <2>8. CASE PyAcquire \/ PyRelease \/ AwaitRefused \/ CloseReader \/ DropReader \/ Join
    BY <2>2, <2>8 DEF PyAcquire, PyRelease, AwaitRefused, CloseReader, DropReader, Join,
                      InHand, workerVars
  <2>9. CASE CloseLoop \/ FreeReader
    BY <1>1, <2>9 DEF CloseLoop, FreeReader
  <2>10. CASE UNCHANGED vars
    BY <2>2, <2>10 DEF vars, InHand
  <2> QED
    BY <1>1, <2>4, <2>5, <2>6, <2>7, <2>8, <2>9, <2>10 DEF Next, PyStep
<1>2. Inv /\ [Next]_vars => [reader' = "live" /\ loopOpen' => InOrder]_vars
  BY <1>1
<1> QED
  BY <1>2, InvHolds, PTL DEF Spec, DeliveredInOrder
=============================================================================
