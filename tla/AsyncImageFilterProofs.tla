----------------------- MODULE AsyncImageFilterProofs -----------------------
(***************************************************************************)
(* Theorems about AsyncImageFilter, for every input file, selection,       *)
(* pre-roll and set of unreadable records.                                 *)
(***************************************************************************)
EXTENDS AsyncImageFilter, TLAPS

TypeInv == TypeOK /\ copiers <= creates

(* createRecord counts up for the records that can be read. *)
LEMMA CreateType ==
  ASSUME TypeOK, NEW S
  PROVE  /\ Create(S) \in [File -> Nat]
         /\ \A r \in File : Create(S)[r] > 0 => written[r] > 0 \/ r \in S
         /\ \A r \in File : written[r] > 0 => Create(S)[r] > 0
  BY DEF Create, TypeOK

(* The keys of the collected metadata are records of the file. *)
LEMMA CollectedType ==
  ASSUME TypeOK, NEW S \in SUBSET File
  PROVE  Collected(S) \in SUBSET File
  BY DEF Collected, TypeOK

(* The record at an index is a record of the file. *)
LEMMA RecType == ASSUME TypeOK, NEW i \in Indices PROVE Rec(i) \in File
  BY DEF TypeOK, Indices, Rec

(* A filter just built is well typed, whether or not its input is open. *)
LEMMA InitType == Init => TypeInv
<1> SUFFICES ASSUME Init PROVE TypeInv
  OBVIOUS
<1>1. written \in [File -> Nat]
  BY DEF Init
<1>2. records \in Seq(File) /\ next \in 0..Len(records)
  BY DEF Init
<1>3. /\ creates = 0 /\ copiers = 0 /\ MaxCreates \in Nat
      /\ inputOpen \in BOOLEAN /\ initialized = FALSE /\ fileCreated = FALSE
      /\ closed = FALSE /\ collectMetadata = FALSE
      /\ waiting = {} /\ processed = {} /\ discarded = {} /\ passedOver = {}
      /\ flushed = {} /\ metadata = {}
  BY FilterAssumption DEF Init
<1>4. creates \in 0..MaxCreates /\ copiers \in 0..MaxCreates /\ copiers <= creates
  BY <1>3
<1>5. /\ waiting \in SUBSET Indices /\ processed \in SUBSET Indices
      /\ discarded \in SUBSET Indices /\ passedOver \in SUBSET Indices
      /\ flushed \in SUBSET File /\ metadata \in SUBSET File
  BY <1>3
<1>6. /\ inputOpen \in BOOLEAN /\ initialized \in BOOLEAN /\ fileCreated \in BOOLEAN
      /\ collectMetadata \in BOOLEAN /\ closed \in BOOLEAN
  BY <1>3
<1> QED
  BY <1>1, <1>2, <1>4, <1>5, <1>6 DEF TypeInv, TypeOK

(* What ProcessPendingRecords does to the types. *)
LEMMA ProcessType ==
  ASSUME TypeOK, NEW w \in SUBSET Indices, NEW p \in SUBSET Indices,
         ProcessPendingRecords(w, p)
  PROVE  /\ waiting' \in SUBSET Indices /\ processed' \in SUBSET Indices
         /\ written' \in [File -> Nat] /\ flushed' \in SUBSET File
  BY CreateType DEF TypeOK, ProcessPendingRecords, InFront

(* Every step keeps the types, and never leaves more copiers than there    *)
(* were calls that add them.                                               *)
LEMMA TypeStep == TypeInv /\ [Next]_vars => TypeInv'
<1> SUFFICES ASSUME TypeInv, [Next]_vars PROVE TypeInv'
  OBVIOUS
<1> USE FilterAssumption
<1>0. CASE UNCHANGED vars
  BY <1>0 DEF TypeInv, TypeOK, vars, Indices
<1>1. CASE NeedRecordMetadata
  BY <1>1 DEF TypeInv, TypeOK, Indices, NeedRecordMetadata
<1>2. CASE CreateOutputFileFails
  <2>1. creates' \in 0..MaxCreates /\ copiers' \in 0..MaxCreates /\ copiers' <= creates'
    BY <1>2 DEF TypeInv, TypeOK, CreateOutputFileFails
  <2>2. next' \in 0..Len(records') /\ passedOver' \in SUBSET Indices
    BY <1>2 DEF TypeInv, TypeOK, CreateOutputFileFails
  <2> QED
    BY <1>2, <2>1, <2>2 DEF TypeInv, TypeOK, Indices, CreateOutputFileFails
<1>3. CASE CreateOutputFile
  <2>1. creates' \in 0..MaxCreates /\ copiers' \in 0..MaxCreates /\ copiers' <= creates'
    BY <1>3 DEF TypeInv, TypeOK, CreateOutputFile
  <2>2. /\ records' \in Seq(File) /\ Len(records') = Len(records) + Len(Selected)
        /\ Len(records) \in Nat /\ Len(Selected) \in Nat
    BY <1>3 DEF TypeInv, TypeOK, CreateOutputFile
  <2>3. Indices \in SUBSET Indices' /\ next' \in 0..Len(records')
    BY <1>3, <2>2 DEF Indices, CreateOutputFile
  <2>4. written' \in [File -> Nat]
    BY <1>3 DEF CreateOutputFile
  <2>5. metadata' \in SUBSET File
    BY <1>3, CollectedType DEF TypeInv, CreateOutputFile
  <2> QED
    BY <1>3, <2>1, <2>2, <2>3, <2>4, <2>5 DEF TypeInv, TypeOK, CreateOutputFile
<1>4. CASE GetNextImage
  <2>1. UNCHANGED setup /\ UNCHANGED <<processed, discarded, passedOver, flushed>>
    BY <1>4 DEF GetNextImage
  <2>2. PICK j \in next..Len(records) :
          /\ written' = Create({Rec(k) : k \in next..(j - 1)})
          /\ \/ /\ j < Len(records)
                /\ next' = j + 1 /\ waiting' = waiting \cup {j}
                /\ metadata' = Collected({Rec(k) : k \in next..j})
             \/ /\ j = Len(records) /\ next' = j /\ UNCHANGED waiting
                /\ metadata' = Collected({Rec(k) : k \in next..(j - 1)})
    BY <1>4 DEF GetNextImage
  <2>3. Len(records) \in Nat /\ next \in Nat /\ j \in Nat
    BY DEF TypeInv, TypeOK
  <2>4. written' \in [File -> Nat]
    BY <2>2, CreateType DEF TypeInv
  <2>5. next' \in 0..Len(records) /\ waiting' \in SUBSET Indices
    <3>1. waiting \in SUBSET Indices
      BY DEF TypeInv, TypeOK
    <3>2. CASE j < Len(records) /\ next' = j + 1 /\ waiting' = waiting \cup {j}
      <4>1. j \in Indices /\ next' \in 0..Len(records)
        BY <2>3, <3>2 DEF Indices
      <4> QED
        BY <3>1, <3>2, <4>1
    <3>3. CASE j = Len(records) /\ next' = j /\ UNCHANGED waiting
      BY <2>3, <3>1, <3>3
    <3> QED
      BY <2>2, <3>2, <3>3
  <2>6. metadata' \in SUBSET File
    <3>1. j < Len(records) => {Rec(k) : k \in next..j} \in SUBSET File
      BY <2>3, RecType DEF TypeInv, Indices
    <3>2. {Rec(k) : k \in next..(j - 1)} \in SUBSET File
      BY <2>3, RecType DEF TypeInv, Indices
    <3> QED
      BY <2>2, <3>1, <3>2, CollectedType DEF TypeInv
  <2> QED
    BY <2>1, <2>4, <2>5, <2>6 DEF TypeInv, TypeOK, setup, Indices
<1>5. ASSUME NEW i \in Indices, RejectImage(i) PROVE TypeInv'
  BY <1>5 DEF TypeInv, TypeOK, Indices, RejectImage, ForgetMetadata, setup
<1>6. ASSUME NEW i \in Indices, WriteProcessedImage(i) PROVE TypeInv'
  <2>1. /\ waiting' \in SUBSET Indices /\ processed' \in SUBSET Indices
        /\ written' \in [File -> Nat] /\ flushed' \in SUBSET File
    <3>1. waiting \ {i} \in SUBSET Indices /\ processed \cup {i} \in SUBSET Indices
      BY DEF TypeInv, TypeOK
    <3> QED
      BY <1>6, <3>1, ProcessType DEF TypeInv, WriteProcessedImage
  <2> QED
    BY <1>6, <2>1 DEF TypeInv, TypeOK, Indices, WriteProcessedImage, ForgetMetadata, setup
<1>7. ASSUME NEW i \in Indices, DiscardRecord(i) PROVE TypeInv'
  <2>1. /\ waiting' \in SUBSET Indices /\ processed' \in SUBSET Indices
        /\ written' \in [File -> Nat] /\ flushed' \in SUBSET File
    <3>1. waiting \ {i} \in SUBSET Indices /\ processed \in SUBSET Indices
      BY DEF TypeInv, TypeOK
    <3> QED
      BY <1>7, <3>1, ProcessType DEF TypeInv, DiscardRecord
  <2> QED
    BY <1>7, <2>1 DEF TypeInv, TypeOK, Indices, DiscardRecord, ForgetMetadata, setup
<1>8. CASE CloseFile
  <2>1. flushed' \in SUBSET File /\ fileCreated' = FALSE /\ closed' \in BOOLEAN
    BY <1>8 DEF TypeInv, TypeOK, CloseFile
  <2>2. /\ copiers' = 0 /\ creates' = creates /\ 0 \in 0..MaxCreates
        /\ UNCHANGED <<inputOpen, initialized, records, next, waiting, processed,
                       discarded, passedOver, written, collectMetadata, metadata>>
    BY <1>8 DEF CloseFile
  <2>3. creates' \in 0..MaxCreates /\ copiers' \in 0..MaxCreates /\ copiers' <= creates'
    BY <2>2 DEF TypeInv, TypeOK
  <2>5. /\ inputOpen' \in BOOLEAN /\ initialized' \in BOOLEAN /\ fileCreated' \in BOOLEAN
        /\ collectMetadata' \in BOOLEAN /\ closed' \in BOOLEAN
    <3>1. inputOpen' \in BOOLEAN /\ initialized' \in BOOLEAN /\ collectMetadata' \in BOOLEAN
      BY <2>2 DEF TypeInv, TypeOK
    <3> QED
      BY <2>1, <3>1
  <2>4. /\ records' \in Seq(File) /\ next' \in 0..Len(records')
        /\ waiting' \in SUBSET Indices' /\ processed' \in SUBSET Indices'
        /\ discarded' \in SUBSET Indices' /\ passedOver' \in SUBSET Indices'
        /\ written' \in [File -> Nat] /\ metadata' \in SUBSET File
    BY <2>2 DEF TypeInv, TypeOK, Indices
  <2> QED
    BY <2>1, <2>3, <2>4, <2>5 DEF TypeInv, TypeOK
<1>9. CASE GetNextImageUnplayed
  <2>1. /\ next' = Len(records) /\ passedOver' = passedOver \cup (next..(Len(records) - 1))
        /\ UNCHANGED setup /\ UNCHANGED <<waiting, processed, discarded, written, flushed, metadata>>
    BY <1>9 DEF GetNextImageUnplayed
  <2>2. Len(records) \in Nat /\ next \in Nat
    BY DEF TypeInv, TypeOK
  <2>3. \A i \in passedOver' : i \in Indices
    BY <2>1, <2>2 DEF TypeInv, TypeOK, Indices
  <2>4. next' \in 0..Len(records)
    BY <2>1, <2>2
  <2> QED
    BY <2>1, <2>3, <2>4 DEF TypeInv, TypeOK, setup, Indices
<1> QED
  BY <1>0, <1>1, <1>2, <1>3, <1>4, <1>5, <1>6, <1>7, <1>8, <1>9 DEF Next

(* The strengthened type invariant holds in every reachable state. *)
LEMMA TypeInvHolds == Spec => []TypeInv
  BY InitType, TypeStep, PTL DEF Spec

(* Every variable keeps its type: the reading position stays within the    *)
(* selected records, and the records in the filter's hands are among them, *)
(* however often createOutputFile is called.                               *)
THEOREM TypeCorrect == Spec => []TypeOK
<1>1. TypeInv => TypeOK
  BY DEF TypeInv
<1> QED
  BY <1>1, TypeInvHolds, PTL

-----------------------------------------------------------------------------
(* With one call of createOutputFile the selected records are gone over    *)
(* once, so an index is in one place only, and none ahead of the reading   *)
(* position.                                                               *)
PlaceInv ==
  /\ creates = 0 => records = <<>>
  /\ records \in {<<>>, Selected}
  /\ creates = 0 => fileCreated = FALSE
  /\ waiting \cap processed = {}
  /\ \A i \in waiting \cup processed : i < next

(* Why nothing is written too early: all that is in the file is at most as *)
(* late as what the writer holds, what is pending, and what was not read   *)
(* yet; and that is at least as late as what the writer was given, which   *)
(* closeFile puts in the file.                                             *)
OrderInv ==
  /\ FileInOrder
  /\ creates = 0 => flushed = {}
  /\ \A f \in flushed, i \in waiting \cup processed : Timestamp[f] <= Timestamp[Rec(i)]
  /\ \A f \in flushed, i \in Indices : next <= i => Timestamp[f] <= Timestamp[Rec(i)]
  /\ \A r \in File, i \in Indices :
       written[r] > 0 /\ next <= i => Timestamp[r] <= Timestamp[Rec(i)]

OnceInv == TypeInv /\ PlaceInv /\ BacklogWaitsForImages /\ OrderInv

(* The records at later indices are not earlier. *)
LEMMA IndexSorted ==
  ASSUME TypeInv, PlaceInv, NEW i \in Indices, NEW j \in Indices, i < j
  PROVE  Timestamp[Rec(i)] <= Timestamp[Rec(j)]
<1>1. records = Selected /\ Len(records) \in Nat
  BY DEF PlaceInv, Indices, TypeInv, TypeOK
<1>2. /\ i + 1 \in 1..Len(Selected) /\ j + 1 \in 1..Len(Selected) /\ i + 1 < j + 1
      /\ Rec(i) = Selected[i + 1] /\ Rec(j) = Selected[j + 1]
  BY <1>1 DEF Indices, Rec
<1>3. Rec(i) < Rec(j)
  BY <1>2, FilterAssumption
<1> QED
  BY <1>3, RecType, FilterAssumption DEF TypeInv

(* What is left in the backlog has an image that is out in front of it. *)
LEMMA ProcessBacklog ==
  ASSUME TypeInv, NEW w \in SUBSET Indices, NEW p \in SUBSET Indices, w \cap p = {},
         ProcessPendingRecords(w, p)
  PROVE  /\ BacklogWaitsForImages'
         /\ waiting' = w /\ processed' \subseteq p
<1>1. waiting' = w /\ processed' = p \ InFront(w, p)
  BY DEF ProcessPendingRecords
<1>2. ASSUME NEW i \in processed' PROVE \E k \in w : k < i
  <2>1. PICK k \in w : ~(i < k)
    BY <1>1 DEF InFront
  <2>2. i # k /\ i \in Nat /\ k \in Nat
    BY <1>1 DEF Indices
  <2> QED
    BY <2>1, <2>2
<1> QED
  BY <1>1, <1>2 DEF BacklogWaitsForImages

(* The ready records in front go to the writer, and what is flushed stays  *)
(* behind everything that is left.                                         *)
LEMMA ProcessOrder ==
  ASSUME OnceInv, NEW w \in SUBSET Indices, NEW p \in SUBSET Indices, w \cap p = {},
         w \cup p \subseteq waiting \cup processed, ProcessPendingRecords(w, p),
         UNCHANGED <<records, next, creates>>, creates # 0
  PROVE  OrderInv'
<1> DEFINE front == InFront(w, p)
<1>1. /\ waiting' = w /\ processed' = p \ front /\ front \subseteq p
      /\ written' = Create({Rec(i) : i \in front})
  BY DEF ProcessPendingRecords, InFront
<1>2. \A i : Rec(i)' = Rec(i)
  BY DEF Rec
<1>3. Indices' = Indices /\ Indices \subseteq Nat /\ next \in Nat
  BY DEF Indices, OnceInv, TypeInv, TypeOK
<1>4. /\ \A r \in File : Timestamp[r] \in Nat
      /\ \A i \in Indices : Rec(i) \in File
      /\ flushed \subseteq File
  BY FilterAssumption, RecType DEF OnceInv, TypeInv, TypeOK
<1>5. \A r \in File : written'[r] > 0 => written[r] > 0 \/ \E i \in front : r = Rec(i)
  BY <1>1, CreateType DEF OnceInv, TypeInv
<1>6. \A f \in flushed, i \in p \cup w : Timestamp[f] <= Timestamp[Rec(i)]
  BY DEF OnceInv, OrderInv
<1>7. \A f \in flushed, r \in File : written'[r] > 0 /\ r \notin flushed =>
        Timestamp[f] <= Timestamp[r]
  <2> SUFFICES ASSUME NEW f \in flushed, NEW r \in File, written'[r] > 0, r \notin flushed
               PROVE  Timestamp[f] <= Timestamp[r]
    OBVIOUS
  <2>1. CASE written[r] > 0
    BY <2>1 DEF OnceInv, OrderInv, FileInOrder, Buffered
  <2>2. CASE \E i \in front : r = Rec(i)
    BY <1>1, <1>6, <2>2
  <2> QED
    BY <1>5, <2>1, <2>2
<1>10. \A r \in File, i \in Indices :
         written'[r] > 0 /\ next <= i => Timestamp[r] <= Timestamp[Rec(i)]
  <2> SUFFICES ASSUME NEW r \in File, NEW i \in Indices, written'[r] > 0, next <= i
               PROVE  Timestamp[r] <= Timestamp[Rec(i)]
    OBVIOUS
  <2>1. CASE written[r] > 0
    BY <2>1 DEF OnceInv, OrderInv
  <2>2. ASSUME NEW k \in front, r = Rec(k) PROVE Timestamp[r] <= Timestamp[Rec(i)]
    <3>1. k \in Indices /\ k < next
      BY <1>1 DEF OnceInv, PlaceInv
    <3>2. k < i
      BY <1>3, <3>1
    <3> QED
      BY <2>2, <3>1, <3>2, IndexSorted DEF OnceInv
  <2> QED
    BY <1>5, <2>1, <2>2
<1>8. CASE UNCHANGED flushed
  <2>1. FileInOrder'
    BY <1>7, <1>8 DEF FileInOrder, Buffered
  <2> QED
    BY <1>1, <1>2, <1>3, <1>6, <1>8, <1>10, <2>1 DEF OnceInv, OrderInv
<1>9. ASSUME NEW last \in front,
             \A i \in front : i <= last,
             flushed' = flushed \cup
               {r \in File : written'[r] > 0 /\ Timestamp[r] <= Timestamp[Rec(last)]}
      PROVE  OrderInv'
  <2>1. last \in Indices /\ last \in p
    BY <1>1
  <2>2. ASSUME NEW f \in flushed', NEW i \in Indices, last < i,
               \A g \in flushed : Timestamp[g] <= Timestamp[Rec(i)]
        PROVE  Timestamp[f] <= Timestamp[Rec(i)]
    <3>1. Timestamp[Rec(last)] <= Timestamp[Rec(i)]
      BY <2>1, <2>2, IndexSorted DEF OnceInv
    <3> QED
      BY <1>4, <1>9, <2>1, <2>2, <3>1
  <2>3. \A f \in flushed', r \in Buffered' : Timestamp[f] <= Timestamp[r]
    <3> SUFFICES ASSUME NEW f \in flushed', NEW r \in Buffered'
                 PROVE  Timestamp[f] <= Timestamp[r]
      OBVIOUS
    <3>1. /\ r \in File /\ written'[r] > 0 /\ r \notin flushed
          /\ ~(Timestamp[r] <= Timestamp[Rec(last)])
      BY <1>9 DEF Buffered
    <3> QED
      BY <1>4, <1>7, <1>9, <2>1, <3>1
  <2>4. \A i \in waiting' \cup processed' : last < i
    <3>1. \A k \in w : last < k
      BY DEF InFront
    <3>2. \A i \in processed' : \E k \in w : k < i
      BY <1>1, ProcessBacklog DEF OnceInv, BacklogWaitsForImages
    <3> QED
      BY <1>1, <1>3, <2>1, <3>1, <3>2
  <2>5. \A f \in flushed', i \in waiting' \cup processed' :
          Timestamp[f] <= Timestamp[Rec(i)]
    BY <1>1, <1>6, <2>2, <2>4
  <2>6. \A f \in flushed', i \in Indices : next <= i => Timestamp[f] <= Timestamp[Rec(i)]
    <3>1. last < next
      BY <2>1 DEF OnceInv, PlaceInv
    <3>2. \A i \in Indices : next <= i => last < i
      BY <1>3, <2>1, <3>1
    <3> QED
      BY <2>2, <3>2 DEF OnceInv, OrderInv
  <2> QED
    BY <1>2, <1>3, <1>10, <2>3, <2>5, <2>6 DEF OrderInv, FileInOrder
<1> QED
  BY <1>8, <1>9 DEF ProcessPendingRecords

(* getNextImage writes the records it passes behind all that is flushed,   *)
(* and hands out an image that was not handed out before.                  *)
LEMMA GetNextImageStep ==
  ASSUME OnceInv, GetNextImage
  PROVE  PlaceInv' /\ BacklogWaitsForImages' /\ OrderInv'
<1>1. UNCHANGED <<creates, fileCreated, records, processed, flushed>>
  BY DEF GetNextImage, setup
<1>2. PICK j \in next..Len(records) :
        /\ written' = Create({Rec(k) : k \in next..(j - 1)})
        /\ \/ j < Len(records) /\ next' = j + 1 /\ waiting' = waiting \cup {j}
           \/ j = Len(records) /\ next' = j /\ UNCHANGED waiting
  BY DEF GetNextImage
<1>3. /\ Len(records) \in Nat /\ next \in Nat /\ j \in Nat /\ next <= j
      /\ Indices' = Indices /\ Indices \subseteq Nat
      /\ waiting \subseteq Indices /\ processed \subseteq Indices
  BY <1>1 DEF OnceInv, TypeInv, TypeOK, Indices
<1>4. \A i : Rec(i)' = Rec(i)
  BY <1>1 DEF Rec
<1>5. /\ waiting' \subseteq waiting \cup {j} /\ waiting \subseteq waiting'
      /\ next <= next' /\ (j \in waiting' => j \in waiting \/ j \in Indices)
      /\ j \in waiting' => j < next' \/ j \in waiting
  BY <1>2, <1>3 DEF Indices
<1>6. PlaceInv'
  <2>1. \A i \in waiting \cup processed : i < next
    BY DEF OnceInv, PlaceInv
  <2>2. j \notin processed
    BY <1>3, <2>1
  <2>3. waiting' \cap processed' = {}
    BY <1>1, <1>5, <2>2 DEF OnceInv, PlaceInv
  <2>4. next' \in Nat /\ \A i \in waiting' \cup processed' : i < next'
    BY <1>1, <1>2, <1>3, <1>5, <2>1
  <2> QED
    BY <1>1, <2>3, <2>4 DEF OnceInv, PlaceInv
<1>7. BacklogWaitsForImages'
  BY <1>1, <1>5 DEF OnceInv, BacklogWaitsForImages
<1>8. \A f \in flushed, i \in Indices : next <= i => Timestamp[f] <= Timestamp[Rec(i)]
  BY <1>1 DEF OnceInv, OrderInv
<1>9. FileInOrder'
  <2> SUFFICES ASSUME NEW f \in flushed, NEW r \in File, written'[r] > 0, r \notin flushed
               PROVE  Timestamp[f] <= Timestamp[r]
    BY <1>1 DEF FileInOrder, Buffered
  <2>1. CASE written[r] > 0
    BY <2>1 DEF OnceInv, OrderInv, FileInOrder, Buffered
  <2>2. CASE r \in {Rec(k) : k \in next..(j - 1)}
    <3>1. PICK k \in next..(j - 1) : r = Rec(k)
      BY <2>2
    <3>2. k \in Indices /\ next <= k
      BY <1>3, <3>1 DEF Indices
    <3> QED
      BY <1>8, <3>1, <3>2
  <2> QED
    BY <1>2, <2>1, <2>2, CreateType DEF OnceInv, TypeInv
<1>10. \A f \in flushed, i \in waiting' \cup processed' : Timestamp[f] <= Timestamp[Rec(i)]
  <2>1. \A f \in flushed, i \in waiting \cup processed : Timestamp[f] <= Timestamp[Rec(i)]
    BY DEF OnceInv, OrderInv
  <2> QED
    BY <1>1, <1>3, <1>5, <1>8, <2>1
<1>11. next' \in Nat /\ \A i \in Indices : next' <= i => next <= i
  BY <1>2, <1>3
<1>13. \A r \in File, i \in Indices :
         written'[r] > 0 /\ next' <= i => Timestamp[r] <= Timestamp[Rec(i)]
  <2> SUFFICES ASSUME NEW r \in File, NEW i \in Indices, written'[r] > 0, next' <= i
               PROVE  Timestamp[r] <= Timestamp[Rec(i)]
    OBVIOUS
  <2>1. CASE written[r] > 0
    BY <1>11, <2>1 DEF OnceInv, OrderInv
  <2>2. CASE r \in {Rec(k) : k \in next..(j - 1)}
    <3>1. PICK k \in next..(j - 1) : r = Rec(k)
      BY <2>2
    <3>2. k \in Indices /\ k < i
      BY <1>2, <1>3, <3>1 DEF Indices
    <3> QED
      BY <3>1, <3>2, IndexSorted DEF OnceInv
  <2> QED
    BY <1>2, <2>1, <2>2, CreateType DEF OnceInv, TypeInv
<1>12. OrderInv'
  BY <1>1, <1>3, <1>4, <1>8, <1>9, <1>10, <1>11, <1>13 DEF OnceInv, OrderInv
<1> QED
  BY <1>6, <1>7, <1>12

(* Every step keeps the invariant when createOutputFile is called once.    *)
LEMMA OnceStep ==
  ASSUME MaxCreates = 1, OnceInv, [Next]_vars
  PROVE  OnceInv'
<1>0. TypeInv'
  BY TypeStep DEF OnceInv
<1>t. /\ \A i : records' = records => Rec(i)' = Rec(i)
      /\ records' = records => Indices' = Indices
  BY DEF Rec, Indices
<1>1. CASE UNCHANGED vars
  BY <1>0, <1>1, <1>t DEF OnceInv, PlaceInv, BacklogWaitsForImages, OrderInv, FileInOrder,
                          Buffered, vars
<1>2. CASE NeedRecordMetadata
  BY <1>0, <1>2, <1>t DEF OnceInv, PlaceInv, BacklogWaitsForImages, OrderInv, FileInOrder,
                          Buffered, NeedRecordMetadata
<1>3. CASE CreateOutputFileFails
  <2>1. /\ creates = 0 /\ creates' = 1 /\ Indices = {} /\ flushed = {}
        /\ waiting = {} /\ processed = {}
        /\ UNCHANGED <<records, flushed, waiting, processed, written>>
    BY <1>3 DEF CreateOutputFileFails, OnceInv, PlaceInv, OrderInv, TypeInv, TypeOK, Indices
  <2> QED
    BY <1>0, <1>t, <2>1 DEF OnceInv, PlaceInv, BacklogWaitsForImages, OrderInv, FileInOrder
<1>4. CASE CreateOutputFile
  <2>1. /\ creates = 0 /\ creates' = 1 /\ Indices = {} /\ records = <<>>
        /\ waiting = {} /\ processed = {}
        /\ flushed' = {} /\ UNCHANGED <<waiting, processed>>
        /\ records' = <<>> \o Selected
    <3>1. creates = 0 /\ creates' = 1
      BY <1>4 DEF CreateOutputFile, OnceInv, TypeInv, TypeOK
    <3>2. records = <<>> /\ Indices = {}
      BY <3>1 DEF OnceInv, PlaceInv, Indices
    <3>3. waiting = {} /\ processed = {}
      BY <3>2 DEF OnceInv, TypeInv, TypeOK
    <3> QED
      BY <1>4, <3>1, <3>2, <3>3 DEF CreateOutputFile
  <2>2. records' = Selected
    BY <2>1, FilterAssumption
  <2>3. ASSUME NEW r \in File, NEW i \in Indices', written'[r] > 0
        PROVE  Timestamp[r] <= Timestamp[Rec(i)']
    <3>1. r \in PreRoll
      BY <1>4, <2>3 DEF CreateOutputFile
    <3>2. i + 1 \in 1..Len(Selected) /\ Rec(i)' = Selected[i + 1]
      BY <2>2, FilterAssumption DEF Indices, Rec
    <3>3. Selected[i + 1] \in File /\ r < Selected[i + 1]
      BY <3>1, <3>2, FilterAssumption
    <3> QED
      BY <3>2, <3>3, FilterAssumption
  <2> QED
    BY <1>0, <2>1, <2>2, <2>3 DEF OnceInv, PlaceInv, BacklogWaitsForImages, OrderInv, FileInOrder
<1>5. CASE GetNextImage
  BY <1>0, <1>5, GetNextImageStep DEF OnceInv
<1>6. ASSUME NEW i \in Indices, RejectImage(i) PROVE OnceInv'
  BY <1>0, <1>6, <1>t DEF OnceInv, PlaceInv, BacklogWaitsForImages, OrderInv, FileInOrder,
                          Buffered, RejectImage, setup
<1>p. ASSUME NEW w \in SUBSET Indices, NEW p \in SUBSET Indices, w \cap p = {},
             w \cup p \subseteq waiting \cup processed, ProcessPendingRecords(w, p),
             UNCHANGED <<setup, next>>, Indices # {}
      PROVE  OnceInv'
  <2>1. /\ UNCHANGED <<creates, fileCreated, records, next>>
        /\ creates # 0
    BY <1>p DEF setup, OnceInv, PlaceInv, TypeInv, TypeOK, Indices
  <2>2. OrderInv'
    BY <1>p, <2>1, ProcessOrder
  <2>3. BacklogWaitsForImages' /\ waiting' = w /\ processed' \subseteq p
    BY <1>p, ProcessBacklog DEF OnceInv
  <2>4. PlaceInv'
    BY <1>p, <2>1, <2>3 DEF OnceInv, PlaceInv
  <2> QED
    BY <1>0, <2>2, <2>3, <2>4 DEF OnceInv
<1>7. ASSUME NEW i \in Indices, WriteProcessedImage(i) PROVE OnceInv'
  <2> DEFINE w == waiting \ {i}
             p == processed \cup {i}
  <2>1. /\ ProcessPendingRecords(w, p) /\ UNCHANGED <<setup, next>> /\ i \in waiting
    BY <1>7 DEF WriteProcessedImage
  <2>2. /\ w \in SUBSET Indices /\ p \in SUBSET Indices /\ w \cap p = {}
        /\ w \cup p \subseteq waiting \cup processed
    BY <2>1 DEF OnceInv, PlaceInv, TypeInv, TypeOK
  <2> HIDE DEF w, p
  <2> QED
    BY <1>p, <2>1, <2>2
<1>8. ASSUME NEW i \in Indices, DiscardRecord(i) PROVE OnceInv'
  <2> DEFINE w == waiting \ {i}
  <2>1. /\ ProcessPendingRecords(w, processed) /\ UNCHANGED <<setup, next>> /\ i \in waiting
    BY <1>8 DEF DiscardRecord
  <2>2. /\ w \in SUBSET Indices /\ processed \in SUBSET Indices /\ w \cap processed = {}
        /\ w \cup processed \subseteq waiting \cup processed
    BY <2>1 DEF OnceInv, PlaceInv, TypeInv, TypeOK
  <2> HIDE DEF w
  <2> QED
    BY <1>p, <2>1, <2>2
<1>9. CASE CloseFile
  <2>1. /\ waiting = {} /\ processed = {} /\ fileCreated' = FALSE
        /\ UNCHANGED <<creates, records, next, waiting, processed, written>>
        /\ \/ flushed' = flushed
           \/ fileCreated /\ flushed' = {r \in File : written[r] > 0}
    BY <1>9 DEF CloseFile
  <2>2. creates = 0 => flushed' = {}
    BY <2>1 DEF OnceInv, PlaceInv, OrderInv
  <2>3. FileInOrder'
    BY <2>1 DEF OnceInv, OrderInv, FileInOrder, Buffered
  <2> QED
    BY <1>0, <2>1, <2>2, <2>3, <1>t DEF OnceInv, PlaceInv, BacklogWaitsForImages, OrderInv
<1>10. CASE GetNextImageUnplayed
  <2>1. /\ next' = Len(records) /\ UNCHANGED setup
        /\ UNCHANGED <<waiting, processed, written, flushed>>
    BY <1>10 DEF GetNextImageUnplayed
  <2>2. UNCHANGED <<creates, fileCreated, records>> /\ Indices' = Indices
    BY <2>1 DEF setup, Indices
  <2>3. \A i \in Indices : i < next' /\ ~(next' <= i)
    BY <2>1 DEF OnceInv, TypeInv, TypeOK, Indices
  <2>4. waiting \subseteq Indices /\ processed \subseteq Indices
    BY DEF OnceInv, TypeInv, TypeOK
  <2> QED
    BY <1>0, <1>t, <2>1, <2>2, <2>3, <2>4 DEF OnceInv, PlaceInv, BacklogWaitsForImages,
                                             OrderInv, FileInOrder, Buffered
<1> QED
  BY <1>1, <1>2, <1>3, <1>4, <1>5, <1>6, <1>7, <1>8, <1>9, <1>10 DEF Next

(* The inductive invariant of a filter whose output is created once. *)
LEMMA OnceInvHolds ==
  ASSUME MaxCreates = 1
  PROVE  Spec => []OnceInv
<1>1. Init => OnceInv
  BY InitType DEF Init, OnceInv, PlaceInv, BacklogWaitsForImages, OrderInv, FileInOrder
<1>2. OnceInv /\ [Next]_vars => OnceInv'
  BY OnceStep
<1> QED
  BY <1>1, <1>2, PTL DEF Spec

(* The throttled writer never puts a record in the file that belongs       *)
(* behind one still in memory, in whatever order the program returns or    *)
(* discards images (OssAsyncImageFilter.cpp:183-223).                      *)
THEOREM OutputInOrder ==
  ASSUME MaxCreates = 1
  PROVE  Spec => []FileInOrder
<1>1. OnceInv => FileInOrder
  BY DEF OnceInv, OrderInv
<1> QED
  BY <1>1, OnceInvHolds, PTL

(* The backlog never holds a record back without an image that is still    *)
(* out in front of it, so once every image is returned or discarded the    *)
(* file can be closed (OssAsyncImageFilter.cpp:207-231).                   *)
THEOREM BacklogNeverStuck ==
  ASSUME MaxCreates = 1
  PROVE  Spec => []BacklogWaitsForImages
<1>1. OnceInv => BacklogWaitsForImages
  BY DEF OnceInv
<1> QED
  BY <1>1, OnceInvHolds, PTL

-----------------------------------------------------------------------------
(* The records neither read nor gone elsewhere than to the writer: those   *)
(* not read yet, out, back, discarded or read for no copier.               *)
Elsewhere == waiting \cup processed \cup discarded \cup passedOver

(* Where each selected record is: in one of these places, or written       *)
(* exactly once.                                                           *)
CountInv ==
  /\ \A i \in Indices : Rec(i) \notin Unreadable =>
       written[Rec(i)] = IF next <= i \/ i \in Elsewhere THEN 0 ELSE 1
  /\ \A i \in discarded \cup passedOver : i < next
  /\ (discarded \cup passedOver) \cap (waiting \cup processed) = {}

(* While a file is open there are copiers, and no record was read without. *)
OpenInv == fileCreated => copiers # 0 /\ passedOver = {}

CompleteInv == OnceInv /\ CountInv /\ OpenInv

(* A record of the file has one index in the filter. *)
LEMMA RecInjective ==
  ASSUME TypeInv, PlaceInv, NEW i \in Indices, NEW j \in Indices, Rec(i) = Rec(j)
  PROVE  i = j
<1>1. records = Selected /\ Len(records) \in Nat
  BY DEF PlaceInv, Indices, TypeInv, TypeOK
<1>2. /\ i + 1 \in 1..Len(Selected) /\ j + 1 \in 1..Len(Selected)
      /\ Rec(i) = Selected[i + 1] /\ Rec(j) = Selected[j + 1]
      /\ i \in Nat /\ j \in Nat
  BY <1>1 DEF Indices, Rec
<1>3. Rec(i) \in Nat
  BY RecType, FilterAssumption DEF TypeInv, File
<1>4. ASSUME NEW a \in 1..Len(Selected), NEW b \in 1..Len(Selected), a < b
      PROVE  Selected[a] < Selected[b]
  BY <1>4, FilterAssumption
<1>5. \A n \in Nat : ~(n < n)
  OBVIOUS
<1>6. ~(i + 1 < j + 1)
  BY <1>2, <1>3, <1>4, <1>5
<1>7. ~(j + 1 < i + 1)
  BY <1>2, <1>3, <1>4, <1>5
<1> QED
  BY <1>2, <1>6, <1>7

(* Writing the records at a set of indices counts up there and nowhere     *)
(* else.                                                                   *)
LEMMA CreateCounts ==
  ASSUME TypeInv, PlaceInv, NEW T \in SUBSET Indices, NEW i \in Indices,
         Rec(i) \notin Unreadable
  PROVE  Create({Rec(k) : k \in T})[Rec(i)] = written[Rec(i)] + (IF i \in T THEN 1 ELSE 0)
<1> DEFINE S == {Rec(k) : k \in T}
<1>1. Rec(i) \in File /\ written[Rec(i)] \in Nat
  BY RecType DEF TypeInv, TypeOK
<1>2. Rec(i) \in S <=> i \in T
  BY RecInjective
<1> HIDE DEF S
<1>3. Create(S)[Rec(i)] = IF Rec(i) \in S THEN written[Rec(i)] + 1 ELSE written[Rec(i)]
  BY <1>1 DEF Create
<1> QED
  BY <1>1, <1>2, <1>3 DEF S

(* getNextImage writes the records it passes once, and hands out an image  *)
(* that is not written.                                                    *)
LEMMA GetNextImageCounts ==
  ASSUME OnceInv, CountInv, GetNextImage
  PROVE  CountInv'
<1>1. UNCHANGED <<records, processed, discarded, passedOver>>
  BY DEF GetNextImage, setup
<1>2. PICK j \in next..Len(records) :
        /\ written' = Create({Rec(k) : k \in next..(j - 1)})
        /\ \/ j < Len(records) /\ next' = j + 1 /\ waiting' = waiting \cup {j}
           \/ j = Len(records) /\ next' = j /\ UNCHANGED waiting
  BY DEF GetNextImage
<1>3. /\ Len(records) \in Nat /\ next \in Nat /\ j \in Nat /\ next <= j
      /\ Indices' = Indices /\ Indices \subseteq Nat
      /\ Elsewhere' = Elsewhere \cup waiting' /\ waiting \subseteq Elsewhere
      /\ Elsewhere \subseteq Indices
  BY <1>1, <1>2 DEF OnceInv, TypeInv, TypeOK, Indices, Elsewhere
<1>4. \A i \in Elsewhere : i < next
  BY DEF OnceInv, PlaceInv, CountInv, Elsewhere
<1>5. next..(j - 1) \in SUBSET Indices
  BY <1>3 DEF Indices
<1>6. ASSUME NEW i \in Indices, Rec(i) \notin Unreadable
      PROVE  written'[Rec(i)] =
               IF next' <= i \/ i \in Elsewhere' THEN 0 ELSE 1
  <2>1. written'[Rec(i)] = written[Rec(i)] + (IF i \in next..(j - 1) THEN 1 ELSE 0)
    BY <1>2, <1>5, <1>6, CreateCounts DEF OnceInv
  <2>2. written[Rec(i)] =
          IF next <= i \/ i \in Elsewhere THEN 0 ELSE 1
    BY <1>6 DEF CountInv
  <2>3. i \in Nat /\ i < Len(records)
    BY <1>3 DEF Indices
  <2>4. CASE next <= i
    <3>1. i \notin Elsewhere
      BY <1>3, <1>4, <2>3, <2>4
    <3>2. written'[Rec(i)] = IF i < j THEN 1 ELSE 0
      BY <1>3, <2>1, <2>2, <2>3, <2>4
    <3>3. i < j => ~(next' <= i) /\ i \notin waiting'
      BY <1>2, <1>3, <2>3, <3>1
    <3>4. ~(i < j) => next' <= i \/ i \in waiting'
      BY <1>2, <1>3, <2>3
    <3> QED
      BY <1>3, <3>1, <3>2, <3>3, <3>4
  <2>5. CASE i < next
    <3>1. written'[Rec(i)] = IF i \in Elsewhere THEN 0 ELSE 1
      BY <1>3, <2>1, <2>2, <2>3, <2>5
    <3>2. ~(next' <= i) /\ (i \in waiting' <=> i \in waiting)
      BY <1>2, <1>3, <2>3, <2>5
    <3> QED
      BY <1>3, <3>1, <3>2
  <2> QED
    BY <1>3, <2>3, <2>4, <2>5
<1>7. \A i : Rec(i)' = Rec(i)
  BY <1>1 DEF Rec
<1>8. \A i \in discarded \cup passedOver : i < next'
  <2>1. next' \in Nat /\ next <= next'
    BY <1>2, <1>3
  <2>2. ASSUME NEW i \in Elsewhere PROVE i < next'
    <3>1. i < next /\ i \in Nat
      BY <1>3, <1>4
    <3> QED
      BY <1>3, <2>1, <3>1
  <2> QED
    BY <2>2 DEF Elsewhere
<1>9. (discarded \cup passedOver) \cap (waiting' \cup processed) = {}
  <2>1. j \notin discarded \cup passedOver
    BY <1>3, <1>4 DEF Elsewhere
  <2>2. (discarded \cup passedOver) \cap (waiting \cup processed) = {}
    BY DEF CountInv
  <2>3. waiting' \subseteq waiting \cup {j}
    BY <1>2
  <2> QED
    BY <2>1, <2>2, <2>3
<1> QED
  BY <1>1, <1>3, <1>6, <1>7, <1>8, <1>9 DEF CountInv

(* The records of p in front of the images still out are written; w and p  *)
(* and the discarded ones d share what was out or back before.             *)
LEMMA ProcessCounts ==
  ASSUME OnceInv, CountInv, NEW w, NEW p, ProcessPendingRecords(w, p),
         w \cap p = {}, w \cup p \subseteq waiting \cup processed,
         w \cup p \cup discarded' = waiting \cup processed \cup discarded,
         discarded' \cap (w \cup p) = {}, UNCHANGED <<records, next, passedOver>>
  PROVE  CountInv'
<1> DEFINE front == InFront(w, p)
<1>1. /\ waiting' = w /\ processed' = p \ front /\ front \subseteq p
      /\ written' = Create({Rec(i) : i \in front})
  BY DEF ProcessPendingRecords, InFront
<1>2. /\ Indices' = Indices /\ \A i : Rec(i)' = Rec(i)
  BY DEF Rec, Indices
<1>3. \A i \in Elsewhere : i \in Indices /\ i < next
  BY DEF OnceInv, PlaceInv, CountInv, TypeInv, TypeOK, Elsewhere
<1>4. front \in SUBSET Indices
  BY <1>1, <1>3 DEF Elsewhere
<1>5. next \in Nat /\ Indices \subseteq Nat
  BY DEF OnceInv, TypeInv, TypeOK, Indices
<1> HIDE DEF front
<1>6. ASSUME NEW i \in Indices, Rec(i) \notin Unreadable
      PROVE  written'[Rec(i)] =
               IF next <= i \/ i \in Elsewhere' THEN 0 ELSE 1
  <2>1. written'[Rec(i)] = written[Rec(i)] + (IF i \in front THEN 1 ELSE 0)
    BY <1>1, <1>4, <1>6, CreateCounts DEF OnceInv
  <2>2. written[Rec(i)] = IF next <= i \/ i \in w \cup p \cup discarded' \cup passedOver THEN 0 ELSE 1
    BY <1>6 DEF CountInv, Elsewhere
  <2>3. i \in front => i < next /\ i \in p /\ i \notin w \cup discarded' \cup passedOver
    BY <1>1, <1>3 DEF CountInv, Elsewhere
  <2>4. i \in front => ~(next <= i)
    BY <1>5, <2>3
  <2> QED
    BY <1>1, <2>1, <2>2, <2>3, <2>4 DEF Elsewhere
<1>7. \A i \in discarded' \cup passedOver : i < next
  BY <1>3 DEF Elsewhere
<1>8. (discarded' \cup passedOver) \cap (waiting' \cup processed') = {}
  BY <1>1 DEF CountInv
<1> QED
  BY <1>2, <1>6, <1>7, <1>8 DEF CountInv

(* Every step keeps count of the selected records, and gives up the        *)
(* copiers only with the file.                                             *)
LEMMA CompleteStep ==
  ASSUME MaxCreates = 1, CompleteInv, [Next]_vars
  PROVE  CompleteInv'
<1>0. OnceInv'
  BY OnceStep DEF CompleteInv
<1>t. /\ \A i : records' = records => Rec(i)' = Rec(i)
      /\ records' = records => Indices' = Indices
  BY DEF Rec, Indices
<1>1. CASE UNCHANGED vars
  BY <1>0, <1>1, <1>t DEF CompleteInv, CountInv, OpenInv, Elsewhere, vars
<1>2. CASE NeedRecordMetadata
  BY <1>0, <1>2, <1>t DEF CompleteInv, CountInv, OpenInv, Elsewhere, NeedRecordMetadata
<1>3. CASE CreateOutputFileFails
  <2>1. /\ creates = 0 /\ records' = <<>> /\ fileCreated' = FALSE
        /\ UNCHANGED <<waiting, processed, discarded>>
        /\ passedOver' = passedOver \/ passedOver' = {}
    BY <1>3 DEF CreateOutputFileFails, CompleteInv, OnceInv, PlaceInv, TypeInv, TypeOK
  <2>2. Indices = {} /\ Indices' = {}
    BY <1>3, <2>1 DEF Indices, CreateOutputFileFails
  <2>3. discarded' = {} /\ passedOver' = {}
    BY <2>1, <2>2 DEF CompleteInv, OnceInv, TypeInv, TypeOK
  <2> QED
    BY <1>0, <2>1, <2>2, <2>3 DEF CompleteInv, CountInv, OpenInv
<1>4. CASE CreateOutputFile
  <2>1. creates = 0 /\ creates' = 1
    BY <1>4 DEF CreateOutputFile, CompleteInv, OnceInv, TypeInv, TypeOK
  <2>2. records = <<>> /\ Indices = {}
    BY <2>1 DEF CompleteInv, OnceInv, PlaceInv, Indices
  <2>3. Elsewhere' = {} /\ next' = 0
    BY <1>4, <2>2 DEF CreateOutputFile, CompleteInv, OnceInv, TypeInv, TypeOK, Elsewhere
  <2>4. records' = Selected
    BY <1>4, <2>2, FilterAssumption DEF CreateOutputFile
  <2>5. ASSUME NEW i \in Indices' PROVE written'[Rec(i)'] = 0 /\ 0 <= i
    <3>1. i + 1 \in 1..Len(Selected) /\ Rec(i)' = Selected[i + 1] /\ i \in Nat
      BY <2>4, FilterAssumption DEF Indices, Rec
    <3>2. Selected[i + 1] \in File /\ Selected[i + 1] \in Nat
      BY <3>1, FilterAssumption DEF File
    <3>3. Selected[i + 1] \notin PreRoll
      BY <3>1, <3>2, FilterAssumption
    <3> QED
      BY <1>4, <3>1, <3>2, <3>3 DEF CreateOutputFile
  <2>6. CountInv'
    BY <2>3, <2>5 DEF CountInv, Elsewhere
  <2>7. OpenInv'
    BY <1>4 DEF CreateOutputFile, OpenInv, CompleteInv, OnceInv, TypeInv, TypeOK
  <2> QED
    BY <1>0, <2>6, <2>7 DEF CompleteInv
<1>5. CASE GetNextImage
  <2>1. UNCHANGED <<fileCreated, copiers, passedOver>>
    BY <1>5 DEF GetNextImage, setup
  <2> QED
    BY <1>0, <1>5, <2>1, GetNextImageCounts DEF CompleteInv, OpenInv
<1>10. CASE GetNextImageUnplayed
  <2>1. /\ copiers = 0 /\ next' = Len(records)
        /\ passedOver' = passedOver \cup (next..(Len(records) - 1))
        /\ UNCHANGED <<fileCreated, copiers, records, waiting, processed, discarded, written>>
    BY <1>10 DEF GetNextImageUnplayed, setup
  <2>2. /\ Len(records) \in Nat /\ next \in 0..Len(records) /\ Indices = 0..(Len(records) - 1)
        /\ \A i \in Elsewhere : i < next /\ i \in Indices
    BY DEF CompleteInv, OnceInv, PlaceInv, CountInv, Elsewhere, TypeInv, TypeOK, Indices
  <2>3. ASSUME NEW i \in Indices
        PROVE  next' <= i \/ i \in Elsewhere' <=> next <= i \/ i \in Elsewhere
    BY <2>1, <2>2 DEF Elsewhere
  <2>4. \A i \in discarded' \cup passedOver' : i < next'
    BY <2>1, <2>2 DEF Elsewhere
  <2>5. (discarded' \cup passedOver') \cap (waiting' \cup processed') = {}
    BY <2>1, <2>2 DEF Elsewhere, CompleteInv, CountInv
  <2>6. CountInv'
    BY <1>t, <2>1, <2>3, <2>4, <2>5 DEF CompleteInv, CountInv
  <2> QED
    BY <1>0, <2>1, <2>6 DEF CompleteInv, OpenInv
<1>6. ASSUME NEW i \in Indices, RejectImage(i) PROVE CompleteInv'
  BY <1>0, <1>6, <1>t DEF CompleteInv, CountInv, OpenInv, Elsewhere, RejectImage, setup
<1>7. ASSUME NEW i \in Indices, WriteProcessedImage(i) PROVE CompleteInv'
  <2> DEFINE w == waiting \ {i}
             p == processed \cup {i}
  <2>1. /\ ProcessPendingRecords(w, p) /\ UNCHANGED <<setup, next, discarded, passedOver>> /\ i \in waiting
    BY <1>7 DEF WriteProcessedImage
  <2>2. /\ w \cap p = {} /\ w \cup p = waiting \cup processed
    BY <2>1 DEF CompleteInv, OnceInv, PlaceInv
  <2>3. UNCHANGED <<records, next, fileCreated, copiers, discarded, passedOver>>
    BY <2>1 DEF setup
  <2>4. discarded \cap (waiting \cup processed) = {}
    BY DEF CompleteInv, CountInv
  <2> HIDE DEF w, p
  <2>5. CountInv'
    BY <2>1, <2>2, <2>3, <2>4, ProcessCounts DEF CompleteInv
  <2> QED
    BY <1>0, <2>3, <2>5 DEF CompleteInv, OpenInv
<1>8. ASSUME NEW i \in Indices, DiscardRecord(i) PROVE CompleteInv'
  <2> DEFINE w == waiting \ {i}
  <2>1. /\ ProcessPendingRecords(w, processed) /\ i \in waiting
        /\ UNCHANGED <<setup, next, passedOver>>
        /\ discarded' = discarded \cup {i}
    BY <1>8 DEF DiscardRecord
  <2>2. UNCHANGED <<records, next, fileCreated, copiers, passedOver>>
    BY <2>1 DEF setup
  <2>3. discarded \cap (waiting \cup processed) = {} /\ waiting \cap processed = {}
    BY DEF CompleteInv, CountInv, OnceInv, PlaceInv
  <2>4. /\ w \cap processed = {} /\ discarded' \cap (w \cup processed) = {}
        /\ w \cup processed \subseteq waiting \cup processed
        /\ w \cup processed \cup discarded' = waiting \cup processed \cup discarded
    BY <2>1, <2>3
  <2> HIDE DEF w
  <2>5. CountInv'
    BY <2>1, <2>2, <2>4, ProcessCounts DEF CompleteInv
  <2> QED
    BY <1>0, <2>2, <2>5 DEF CompleteInv, OpenInv
<1>9. CASE CloseFile
  <2>1. /\ fileCreated' = FALSE
        /\ UNCHANGED <<records, next, waiting, processed, discarded, passedOver, written>>
    BY <1>9 DEF CloseFile
  <2>2. CountInv'
    BY <2>1, <1>t DEF CompleteInv, CountInv, Elsewhere
  <2> QED
    BY <1>0, <2>1, <2>2 DEF CompleteInv, OpenInv
<1> QED
  BY <1>1, <1>2, <1>3, <1>4, <1>5, <1>6, <1>7, <1>8, <1>9, <1>10 DEF Next

LEMMA CompleteInvHolds ==
  ASSUME MaxCreates = 1
  PROVE  Spec => []CompleteInv
<1>1. Init => CompleteInv
  <2> SUFFICES ASSUME Init PROVE CompleteInv
    OBVIOUS
  <2>1. OnceInv
    BY InitType DEF Init, OnceInv, PlaceInv, BacklogWaitsForImages, OrderInv, FileInOrder
  <2>2. Indices = {} /\ Elsewhere = {} /\ fileCreated = FALSE
    BY DEF Init, Indices, Elsewhere
  <2> QED
    BY <2>1, <2>2 DEF CompleteInv, CountInv, OpenInv, Elsewhere
<1>2. CompleteInv /\ [Next]_vars => CompleteInv'
  BY CompleteStep
<1> QED
  BY <1>1, <1>2, PTL DEF Spec

(* Every record the filter has passed is written once, or its image is     *)
(* out, waits in the backlog or was discarded, and never two of these,     *)
(* whatever the program returns in whatever order, before the file is      *)
(* closed or after (OssAsyncImageFilter.cpp:147-231); after closeFile a    *)
(* record may also be read for no copier.                                  *)
THEOREM EveryRecordAccountedFor ==
  ASSUME MaxCreates = 1
  PROVE  Spec => []NothingLost
<1>1. CompleteInv => NothingLost
  <2> SUFFICES ASSUME CompleteInv, NEW i \in Indices, i < next, Rec(i) \notin Unreadable,
                      i \notin passedOver
               PROVE  IF written[Rec(i)] = 1
                        THEN i \notin waiting \cup processed \cup discarded
                        ELSE /\ written[Rec(i)] = 0
                             /\ i \in waiting \cup processed \cup discarded
                             /\ ~(i \in waiting /\ i \in processed)
                             /\ ~(i \in discarded /\ i \in waiting \cup processed)
    BY DEF NothingLost
  <2>1. ~(next <= i)
    BY DEF CompleteInv, OnceInv, TypeInv, TypeOK, Indices
  <2> QED
    BY <2>1 DEF CompleteInv, CountInv, OnceInv, PlaceInv, Elsewhere
<1> QED
  BY <1>1, CompleteInvHolds, PTL

(* closeFile leaves nothing behind: when it succeeds the file holds all    *)
(* that was passed to the writer, and every image handed out until then    *)
(* that was not discarded (OssAsyncImageFilter.cpp:225-236).               *)
THEOREM ClosedFileComplete ==
  ASSUME MaxCreates = 1
  PROVE  Spec => ClosedIsComplete
<1> DEFINE Complete ==
      /\ Buffered' = {}
      /\ \A i \in Indices : i < next /\ HasImage(i) => Rec(i) \in flushed' \/ i \in discarded
<1>1. ASSUME CompleteInv, [Next]_vars, closed', ~closed PROVE Complete
  <2>1. CloseFile /\ fileCreated /\ flushed' = {r \in File : written[r] > 0}
    BY <1>1 DEF Next, vars, NeedRecordMetadata, CreateOutputFileFails, CreateOutputFile,
                GetNextImage, GetNextImageUnplayed, RejectImage, WriteProcessedImage,
                DiscardRecord, CloseFile, setup
  <2>2. waiting = {} /\ processed = {} /\ passedOver = {} /\ written' = written
    BY <1>1, <2>1 DEF CloseFile, CompleteInv, OpenInv
  <2>3. Buffered' = {}
    BY <2>1, <2>2 DEF Buffered
  <2>4. ASSUME NEW i \in Indices, i < next, HasImage(i), i \notin discarded
        PROVE  Rec(i) \in flushed'
    <3>1. ~(next <= i) /\ Rec(i) \notin Unreadable /\ Rec(i) \in File
      BY <1>1, <2>4, RecType DEF CompleteInv, OnceInv, TypeInv, TypeOK, Indices, HasImage
    <3>2. written[Rec(i)] = 1
      BY <1>1, <2>2, <2>4, <3>1 DEF CompleteInv, CountInv, Elsewhere
    <3> QED
      BY <2>1, <3>1, <3>2
  <2> QED
    BY <2>3, <2>4
<1>2. CompleteInv /\ [Next]_vars => [closed' /\ ~closed => Complete]_vars
  BY <1>1
<1> QED
  BY <1>2, CompleteInvHolds, PTL DEF Spec, ClosedIsComplete
=============================================================================
