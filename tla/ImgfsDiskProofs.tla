-------------------------- MODULE ImgfsDiskProofs ---------------------------
(***************************************************************************)
(* The library write by write, for every table size, set of names,         *)
(* contents and resolutions, and any number of faults: an image whose      *)
(* insert was acknowledged is in the file, and the server's table is that  *)
(* of the file between two calls. The invariants say, for every step of a  *)
(* call, where its slot is: in memory, held by the stream, or in the file. *)
(***************************************************************************)
EXTENDS ImgfsDisk, ImgfsProofs

-----------------------------------------------------------------------------
(* Types.                                                                   *)

\* What is held: nothing, or one write.
Held == buffer # <<>> => buffer = <<buffer[1]>> /\ WriteOK(buffer[1])

Typed ==
    /\ TablesTyped
    /\ handle \in {"closed", "open", "done", "creating"}
    /\ Held
    /\ failed \in BOOLEAN /\ formed \in BOOLEAN
    /\ task.step \in {"idle", "slot", "header", "reread"} /\ task.i \in Slots
    /\ faults \in 0 .. MaxFaults

\* A write of each kind is one.
LEMMA WriteTypes ==
    ASSUME metadata \in [Slots -> Slot], header \in Header
    PROVE  /\ \A i \in Slots : SlotWrite(i) = <<SlotWrite(i)[1]>> /\ WriteOK(SlotWrite(i)[1])
           /\ HeaderWrite = <<HeaderWrite[1]>> /\ WriteOK(HeaderWrite[1])
           /\ TableWrite = <<TableWrite[1]>> /\ WriteOK(TableWrite[1])
           /\ \A blob \in Blob : ImageWrite(blob) = <<ImageWrite(blob)[1]>>
                                 /\ WriteOK(ImageWrite(blob)[1])
<1>1. \A i \in Slots : SlotWrite(i) = <<SlotWrite(i)[1]>> /\ WriteOK(SlotWrite(i)[1])
  BY DEF SlotWrite, WriteOK
<1>2. HeaderWrite = <<HeaderWrite[1]>> /\ WriteOK(HeaderWrite[1])
  BY DEF HeaderWrite, WriteOK
<1>3. TableWrite = <<TableWrite[1]>> /\ WriteOK(TableWrite[1])
  BY DEF TableWrite, WriteOK
<1>4. \A blob \in Blob : ImageWrite(blob) = <<ImageWrite(blob)[1]>>
                         /\ WriteOK(ImageWrite(blob)[1])
  BY DEF ImageWrite, WriteOK
<1> QED
  BY <1>1, <1>2, <1>3, <1>4

\* So is the header that lands on a slot.
LEMMA OverSlotType ==
    ASSUME disk_metadata \in [Slots -> Slot], NEW i \in Slots
    PROVE  /\ HeaderOverSlot(i) = <<HeaderOverSlot(i)[1]>> /\ WriteOK(HeaderOverSlot(i)[1])
           /\ HeaderOverSlot(i)[1].what = "slot"
<1>1. [disk_metadata[i] EXCEPT !.img_id = CAT_TXT] \in Slot
  BY NameAssumption DEF Slot, Metadata
<1> QED
  BY <1>1 DEF HeaderOverSlot, WriteOK

\* Fields of a task.
LEMMA TaskFields ==
    ASSUME NEW step, NEW i, NEW answer
    PROVE  /\ Task(step, i, answer).step = step /\ Task(step, i, answer).i = i
           /\ Task(step, i, answer).answer = answer
           /\ Idle.step = "idle" /\ Idle.i \in Slots
BY MaxFilesAssumption DEF Task, Idle, Slots

LEMMA AnswerFields ==
    ASSUME NEW call, NEW id, NEW err, NEW image, NEW listed
    PROVE  /\ Answer(call, id, err, image, listed).call = call
           /\ Answer(call, id, err, image, listed).id = id
           /\ Answer(call, id, err, image, listed).err = err
BY DEF Answer

LEMMA EmptyTyped == EmptyTable \in [Slots -> Slot] /\ EmptyHeader \in Header
<1>1. Unused \in Slot
  BY DEF Unused, Slot, Metadata, Zeros
<1> QED
  BY <1>1, MaxFilesAssumption, VersionAssumption DEF EmptyTable, EmptyHeader, Header

LEMMA FaultTyped == Typed /\ Fails => faults' \in 0 .. MaxFaults
BY FaultsAssumption DEF Typed, Fails

LEMMA DiskInitTyped == DiskInit => Typed
<1> SUFFICES ASSUME DiskInit PROVE Typed
  OBVIOUS
<1>1. 0 \in 0 .. MaxFaults /\ 0 \in Slots
  BY FaultsAssumption, MaxFilesAssumption DEF Slots
<1> QED
  BY <1>1, EmptyTyped DEF DiskInit, Init, Typed, TablesTyped, Held, Idle

-----------------------------------------------------------------------------
(* The stream, and the file around the calls.                               *)

LEMMA FlushTyped == Typed /\ Flush => Typed'
<1> SUFFICES ASSUME Typed, Flush PROVE Typed'
  OBVIOUS
<1> DEFINE w == buffer[1]
<1>1. WriteOK(w) /\ w.what \in {"image", "slot", "header", "table"}
  BY DEF Flush, Typed, Held, WriteOK
<1>2. data' \in Seq(Blob)
  BY <1>1 DEF Flush, WriteOK, Typed, TablesTyped
<1>3. disk_metadata' \in [Slots -> Slot]
  BY <1>1 DEF Flush, WriteOK, Typed, TablesTyped
<1>4. disk_header' \in Header
  BY <1>1 DEF Flush, WriteOK, Typed, TablesTyped
<1> QED
  BY <1>2, <1>3, <1>4 DEF Flush, Typed, TablesTyped, Held, memory

LEMMA LostTyped == Typed /\ Lost => data' \in Seq(Blob) /\ Held'
<1>1. NoBlob \in Blob
  BY DEF NoBlob, Blob, Resolutions
<1> QED
  BY <1>1 DEF Typed, TablesTyped, Lost, Held

LEMMA FailTyped == Typed /\ (FlushFails \/ Stop) => Typed'
<1> SUFFICES ASSUME Typed, FlushFails \/ Stop PROVE Typed'
  OBVIOUS
<1>1. data' \in Seq(Blob) /\ Held' /\ faults' \in 0 .. MaxFaults
      /\ UNCHANGED <<disk_metadata, disk_header, formed>>
  BY LostTyped, FaultTyped DEF FlushFails, Stop, Lost
<1>2. CASE FlushFails
  BY <1>1, <1>2 DEF FlushFails, Typed, TablesTyped, memory
<1>3. CASE Stop
  BY <1>1, <1>3, EmptyTyped, TaskFields DEF Stop, Typed, TablesTyped
<1> QED
  BY <1>2, <1>3

LEMMA TruncateTyped == Typed /\ Truncate => TablesTyped'
<1>1. <<>> \in Seq(Blob)
  OBVIOUS
<1> QED
  BY <1>1, EmptyTyped DEF Truncate, Typed, TablesTyped, memory

LEMMA AroundTyped ==
    ASSUME Typed,
           OpenFile \/ OpenFails \/ CloseFile \/ BeginCreate \/ CreateFails \/ EndCreate
    PROVE  Typed'
<1>1. CASE OpenFile \/ OpenFails
  BY <1>1 DEF OpenFile, OpenFails, Open, Aside, Typed, TablesTyped, Held, file, memory
<1>2. CASE CloseFile
  BY <1>2, EmptyTyped DEF CloseFile, Close, Forget, Typed, TablesTyped, Held, file
<1>3. CASE BeginCreate
  <2>1. TablesTyped'
    BY <1>3, TruncateTyped DEF BeginCreate
  <2>2. Held'
    BY <1>3, WriteTypes DEF BeginCreate, Held, Typed, TablesTyped
  <2> QED
    BY <1>3, <2>1, <2>2 DEF BeginCreate, Truncate, Typed
<1>4. CASE CreateFails
  <2>1. TablesTyped' /\ faults' \in 0 .. MaxFaults
    BY <1>4, TruncateTyped, FaultTyped DEF CreateFails
  <2> QED
    BY <1>4, <2>1 DEF CreateFails, Truncate, Typed, Held
<1>5. CASE EndCreate
  BY <1>5 DEF EndCreate, Typed, TablesTyped, Held, file, memory
<1> QED
  BY <1>1, <1>2, <1>3, <1>4, <1>5

-----------------------------------------------------------------------------
(* The calls. What each of the first steps does, in one form: the slot of   *)
(* the call in memory, and what is held.                                    *)

\* The calls that are over before they write: nothing happens to the tables, or
\* an EMPTY slot is taken in memory, or the process dies.
LEMMA ImmediateFacts ==
    ASSUME Typed, Immediate
    PROVE  /\ Aside
           /\ UNCHANGED file
           /\ ~(ret'.call = "insert" /\ ret'.err = "NONE")
           /\ \/ UNCHANGED <<memory, handle>>
              \/ UNCHANGED memory /\ Calling
              \/ /\ Calling /\ UNCHANGED header
                 /\ \E i \in Slots, slot \in Slot :
                       LowestFree(i) /\ metadata' = [metadata EXCEPT ![i] = slot]
              \/ Forget /\ buffer = <<>>
<1>0. metadata \in [Slots -> Slot] /\ data \in Seq(Blob)
  BY DEF Typed, TablesTyped
<1>1. Aside
  BY DEF Immediate
<1>2. CASE List
  BY <1>1, <1>2, AnswerFields DEF List
<1>3. CASE \E id \in Ids, c \in Contents :
             InsertFull(id) \/ InsertDuplicate(id, c) \/ InsertUndecodable(id, c)
  <2>1. PICK id \in Ids, c \in Contents :
             InsertFull(id) \/ InsertDuplicate(id, c) \/ InsertUndecodable(id, c)
    BY <1>3
  <2>2. CASE InsertFull(id)
    BY <1>1, <2>2, AnswerFields DEF InsertFull, Returns
  <2>3. CASE InsertDuplicate(id, c)
    <3>1. PICK i \in Slots : LowestFree(i) /\ LeaveInMemory(i, Claimed(i, id, c))
      BY <2>3 DEF InsertDuplicate
    <3>2. Claimed(i, id, c) \in Slot
      BY <1>0, ClaimedType
    <3>3. metadata' = [metadata EXCEPT ![i] = Claimed(i, id, c)]
          /\ UNCHANGED <<header, file>>
      BY <3>1 DEF LeaveInMemory
    <3>4. Calling /\ ret'.err = "DUPLICATE_ID"
      BY <2>3, AnswerFields DEF InsertDuplicate, Returns
    <3> QED
      BY <1>1, <3>1, <3>2, <3>3, <3>4
  <2>4. CASE InsertUndecodable(id, c)
    <3>1. PICK i \in Slots : \E slot \in Deduped(i, id, c) :
              LowestFree(i) /\ LeaveInMemory(i, slot)
      BY <2>4 DEF InsertUndecodable
    <3>2. PICK slot \in Deduped(i, id, c) : LowestFree(i) /\ LeaveInMemory(i, slot)
      BY <3>1
    <3>3. slot \in Slot
      BY <1>0, DedupedType
    <3>4. metadata' = [metadata EXCEPT ![i] = slot] /\ UNCHANGED <<header, file>>
      BY <3>2 DEF LeaveInMemory
    <3>5. Calling /\ ret'.err = "IMGLIB"
      BY <2>4, AnswerFields DEF InsertUndecodable, Returns
    <3> QED
      BY <1>1, <3>2, <3>3, <3>4, <3>5
  <2> QED
    BY <2>1, <2>2, <2>3, <2>4
<1>4. CASE \E id \in Ids : DeleteRefused(id) \/ DeleteMissing(id) \/ ReadMissing(id)
  BY <1>1, <1>4, AnswerFields DEF DeleteRefused, DeleteMissing, ReadMissing, Returns
<1>5. CASE \E id \in Ids, r \in Resolutions : ReadInvalid(id, r) \/ ReadNoMemory(id, r)
  BY <1>1, <1>5, AnswerFields DEF ReadInvalid, ReadNoMemory, Returns
<1>6. CASE \E id \in Ids, r \in Resolutions : buffer = <<>> /\ ReadStored(id, r)
  <2>1. PICK id \in Ids, r \in Resolutions : ReadStored(id, r)
    BY <1>6
  <2>2. ret'.call = "read" /\ Calling /\ UNCHANGED <<memory, file>>
    BY <2>1, AnswerFields DEF ReadStored, Returns
  <2> QED
    BY <1>1, <2>2
<1>7. CASE \E id \in Ids, r \in Resolutions : buffer = <<>> /\ ReadResizeFails(id, r)
  <2>1. PICK id \in Ids, r \in Resolutions : buffer = <<>> /\ ReadResizeFails(id, r)
    BY <1>7
  <2>2. ret'.call = "read"
    BY <2>1, AnswerFields DEF ReadResizeFails, Returns
  <2>3. (Calling /\ UNCHANGED <<memory, file>>) \/ Forget
    BY <2>1 DEF ReadResizeFails
  <2>4. UNCHANGED file
    BY <2>3 DEF Forget
  <2> QED
    BY <1>1, <2>1, <2>2, <2>3, <2>4
<1> QED
  BY <1>2, <1>3, <1>4, <1>5, <1>6, <1>7 DEF Immediate

LEMMA CountedType ==
    ASSUME Typed, NEW count \in 0 .. MaxFiles, Counted(count)
    PROVE  header' \in Header
<1>1. (header.version + 1) % VersionMod \in 0 .. VersionMod - 1
  BY VersionAssumption DEF Typed, TablesTyped, Header
<1> QED
  BY <1>1 DEF Counted, Header

\* An insert that will be acknowledged has its slot in memory, and is about to
\* write it; the image may be held.
LEMMA BeginInsertFacts ==
    ASSUME Typed, NEW id \in Ids, NEW c \in Contents,
           BeginShared(id, c) \/ BeginNew(id, c)
    PROVE  /\ Begins
           /\ header' \in Header
           /\ \/ UNCHANGED buffer
              \/ buffer = <<>> /\ Held' /\ buffer'[1].what = "image"
           /\ \E i \in Slots, slot \in Slot :
                 /\ slot.is_valid /\ slot.img_id = id
                 /\ metadata' = [metadata EXCEPT ![i] = slot]
                 /\ task' = Task("slot", i, Answer("insert", id, "NONE", NoBlob, {}))
<1>0. metadata \in [Slots -> Slot] /\ data \in Seq(Blob)
  BY DEF Typed, TablesTyped
<1>1. header' \in Header
  <2>1. header.nb_files + 1 \in 0 .. MaxFiles
    BY MaxFilesAssumption DEF BeginShared, BeginNew, Typed, TablesTyped, Header
  <2> QED
    BY <2>1, CountedType DEF BeginShared, BeginNew
<1>2. CASE BeginShared(id, c)
  <2>1. PICK i \in Slots : \E slot \in Deduped(i, id, c) :
          /\ metadata' = [metadata EXCEPT ![i] = slot]
          /\ task' = Task("slot", i, Answer("insert", id, "NONE", NoBlob, {}))
    BY <1>2 DEF BeginShared
  <2>2. PICK slot \in Deduped(i, id, c) :
          /\ metadata' = [metadata EXCEPT ![i] = slot]
          /\ task' = Task("slot", i, Answer("insert", id, "NONE", NoBlob, {}))
    BY <2>1
  <2>3. slot \in Slot /\ slot.is_valid /\ slot.img_id = id
    BY <1>0, DedupedType
  <2> QED
    BY <1>1, <1>2, <2>2, <2>3 DEF BeginShared
<1>3. CASE BeginNew(id, c)
  <2>1. PICK i \in Slots : \E slot \in Deduped(i, id, c) :
          /\ metadata' = [metadata EXCEPT ![i] = Placed(slot)]
          /\ task' = Task("slot", i, Answer("insert", id, "NONE", NoBlob, {}))
    BY <1>3 DEF BeginNew
  <2>2. PICK slot \in Deduped(i, id, c) :
          /\ metadata' = [metadata EXCEPT ![i] = Placed(slot)]
          /\ task' = Task("slot", i, Answer("insert", id, "NONE", NoBlob, {}))
    BY <2>1
  <2>3. slot \in Slot /\ slot.is_valid /\ slot.img_id = id
    BY <1>0, DedupedType
  <2>4. Placed(slot) \in Slot /\ Placed(slot).is_valid /\ Placed(slot).img_id = id
    BY <1>0, <2>3, UpdateFacts
  <2>5. [content |-> c, res |-> Orig] \in Blob
    BY DEF Blob, Resolutions
  <2>6. buffer = <<>> /\ buffer' = ImageWrite([content |-> c, res |-> Orig])
    BY <1>3 DEF BeginNew
  <2>7. buffer = <<>> /\ Held' /\ buffer'[1].what = "image"
    BY <2>5, <2>6 DEF Held, ImageWrite, WriteOK
  <2> QED
    BY <1>1, <1>3, <2>2, <2>4, <2>7 DEF BeginNew
<1> QED
  BY <1>2, <1>3

\* A delete has emptied its slot in memory and handed it to the stream.
LEMMA BeginDeleteFacts ==
    ASSUME Typed, NEW id \in Ids, BeginDelete(id)
    PROVE  /\ Begins
           /\ header' \in Header
           /\ buffer = <<>>
           /\ \E i \in Slots, slot \in Slot :
                 /\ metadata' = [metadata EXCEPT ![i] = slot]
                 /\ buffer' = <<[what |-> "slot", i |-> i, slot |-> slot]>>
                 /\ task' = Task("header", i, Answer("delete", id, "NONE", NoBlob, {}))
<1>0. metadata \in [Slots -> Slot] /\ data \in Seq(Blob)
  BY DEF Typed, TablesTyped
<1>1. header' \in Header
  <2>1. header.nb_files - 1 \in 0 .. MaxFiles
    BY MaxFilesAssumption DEF BeginDelete, Typed, TablesTyped, Header
  <2> QED
    BY <2>1, CountedType DEF BeginDelete
<1>2. PICK i \in Slots :
        /\ metadata' = [metadata EXCEPT ![i] = Emptied(metadata[i])]
        /\ buffer' = EmptiedWrite(i)
        /\ task' = Task("header", i, Answer("delete", id, "NONE", NoBlob, {}))
  BY DEF BeginDelete
<1>3. Emptied(metadata[i]) \in Slot
  BY <1>0, UpdateFacts
<1> QED
  BY <1>1, <1>2, <1>3 DEF BeginDelete, EmptiedWrite

\* A read that makes a derived image has handed it to the stream, and has its
\* place in memory.
LEMMA BeginResizeFacts ==
    ASSUME Typed, NEW id \in Ids, NEW r \in Derived, BeginResize(id, r)
    PROVE  /\ Begins
           /\ UNCHANGED header
           /\ buffer = <<>> /\ Held' /\ buffer'[1].what = "image"
           /\ \E i \in Slots, slot \in Slot, c \in Contents \cup {NoContent} :
                 /\ metadata' = [metadata EXCEPT ![i] = slot]
                 /\ task' = Task("slot", i, Answer("read", id, "NONE",
                                                  [content |-> c, res |-> r], {}))
<1>0. metadata \in [Slots -> Slot] /\ data \in Seq(Blob) /\ r \in Resolutions
  BY DEF Typed, TablesTyped, Resolutions
<1>1. PICK i \in Slots : \E c \in Rendered(i) :
        /\ metadata' = [metadata EXCEPT ![i] = Resized(metadata[i], r)]
        /\ buffer' = ImageWrite([content |-> c, res |-> r])
        /\ task' = Task("slot", i, Answer("read", id, "NONE",
                                         [content |-> c, res |-> r], {}))
  BY DEF BeginResize
<1>2. PICK c \in Rendered(i) :
        /\ metadata' = [metadata EXCEPT ![i] = Resized(metadata[i], r)]
        /\ buffer' = ImageWrite([content |-> c, res |-> r])
        /\ task' = Task("slot", i, Answer("read", id, "NONE",
                                         [content |-> c, res |-> r], {}))
  BY <1>1
<1>3. c \in Contents \cup {NoContent}
  BY RenderedType DEF Typed
<1>4. Resized(metadata[i], r) \in Slot
  BY <1>0, ResizedFacts
<1>5. [content |-> c, res |-> r] \in Blob
  BY <1>0, <1>3 DEF Blob
<1>6. Held' /\ buffer'[1].what = "image"
  BY <1>2, <1>5 DEF Held, ImageWrite, WriteOK
<1> QED
  BY <1>2, <1>3, <1>4, <1>6 DEF BeginResize

\* A first write that fails at once changes one slot in memory at most, and may
\* leave a part of an image at the end of the file.
LEMMA BeginFailsFacts ==
    ASSUME Typed, NEW id \in Ids, BeginFails(id)
    PROVE  /\ ~Resident /\ ~Busy /\ Calling /\ buffer = <<>>
           /\ metadata' \in [Slots -> Slot] /\ data' \in Seq(Blob)
           /\ UNCHANGED <<header, disk_metadata, disk_header, buffer, failed, task, formed>>
           /\ ret'.err = "IO"
           /\ faults' \in 0 .. MaxFaults
<1>0. metadata \in [Slots -> Slot] /\ data \in Seq(Blob)
  BY DEF Typed, TablesTyped
<1>1. NoBlob \in Blob
  BY DEF NoBlob, Blob, Resolutions
<1>2. Cut => data' \in Seq(Blob)
  BY <1>0, <1>1 DEF Cut
<1>3. data' \in Seq(Blob)
  BY <1>0, <1>2 DEF BeginFails
<1>4. ret'.err = "IO"
  BY AnswerFields DEF BeginFails, Returns
<1>5. metadata' \in [Slots -> Slot]
  <2>1. CASE \E c \in Decodable, i \in Slots : \E slot \in Deduped(i, id, c) :
               metadata' = [metadata EXCEPT ![i] = Placed(slot)]
    <3>1. PICK c \in Decodable, i \in Slots : \E slot \in Deduped(i, id, c) :
               metadata' = [metadata EXCEPT ![i] = Placed(slot)]
      BY <2>1
    <3>2. PICK slot \in Deduped(i, id, c) : metadata' = [metadata EXCEPT ![i] = Placed(slot)]
      BY <3>1
    <3>3. slot \in Slot
      BY <1>0, DedupedType, DecodableAssumption
    <3>4. Placed(slot) \in Slot
      BY <1>0, <3>3, UpdateFacts
    <3> QED
      BY <1>0, <3>2, <3>4
  <2>2. CASE UNCHANGED metadata
    BY <1>0, <2>2
  <2>3. CASE \E i \in Slots : metadata' = [metadata EXCEPT ![i] = Emptied(metadata[i])]
    <3>1. PICK i \in Slots : metadata' = [metadata EXCEPT ![i] = Emptied(metadata[i])]
      BY <2>3
    <3>2. Emptied(metadata[i]) \in Slot
      BY <1>0, UpdateFacts
    <3> QED
      BY <1>0, <3>1, <3>2
  <2> QED
    BY <2>1, <2>2, <2>3 DEF BeginFails
<1> QED
  BY <1>3, <1>4, <1>5, FaultTyped DEF BeginFails

LEMMA BeginTyped ==
    ASSUME Typed,
           \/ Immediate
           \/ \E id \in Ids, c \in Contents : BeginShared(id, c) \/ BeginNew(id, c)
           \/ \E id \in Ids : BeginDelete(id) \/ BeginFails(id)
           \/ \E id \in Ids, r \in Derived : BeginResize(id, r)
    PROVE  Typed'
<1>0. Calling => handle' \in {"closed", "open", "done", "creating"}
  BY DEF Calling
<1>1. CASE Immediate
  <2>1. metadata' \in [Slots -> Slot] /\ header' \in Header
        /\ handle' \in {"closed", "open", "done", "creating"}
    BY <1>0, <1>1, ImmediateFacts, EmptyTyped
       DEF Typed, TablesTyped, memory, Forget
  <2> QED
    BY <1>1, <2>1, ImmediateFacts DEF Aside, Typed, TablesTyped, Held, file
<1>2. CASE \E id \in Ids, c \in Contents : BeginShared(id, c) \/ BeginNew(id, c)
  <2>1. PICK id \in Ids, c \in Contents : BeginShared(id, c) \/ BeginNew(id, c)
    BY <1>2
  <2>2. metadata' \in [Slots -> Slot] /\ header' \in Header /\ Held'
        /\ task'.step = "slot" /\ task'.i \in Slots
    BY <2>1, BeginInsertFacts, TaskFields DEF Typed, TablesTyped, Held
  <2>3. Begins
    BY <2>1, BeginInsertFacts
  <2> QED
    BY <1>0, <2>2, <2>3 DEF Begins, Typed, TablesTyped, file
<1>3. CASE \E id \in Ids : BeginDelete(id)
  <2>1. PICK id \in Ids : BeginDelete(id)
    BY <1>3
  <2>2. PICK i \in Slots, slot \in Slot :
          /\ metadata' = [metadata EXCEPT ![i] = slot]
          /\ buffer' = <<[what |-> "slot", i |-> i, slot |-> slot]>>
          /\ task' = Task("header", i, Answer("delete", id, "NONE", NoBlob, {}))
    BY <2>1, BeginDeleteFacts
  <2>3. Held'
    BY <2>2 DEF Held, WriteOK
  <2>4. metadata' \in [Slots -> Slot] /\ task'.step = "header" /\ task'.i \in Slots
    BY <2>2, TaskFields DEF Typed, TablesTyped
  <2>5. Begins /\ header' \in Header
    BY <2>1, BeginDeleteFacts
  <2> QED
    BY <1>0, <2>3, <2>4, <2>5 DEF Begins, Typed, TablesTyped, file
<1>4. CASE \E id \in Ids, r \in Derived : BeginResize(id, r)
  <2>1. PICK id \in Ids, r \in Derived : BeginResize(id, r)
    BY <1>4
  <2>2. PICK i \in Slots, slot \in Slot, c \in Contents \cup {NoContent} :
          /\ metadata' = [metadata EXCEPT ![i] = slot]
          /\ task' = Task("slot", i, Answer("read", id, "NONE",
                                           [content |-> c, res |-> r], {}))
    BY <2>1, BeginResizeFacts
  <2>3. metadata' \in [Slots -> Slot] /\ task'.step = "slot" /\ task'.i \in Slots
    BY <2>2, TaskFields DEF Typed, TablesTyped
  <2>4. Begins /\ UNCHANGED header /\ Held'
    BY <2>1, BeginResizeFacts
  <2> QED
    BY <1>0, <2>3, <2>4 DEF Begins, Typed, TablesTyped, file
<1>5. CASE \E id \in Ids : BeginFails(id)
  BY <1>0, <1>5, BeginFailsFacts DEF Typed, TablesTyped, Held
<1> QED
  BY <1>1, <1>2, <1>3, <1>4, <1>5

LEMMA StepTyped ==
    ASSUME Typed, WriteSlot \/ WriteHeader \/ Reread \/ ReadFails \/ StepFails
    PROVE  Typed'
<1>0. metadata \in [Slots -> Slot] /\ header \in Header
      /\ disk_metadata \in [Slots -> Slot]
  BY DEF Typed, TablesTyped
<1>1. CASE WriteSlot
  <2>1. Held'
    BY <1>0, <1>1, WriteTypes DEF WriteSlot, Held, Typed
  <2>2. task'.step \in {"header", "reread"} /\ task'.i \in Slots
    BY <1>1, TaskFields DEF WriteSlot, Typed
  <2> QED
    BY <1>1, <2>1, <2>2 DEF WriteSlot, Typed, TablesTyped, vars
<1>2. CASE WriteHeader
  <2>1. Held'
    <3>1. CASE failed
      BY <1>0, <1>2, <3>1, OverSlotType DEF WriteHeader, Held, Typed
    <3>2. CASE ~failed
      BY <1>0, <1>2, <3>2, WriteTypes DEF WriteHeader, Held
    <3> QED
      BY <3>1, <3>2
  <2> QED
    BY <1>2, <2>1, TaskFields DEF WriteHeader, Ends, Typed, TablesTyped, memory, file
<1>3. CASE Reread
  BY <1>3, TaskFields DEF Reread, Ends, Typed, TablesTyped, Held, memory, file, stream
<1>4. CASE StepFails
  <2>1. faults' \in 0 .. MaxFaults
    BY <1>4, FaultTyped DEF StepFails, Typed
  <2> QED
    BY <1>4, <2>1, TaskFields DEF StepFails, Ends, Typed, TablesTyped, Held, memory, file
<1>5. CASE ReadFails
  <2>1. faults' \in 0 .. MaxFaults
    BY <1>5, FaultTyped DEF ReadFails
  <2> QED
    BY <1>5, <2>1, TaskFields
       DEF ReadFails, Ends, Typed, TablesTyped, Held, memory, file, stream
<1> QED
  BY <1>1, <1>2, <1>3, <1>4, <1>5

LEMMA TypedStep == Typed /\ [DiskNext]_all => Typed'
<1> SUFFICES ASSUME Typed, [DiskNext]_all PROVE Typed'
  OBVIOUS
<1>1. CASE UNCHANGED all
  BY <1>1 DEF all, vars, Typed, TablesTyped, Held
<1>2. CASE DiskNext
  BY <1>2, FlushTyped, FailTyped, AroundTyped, BeginTyped, StepTyped DEF DiskNext
<1> QED
  BY <1>1, <1>2

\* For any constants and any number of faults: every variable has its type, and
\* the stream holds one write at most.
THEOREM DiskTypes == DiskSpec => []DiskTypeOK
<1>1. Typed => DiskTypeOK
  <2> SUFFICES ASSUME Typed PROVE DiskTypeOK
    OBVIOUS
  <2>1. Len(buffer) <= 1 /\ (buffer # <<>> => WriteOK(buffer[1]))
    <3>1. CASE buffer = <<>>
      BY <3>1
    <3>2. CASE buffer # <<>>
      <4> DEFINE w == buffer[1]
      <4>1. buffer = <<w>> /\ WriteOK(w)
        BY <3>2 DEF Typed, Held
      <4> HIDE DEF w
      <4>2. Len(<<w>>) = 1
        OBVIOUS
      <4> QED
        BY <4>1, <4>2
    <3> QED
      BY <3>1, <3>2
  <2> QED
    BY <2>1 DEF Typed, TablesTyped, DiskTypeOK
<1> QED
  BY <1>1, DiskInitTyped, TypedStep, PTL DEF DiskSpec

-----------------------------------------------------------------------------
(* What is acknowledged is in the file.                                     *)

\* An insert in progress: its slot is in memory; after it was written, it is
\* held, or in the file, or the next seek will fail.
InsertUnderway ==
    Busy /\ task.answer.call = "insert" =>
        /\ task.step \in {"slot", "header"}
        /\ metadata[task.i].is_valid /\ metadata[task.i].img_id = task.answer.id
        /\ task.step = "header" =>
              \/ buffer = SlotWrite(task.i)
              \/ buffer = <<>> /\ (failed \/ disk_metadata[task.i] = metadata[task.i])

\* After an insert that was acknowledged no slot is held.
NoSlotHeld ==
    ~Busy /\ ret.call = "insert" /\ ret.err = "NONE" =>
        buffer = <<>> \/ buffer[1].what \in {"header", "table"}

\* do_create is no call of an open file.
NoneInCreate == handle = "creating" => ~Busy

Acked == InsertUnderway /\ NoSlotHeld /\ NoneInCreate /\ AckedStored

LEMMA AckedInit == DiskInit => Acked
<1> SUFFICES ASSUME DiskInit PROVE Acked
  OBVIOUS
<1>1. ~Busy /\ ret.call # "insert"
  BY AnswerFields DEF DiskInit, Init, Busy, Idle
<1> QED
  BY <1>1 DEF DiskInit, Acked, InsertUnderway, NoSlotHeld, NoneInCreate, AckedStored

LEMMA FlushAcked == Typed /\ Acked /\ Flush => Acked'
<1> SUFFICES ASSUME Typed, Acked, Flush PROVE Acked'
  OBVIOUS
<1>1. Busy' = Busy /\ buffer' = <<>> /\ UNCHANGED <<metadata, handle, task, ret, failed>>
  BY DEF Flush, Busy, memory
<1>2. NoSlotHeld' /\ NoneInCreate'
  BY <1>1 DEF Acked, NoSlotHeld, NoneInCreate
<1>3. InsertUnderway'
  <2> SUFFICES ASSUME Busy, task.answer.call = "insert", task.step = "header"
               PROVE  failed \/ disk_metadata'[task.i] = metadata[task.i]
    BY <1>1 DEF Acked, InsertUnderway
  <2>1. buffer = SlotWrite(task.i)
    BY DEF Acked, InsertUnderway, Flush
  <2>2. disk_metadata' = [disk_metadata EXCEPT ![task.i] = metadata[task.i]]
    BY <2>1 DEF Flush, SlotWrite
  <2> QED
    BY <2>2 DEF Typed, TablesTyped
<1>4. AckedStored'
  <2> SUFFICES ASSUME ~Busy, ret.call = "insert", ret.err = "NONE" PROVE AckedStored'
    BY <1>1 DEF AckedStored
  <2>1. buffer[1].what \in {"header", "table"}
    BY DEF Acked, NoSlotHeld, Flush
  <2>2. UNCHANGED <<disk_metadata, ret, task>>
    BY <2>1 DEF Flush
  <2> QED
    BY <1>1, <2>2 DEF Acked, AckedStored, Valid
<1> QED
  BY <1>2, <1>3, <1>4 DEF Acked

LEMMA FailAcked == Typed /\ Acked /\ (FlushFails \/ Stop) => Acked'
<1> SUFFICES ASSUME Typed, Acked, FlushFails \/ Stop PROVE Acked'
  OBVIOUS
<1>0. buffer' = <<>> /\ UNCHANGED disk_metadata
  BY DEF FlushFails, Stop, Lost
<1>1. CASE FlushFails
  <2>1. Busy' = Busy /\ failed' /\ UNCHANGED <<metadata, handle, task, ret>>
    BY <1>1 DEF FlushFails, Busy, memory
  <2> QED
    BY <1>0, <2>1 DEF Acked, InsertUnderway, NoSlotHeld, NoneInCreate, AckedStored, Valid
<1>2. CASE Stop
  <2>1. ~Busy' /\ ret'.call = "stop"
    BY <1>2, TaskFields, AnswerFields DEF Stop, Busy, Returns
  <2> QED
    BY <1>0, <2>1 DEF Acked, InsertUnderway, NoSlotHeld, NoneInCreate, AckedStored
<1> QED
  BY <1>1, <1>2

LEMMA AroundAcked ==
    ASSUME Typed, Acked,
           OpenFile \/ OpenFails \/ CloseFile \/ BeginCreate \/ CreateFails \/ EndCreate
    PROVE  Acked'
<1>1. ~Busy /\ ~Busy' /\ UNCHANGED task
  BY DEF OpenFile, OpenFails, CloseFile, BeginCreate, CreateFails, EndCreate,
         Aside, Truncate, Acked, NoneInCreate, Busy
<1>2. CASE EndCreate
  BY <1>1, <1>2
     DEF EndCreate, file, Acked, InsertUnderway, NoSlotHeld, NoneInCreate, AckedStored, Valid
<1>3. CASE ~EndCreate
  <2>1. ret'.call # "insert"
    BY <1>3, AnswerFields DEF OpenFile, OpenFails, CloseFile, BeginCreate,
           CreateFails, Open, Close, Returns
  <2> QED
    BY <1>1, <2>1 DEF Acked, InsertUnderway, NoSlotHeld, NoneInCreate, AckedStored
<1> QED
  BY <1>2, <1>3

LEMMA BeginAcked ==
    ASSUME Typed, Acked,
           \/ Immediate
           \/ \E id \in Ids, c \in Contents : BeginShared(id, c) \/ BeginNew(id, c)
           \/ \E id \in Ids : BeginDelete(id) \/ BeginFails(id)
           \/ \E id \in Ids, r \in Derived : BeginResize(id, r)
    PROVE  Acked'
<1>1. CASE Immediate
  <2>1. ~Busy /\ ~Busy' /\ UNCHANGED buffer
    BY <1>1, ImmediateFacts DEF Aside, Busy
  <2>2. ~(ret'.call = "insert" /\ ret'.err = "NONE")
    BY <1>1, ImmediateFacts
  <2> QED
    BY <2>1, <2>2 DEF Acked, InsertUnderway, NoSlotHeld, NoneInCreate, AckedStored
<1>2. CASE \E id \in Ids, c \in Contents : BeginShared(id, c) \/ BeginNew(id, c)
  <2>1. PICK id \in Ids, c \in Contents : BeginShared(id, c) \/ BeginNew(id, c)
    BY <1>2
  <2>2. PICK i \in Slots, slot \in Slot :
          /\ slot.is_valid /\ slot.img_id = id
          /\ metadata' = [metadata EXCEPT ![i] = slot]
          /\ task' = Task("slot", i, Answer("insert", id, "NONE", NoBlob, {}))
    BY <2>1, BeginInsertFacts
  <2>3. task'.step = "slot" /\ task'.i = i /\ task'.answer.id = id
        /\ handle' # "creating"
    BY <2>1, <2>2, TaskFields, AnswerFields, BeginInsertFacts DEF Begins, Calling
  <2>4. metadata'[i] = slot
    BY <2>2 DEF Typed, TablesTyped
  <2>5. InsertUnderway'
    BY <2>2, <2>3, <2>4 DEF InsertUnderway
  <2> QED
    BY <2>3, <2>5 DEF Acked, NoSlotHeld, NoneInCreate, AckedStored, Busy
<1>3. CASE \E id \in Ids : BeginDelete(id)
  <2>1. PICK id \in Ids : BeginDelete(id)
    BY <1>3
  <2>2. PICK i \in Slots :
          task' = Task("header", i, Answer("delete", id, "NONE", NoBlob, {}))
    BY <2>1, BeginDeleteFacts
  <2>3. task'.step = "header" /\ task'.answer.call = "delete" /\ handle' # "creating"
    BY <2>1, <2>2, TaskFields, AnswerFields, BeginDeleteFacts DEF Begins, Calling
  <2> QED
    BY <2>3 DEF Acked, InsertUnderway, NoSlotHeld, NoneInCreate, AckedStored, Busy
<1>4. CASE \E id \in Ids, r \in Derived : BeginResize(id, r)
  <2>1. PICK id \in Ids, r \in Derived : BeginResize(id, r)
    BY <1>4
  <2>2. PICK i \in Slots, c \in Contents \cup {NoContent} :
          task' = Task("slot", i, Answer("read", id, "NONE",
                                         [content |-> c, res |-> r], {}))
    BY <2>1, BeginResizeFacts
  <2>3. task'.step = "slot" /\ task'.answer.call = "read" /\ handle' # "creating"
    BY <2>1, <2>2, TaskFields, AnswerFields, BeginResizeFacts DEF Begins, Calling
  <2> QED
    BY <2>3 DEF Acked, InsertUnderway, NoSlotHeld, NoneInCreate, AckedStored, Busy
<1>5. CASE \E id \in Ids : BeginFails(id)
  <2>1. ~Busy /\ UNCHANGED <<buffer, task>> /\ ret'.err = "IO"
    BY <1>5, BeginFailsFacts
  <2> QED
    BY <2>1 DEF Acked, InsertUnderway, NoSlotHeld, NoneInCreate, AckedStored, Busy
<1> QED
  BY <1>1, <1>2, <1>3, <1>4, <1>5

LEMMA StepAcked ==
    ASSUME Typed, Acked, WriteSlot \/ WriteHeader \/ Reread \/ ReadFails \/ StepFails
    PROVE  Acked'
<1>0. Idle.step = "idle"
  BY TaskFields
<1>1. CASE WriteSlot
  <2>1. /\ UNCHANGED <<metadata, handle, ret>> /\ buffer' = SlotWrite(task.i)
        /\ task'.i = task.i /\ task'.answer = task.answer
        /\ task'.step = IF task.answer.call = "read" THEN "reread" ELSE "header"
    BY <1>1, TaskFields DEF WriteSlot, vars, memory
  <2>2. Busy /\ Busy'
    BY <1>1, <2>1 DEF WriteSlot, Busy
  <2>3. buffer' = SlotWrite(task.i)'
    BY <2>1 DEF SlotWrite
  <2> QED
    BY <2>1, <2>2, <2>3 DEF Acked, InsertUnderway, NoSlotHeld, NoneInCreate, AckedStored
<1>2. CASE WriteHeader
  <2>1. ~Busy' /\ ret' = task.answer /\ UNCHANGED disk_metadata
        /\ (task.answer.call = "insert" => buffer'[1].what = "header")
    BY <1>0, <1>2 DEF WriteHeader, Ends, Busy, HeaderWrite, file
  <2>2. AckedStored'
    <3> SUFFICES ASSUME task.answer.call = "insert" PROVE AckedStored'
      BY <2>1 DEF AckedStored
    <3>1. Busy /\ buffer = <<>> /\ ~failed /\ task.step = "header"
      BY <1>2 DEF WriteHeader, Busy
    <3>2. SlotWrite(task.i) # <<>>
      BY DEF SlotWrite
    <3>3. disk_metadata[task.i].is_valid
          /\ disk_metadata[task.i].img_id = task.answer.id
      BY <3>1, <3>2 DEF Acked, InsertUnderway
    <3>4. task.i \in Valid(disk_metadata)'
      BY <2>1, <3>3 DEF Typed, Valid
    <3> QED
      BY <2>1, <3>3, <3>4 DEF AckedStored
  <2> QED
    BY <2>1, <2>2 DEF Acked, InsertUnderway, NoSlotHeld, NoneInCreate
<1>3. CASE Reread
  <2>1. ~Busy' /\ buffer' = <<>> /\ ret' = task.answer /\ task.answer.call # "insert"
    BY <1>0, <1>3 DEF Reread, Ends, Busy, stream, Acked, InsertUnderway
  <2> QED
    BY <2>1 DEF Acked, InsertUnderway, NoSlotHeld, NoneInCreate, AckedStored
<1>4. CASE StepFails \/ ReadFails
  <2>1. ~Busy' /\ ret'.err \in {"IO", "OUT_OF_MEMORY"}
    BY <1>0, <1>4, AnswerFields DEF StepFails, ReadFails, Ends, Busy
  <2> QED
    BY <2>1 DEF Acked, InsertUnderway, NoSlotHeld, NoneInCreate, AckedStored
<1> QED
  BY <1>1, <1>2, <1>3, <1>4

LEMMA AckedStep == Typed /\ Acked /\ [DiskNext]_all => Acked'
<1> SUFFICES ASSUME Typed, Acked, [DiskNext]_all PROVE Acked'
  OBVIOUS
<1>1. CASE UNCHANGED all
  BY <1>1 DEF all, vars, memory, file, Acked, InsertUnderway, NoSlotHeld, NoneInCreate,
              AckedStored, Busy, Valid, SlotWrite
<1>2. CASE DiskNext
  BY <1>2, FlushAcked, FailAcked, AroundAcked, BeginAcked, StepAcked DEF DiskNext
<1> QED
  BY <1>1, <1>2

\* For any constants and any number of faults: once do_insert has answered
\* ERR_NONE, a valid slot of that name is in the file, until the next answer.
THEOREM AckedIsStored == DiskSpec => []AckedStored
<1>1. Typed /\ Acked => AckedStored
  BY DEF Acked
<1> QED
  BY <1>1, DiskInitTyped, TypedStep, AckedInit, AckedStep, PTL DEF DiskSpec

-----------------------------------------------------------------------------
(* The server's table is the file's.                                        *)

\* The server is followed past kills, not past writes that fail; it closes the
\* file with nothing left to pass on.
InService ==
    /\ ~failed
    /\ handle # "done"
    /\ handle # "open" => ~Busy
    /\ handle = "closed" => buffer = <<>>

\* But for the slot of the call in progress, a valid slot of the file is in
\* memory.
OthersSaved ==
    handle = "open" =>
        \A i \in Slots : \/ Busy /\ i = task.i
                         \/ disk_metadata[i].is_valid => metadata[i] = disk_metadata[i]

\* That slot is held, or in the file, once it was written; before that the
\* stream may hold the image, or the header of the call before.
OwnSaved ==
    Busy =>
        IF task.step = "slot"
        THEN buffer = <<>> \/ buffer[1].what \in {"image", "header"}
        ELSE \/ buffer = SlotWrite(task.i)
             \/ buffer = <<>> /\ disk_metadata[task.i] = metadata[task.i]

\* The header is held, or in the file, but for a call that will write it.
HeaderSaved ==
    /\ handle = "open" /\ ~Busy =>
           buffer = HeaderWrite \/ (buffer = <<>> /\ header = disk_header)
    /\ Busy /\ task.answer.call = "read" =>
           /\ header = disk_header
           /\ buffer = <<>> \/ buffer[1].what \in {"image", "slot"}
    /\ task.step = "reread" => task.answer.call = "read"

Saved == InService /\ OthersSaved /\ OwnSaved /\ HeaderSaved

LEMMA SavedInit == DiskInit => Saved
BY TaskFields DEF DiskInit, Init, Idle, Busy, Saved, InService, OthersSaved, OwnSaved,
   HeaderSaved

LEMMA SavedEnough == Typed /\ Saved => SlotsSaved
BY DEF Typed, Saved, OthersSaved, HeaderSaved, SlotsSaved, Valid

LEMMA FlushSaved == Typed /\ Saved /\ Flush => Saved'
<1> SUFFICES ASSUME Typed, Saved, Flush PROVE Saved'
  OBVIOUS
<1>1. /\ Busy' = Busy /\ buffer' = <<>> /\ buffer # <<>>
      /\ UNCHANGED <<metadata, header, handle, task, failed>>
  BY DEF Flush, Busy, memory
<1>2. buffer[1].what # "slot" => disk_metadata' = disk_metadata
  BY DEF Flush
<1>3. buffer[1].what # "header" => disk_header' = disk_header
  BY DEF Flush
<1>4. InService'
  BY <1>1 DEF Saved, InService
<1>5. CASE ~Busy
  <2>1. OthersSaved' /\ HeaderSaved'
    <3> SUFFICES ASSUME handle = "open"
                 PROVE  OthersSaved' /\ HeaderSaved'
      BY <1>1, <1>5 DEF OthersSaved, HeaderSaved, Saved
    <3>1. buffer = HeaderWrite
      BY <1>1, <1>5 DEF Saved, HeaderSaved
    <3>2. disk_metadata' = disk_metadata /\ disk_header' = header
      BY <1>2, <3>1 DEF Flush, HeaderWrite
    <3> QED
      BY <1>1, <1>5, <3>2 DEF Saved, OthersSaved, HeaderSaved
  <2> QED
    BY <1>1, <1>4, <1>5, <2>1 DEF Saved, OwnSaved
<1>6. CASE Busy
  <2>1. HeaderSaved'
    BY <1>1, <1>3, <1>6 DEF Saved, HeaderSaved
  <2>2. CASE task.step = "slot"
    <3>1. disk_metadata' = disk_metadata
      BY <1>1, <1>2, <1>6, <2>2 DEF Saved, OwnSaved
    <3> QED
      BY <1>1, <1>4, <1>6, <2>1, <2>2, <3>1 DEF Saved, OthersSaved, OwnSaved
  <2>3. CASE task.step # "slot"
    <3>1. buffer = SlotWrite(task.i)
      BY <1>1, <1>6, <2>3 DEF Saved, OwnSaved
    <3>2. disk_metadata' = [disk_metadata EXCEPT ![task.i] = metadata[task.i]]
      BY <3>1 DEF Flush, SlotWrite
    <3>3. disk_metadata'[task.i] = metadata[task.i]
      BY <3>2 DEF Typed, TablesTyped
    <3>4. OthersSaved'
      BY <1>1, <1>6, <3>2 DEF Saved, OthersSaved, Typed, TablesTyped
    <3> QED
      BY <1>1, <1>4, <1>6, <2>1, <2>3, <3>3, <3>4 DEF Saved, OwnSaved
  <2> QED
    BY <2>2, <2>3
<1> QED
  BY <1>5, <1>6

LEMMA AroundSaved ==
    ASSUME Resident, Typed, Saved,
           \/ FlushFails \/ Stop \/ OpenFile \/ OpenFails \/ CloseFile
           \/ BeginCreate \/ CreateFails \/ EndCreate
    PROVE  Saved'
<1>1. CASE FlushFails
  BY <1>1 DEF FlushFails
<1>2. CASE Stop
  BY <1>2, TaskFields DEF Stop, Lost, Idle, Busy, Saved, InService, OthersSaved, OwnSaved,
     HeaderSaved
<1>3. CASE OpenFile
  <2>1. ~Busy /\ ~Busy' /\ handle = "closed" /\ buffer' = <<>> /\ ~failed'
        /\ handle' = "open" /\ metadata' = disk_metadata /\ header' = disk_header
        /\ UNCHANGED <<disk_metadata, disk_header, task>>
    BY <1>3 DEF OpenFile, Open, Aside, Busy, file, Saved, InService
  <2> QED
    BY <2>1 DEF Saved, InService, OthersSaved, OwnSaved, HeaderSaved
<1>4. CASE OpenFails
  <2>1. ~Busy' /\ ~failed' /\ handle' = "closed" /\ buffer' = <<>> /\ UNCHANGED task
    BY <1>4 DEF OpenFails, Aside, Busy, Saved, InService
  <2> QED
    BY <2>1 DEF Saved, InService, OthersSaved, OwnSaved, HeaderSaved
<1>5. CASE CloseFile \/ CreateFails \/ EndCreate
  <2>1. ~Busy' /\ ~failed' /\ handle' = "closed" /\ buffer' = <<>> /\ UNCHANGED task
    BY <1>5 DEF CloseFile, Close, Forget, CreateFails, Truncate, EndCreate, Busy, Saved,
       InService
  <2> QED
    BY <2>1 DEF Saved, InService, OthersSaved, OwnSaved, HeaderSaved
<1>6. CASE BeginCreate
  <2>1. ~Busy' /\ ~failed' /\ handle' = "creating" /\ UNCHANGED task
    BY <1>6 DEF BeginCreate, Truncate, Busy, Saved, InService
  <2> QED
    BY <2>1 DEF Saved, InService, OthersSaved, OwnSaved, HeaderSaved
<1> QED
  BY <1>1, <1>2, <1>3, <1>4, <1>5, <1>6

LEMMA BeginSaved ==
    ASSUME Resident, Typed, Saved,
           \/ Immediate
           \/ \E id \in Ids, c \in Contents : BeginShared(id, c) \/ BeginNew(id, c)
           \/ \E id \in Ids : BeginDelete(id) \/ BeginFails(id)
           \/ \E id \in Ids, r \in Derived : BeginResize(id, r)
    PROVE  Saved'
<1>0. Calling => handle = "open" /\ handle' = "open"
  BY DEF Calling
<1>1. CASE Immediate
  <2>1. ~Busy /\ ~Busy' /\ UNCHANGED <<buffer, failed, task, disk_metadata, disk_header>>
    BY <1>1, ImmediateFacts DEF Aside, Busy, file
  <2>2. CASE UNCHANGED <<memory, handle>> \/ (UNCHANGED memory /\ Calling)
    BY <1>0, <2>1, <2>2
       DEF memory, Saved, InService, OthersSaved, OwnSaved, HeaderSaved, HeaderWrite
  <2>3. CASE /\ Calling /\ UNCHANGED header
             /\ \E i \in Slots, slot \in Slot :
                   LowestFree(i) /\ metadata' = [metadata EXCEPT ![i] = slot]
    <3>1. PICK i \in Slots, slot \in Slot :
             LowestFree(i) /\ metadata' = [metadata EXCEPT ![i] = slot]
      BY <2>3
    <3>2. ~metadata[i].is_valid
      BY <3>1 DEF LowestFree, Valid
    <3>3. OthersSaved'
      BY <1>0, <2>1, <2>3, <3>1, <3>2 DEF Saved, OthersSaved, Typed, TablesTyped
    <3> QED
      BY <1>0, <2>1, <2>3, <3>3 DEF Saved, InService, OwnSaved, HeaderSaved, HeaderWrite
  <2>4. CASE Forget /\ buffer = <<>>
    BY <2>1, <2>4 DEF Forget, Saved, InService, OthersSaved, OwnSaved, HeaderSaved
  <2>5. \/ UNCHANGED <<memory, handle>>
        \/ UNCHANGED memory /\ Calling
        \/ /\ Calling /\ UNCHANGED header
           /\ \E i \in Slots, slot \in Slot :
                 LowestFree(i) /\ metadata' = [metadata EXCEPT ![i] = slot]
        \/ Forget /\ buffer = <<>>
    BY <1>1, ImmediateFacts
  <2> QED
    BY <2>2, <2>3, <2>4, <2>5
<1>2. CASE \E id \in Ids, c \in Contents : BeginShared(id, c) \/ BeginNew(id, c)
  <2>1. PICK id \in Ids, c \in Contents : BeginShared(id, c) \/ BeginNew(id, c)
    BY <1>2
  <2>2. PICK i \in Slots, slot \in Slot :
          /\ metadata' = [metadata EXCEPT ![i] = slot]
          /\ task' = Task("slot", i, Answer("insert", id, "NONE", NoBlob, {}))
    BY <2>1, BeginInsertFacts
  <2>3. task'.step = "slot" /\ task'.i = i /\ task'.answer.call = "insert" /\ Busy'
    BY <2>2, TaskFields, AnswerFields DEF Busy
  <2>4. ~Busy /\ handle = "open" /\ handle' = "open" /\ UNCHANGED <<disk_metadata, failed>>
    BY <1>0, <2>1, BeginInsertFacts DEF Begins, file
  <2>5. buffer = <<>> \/ buffer[1].what = "header"
    BY <2>4 DEF Saved, HeaderSaved, HeaderWrite
  <2>6. buffer' = <<>> \/ buffer'[1].what \in {"image", "header"}
    BY <2>1, <2>5, BeginInsertFacts
  <2>7. OthersSaved'
    BY <2>2, <2>3, <2>4 DEF Saved, OthersSaved, Typed, TablesTyped
  <2> QED
    BY <2>3, <2>4, <2>6, <2>7 DEF Saved, InService, OwnSaved, HeaderSaved
<1>3. CASE \E id \in Ids : BeginDelete(id)
  <2>1. PICK id \in Ids : BeginDelete(id)
    BY <1>3
  <2>2. PICK i \in Slots, slot \in Slot :
          /\ metadata' = [metadata EXCEPT ![i] = slot]
          /\ buffer' = <<[what |-> "slot", i |-> i, slot |-> slot]>>
          /\ task' = Task("header", i, Answer("delete", id, "NONE", NoBlob, {}))
    BY <2>1, BeginDeleteFacts
  <2>3. task'.step = "header" /\ task'.i = i /\ task'.answer.call = "delete" /\ Busy'
    BY <2>2, TaskFields, AnswerFields DEF Busy
  <2>4. ~Busy /\ handle = "open" /\ handle' = "open" /\ UNCHANGED <<disk_metadata, failed>>
    BY <1>0, <2>1, BeginDeleteFacts DEF Begins, file
  <2>5. metadata'[i] = slot
    BY <2>2 DEF Typed, TablesTyped
  <2>6. buffer' = SlotWrite(task.i)'
    BY <2>2, <2>3, <2>5 DEF SlotWrite
  <2>7. OthersSaved'
    BY <2>2, <2>3, <2>4 DEF Saved, OthersSaved, Typed, TablesTyped
  <2> QED
    BY <2>3, <2>4, <2>6, <2>7 DEF Saved, InService, OwnSaved, HeaderSaved
<1>4. CASE \E id \in Ids, r \in Derived : BeginResize(id, r)
  <2>1. PICK id \in Ids, r \in Derived : BeginResize(id, r)
    BY <1>4
  <2>2. PICK i \in Slots, slot \in Slot, c \in Contents \cup {NoContent} :
          /\ metadata' = [metadata EXCEPT ![i] = slot]
          /\ task' = Task("slot", i, Answer("read", id, "NONE",
                                           [content |-> c, res |-> r], {}))
    BY <2>1, BeginResizeFacts
  <2>3. task'.step = "slot" /\ task'.i = i /\ Busy'
    BY <2>2, TaskFields, AnswerFields DEF Busy
  <2>4. ~Busy /\ handle = "open" /\ handle' = "open"
        /\ UNCHANGED <<disk_metadata, disk_header, header, failed>>
        /\ buffer = <<>> /\ buffer'[1].what = "image"
    BY <1>0, <2>1, BeginResizeFacts DEF Begins, file
  <2>5. header' = disk_header'
    BY <2>4 DEF Saved, HeaderSaved, HeaderWrite
  <2>6. OthersSaved'
    BY <2>2, <2>3, <2>4 DEF Saved, OthersSaved, Typed, TablesTyped
  <2> QED
    BY <2>3, <2>4, <2>5, <2>6 DEF Saved, InService, OwnSaved, HeaderSaved
<1>5. CASE \E id \in Ids : BeginFails(id)
  BY <1>5, BeginFailsFacts
<1> QED
  BY <1>1, <1>2, <1>3, <1>4, <1>5

LEMMA StepSaved ==
    ASSUME Resident, Typed, Saved,
           WriteSlot \/ WriteHeader \/ Reread \/ ReadFails \/ StepFails
    PROVE  Saved'
<1>0. Idle.step = "idle"
  BY TaskFields
<1>1. Busy /\ handle = "open"
  BY DEF WriteSlot, WriteHeader, Reread, ReadFails, StepFails, Busy, Saved, InService
<1>2. CASE WriteSlot
  <2>1. /\ UNCHANGED <<metadata, header, disk_metadata, disk_header, handle, failed>>
        /\ buffer' = SlotWrite(task.i)
        /\ task'.i = task.i /\ task'.answer = task.answer
        /\ task'.step = IF task.answer.call = "read" THEN "reread" ELSE "header"
    BY <1>2, TaskFields DEF WriteSlot, vars
  <2>2. Busy' /\ task'.step # "slot"
    BY <2>1 DEF Busy
  <2>3. buffer' = SlotWrite(task.i)' /\ buffer'[1].what = "slot"
    BY <2>1 DEF SlotWrite
  <2>4. OthersSaved' /\ InService'
    BY <1>1, <2>1, <2>2 DEF Saved, OthersSaved, InService
  <2> QED
    BY <1>1, <2>1, <2>2, <2>3, <2>4 DEF Saved, OwnSaved, HeaderSaved
<1>3. CASE WriteHeader \/ Reread
  <2>1. /\ task.step # "slot" /\ buffer = <<>> /\ ~Busy' /\ task'.step = "idle" /\ ~failed'
        /\ UNCHANGED <<metadata, header, disk_metadata, disk_header, handle>>
    BY <1>0, <1>3 DEF WriteHeader, Reread, Ends, Busy, memory, file, stream, Saved, InService
  <2>2. SlotWrite(task.i) # <<>>
    BY DEF SlotWrite
  <2>3. disk_metadata[task.i] = metadata[task.i]
    BY <1>1, <2>1, <2>2 DEF Saved, OwnSaved
  <2>4. OthersSaved'
    BY <1>1, <2>1, <2>3 DEF Saved, OthersSaved
  <2>5. CASE WriteHeader
    <3>1. buffer' = HeaderWrite'
      BY <2>1, <2>5 DEF WriteHeader, HeaderWrite, Saved, InService
    <3> QED
      BY <1>1, <2>1, <2>4, <3>1 DEF Saved, InService, OwnSaved, HeaderSaved
  <2>6. CASE Reread
    <3>1. buffer' = <<>> /\ header = disk_header
      BY <1>1, <2>1, <2>6 DEF Reread, stream, Saved, HeaderSaved
    <3> QED
      BY <1>1, <2>1, <2>4, <3>1 DEF Saved, InService, OwnSaved, HeaderSaved
  <2> QED
    BY <1>3, <2>5, <2>6
<1>4. CASE StepFails \/ ReadFails
  BY <1>4 DEF StepFails, ReadFails, Saved, InService
<1> QED
  BY <1>2, <1>3, <1>4

LEMMA SavedStep == Resident => (Typed /\ Saved /\ [DiskNext]_all => Saved')
<1> SUFFICES ASSUME Resident, Typed, Saved, [DiskNext]_all PROVE Saved'
  OBVIOUS
<1>1. CASE UNCHANGED all
  BY <1>1 DEF all, vars, Saved, InService, OthersSaved, OwnSaved, HeaderSaved, Busy,
              SlotWrite, HeaderWrite
<1>2. CASE DiskNext
  BY <1>2, FlushSaved, AroundSaved, BeginSaved, StepSaved DEF DiskNext
<1> QED
  BY <1>1, <1>2

\* For any constants and any number of kills: between two calls of the server
\* every valid slot of the file is as it is in memory, and the header is the
\* file's or held.
THEOREM TableIsSaved ==
    ASSUME Resident
    PROVE  DiskSpec => []SlotsSaved
<1>1. Typed /\ Saved /\ [DiskNext]_all => Saved'
  BY SavedStep
<1> QED
  BY <1>1, DiskInitTyped, TypedStep, SavedInit, SavedEnough, PTL DEF DiskSpec

=============================================================================
