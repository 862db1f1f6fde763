-------------------------- MODULE ImgfsFaultProofs --------------------------
(***************************************************************************)
(* The library through faults, for every table size, set of names,         *)
(* contents and resolutions, and any number of failed writes and killed    *)
(* processes. Four invariants, each on the one before: Typed, of           *)
(* ImgfsDiskProofs; Staged, which says at every step of a call where each  *)
(* of its writes is; Counts, how far nb_files may be off; Intact, that     *)
(* every slot of the file is whole, now and when the call in progress has  *)
(* written its slot. Staged also shows that a call nothing interrupts is   *)
(* one step of ImgfsLib.                                                   *)
(***************************************************************************)
EXTENDS ImgfsDiskProofs

-----------------------------------------------------------------------------
(* Where the writes of a call are, step by step.                            *)

Call == task.answer.call

\* The stream holds a slot.
SlotHeld == buffer # <<>> /\ buffer[1].what = "slot"

\* Around the calls: what the stream may hold, and that it holds nothing once
\* the file is closed, or once a seek has said that a write was lost. A command
\* may end with a slot held: a read without memory for the image, or a delete
\* whose slot was lost.
Around ==
    /\ handle = "closed" => buffer = <<>>
    /\ handle \in {"closed", "creating"} => ~Busy
    /\ ~Busy => \/ buffer \in {<<>>, IF handle = "creating" THEN TableWrite ELSE HeaderWrite}
                \/ handle = "done" /\ SlotHeld
    /\ buffer # <<>> => ~failed
    /\ handle = "open" /\ ~Busy /\ buffer = <<>> => header = disk_header

\* The server sees no failed write. A command has one call, and finds in
\* memory what is in the file.
Serving ==
    IF Resident THEN ~failed /\ handle # "done"
    ELSE /\ Busy => handle = "done"
         /\ handle = "closed" => ~failed
         /\ handle = "open" =>
              /\ buffer = <<>> /\ ~failed
              /\ metadata = disk_metadata /\ header = disk_header

\* A call in progress: its slot is in memory as the call leaves it; once written
\* it is held, or in the file, or the next seek will fail.
Underway ==
    Busy =>
      /\ \/ /\ Call = "insert" /\ task.step \in {"slot", "header"}
            /\ metadata[task.i].is_valid
         \/ Call = "delete" /\ task.step = "header" /\ ~metadata[task.i].is_valid
         \/ /\ Call = "read" /\ task.step \in {"slot", "reread"}
            /\ metadata[task.i].is_valid
            /\ header = disk_header
      /\ task.step = "slot" /\ buffer # <<>> =>
            buffer[1].what = "image" \/ (Resident /\ buffer[1].what = "header")
      /\ task.step = "slot" /\ Call = "read" /\ buffer # <<>> => buffer[1].what = "image"
      /\ task.step # "slot" =>
            \/ buffer = SlotWrite(task.i)
            \/ buffer = <<>> /\ (failed \/ disk_metadata[task.i] = metadata[task.i])

Staged == Around /\ Serving /\ Underway

\* The kinds of writes are told apart.
LEMMA WritesDiffer ==
    /\ HeaderWrite # <<>> /\ HeaderWrite[1].what = "header"
    /\ HeaderWrite[1].header = header
    /\ TableWrite # <<>> /\ TableWrite[1].what = "table"
    /\ \A i : SlotWrite(i) # <<>> /\ SlotWrite(i)[1].what = "slot"
    /\ \A i : SlotWrite(i)[1].i = i /\ SlotWrite(i)[1].slot = metadata[i]
    /\ \A blob : ImageWrite(blob) # <<>> /\ ImageWrite(blob)[1].what = "image"
    /\ \A blob : ImageWrite(blob)[1].blob = blob
BY DEF HeaderWrite, TableWrite, SlotWrite, ImageWrite

\* Nothing is under way, and nothing held.
LEMMA StagedInit == DiskInit => Staged
<1> SUFFICES ASSUME DiskInit PROVE Staged
  OBVIOUS
<1>1. ~Busy /\ buffer = <<>> /\ ~failed /\ handle = "closed"
  BY TaskFields DEF DiskInit, Init, Busy
<1> QED
  BY <1>1 DEF Staged, Around, Serving, Underway

\* The slot of the call is in the file once the stream has passed it on.
LEMMA FlushStaged == Typed /\ Staged /\ Flush => Staged'
<1> SUFFICES ASSUME Typed, Staged, Flush PROVE Staged'
  OBVIOUS
<1>1. /\ Busy' = Busy /\ Call' = Call /\ buffer' = <<>> /\ buffer # <<>>
      /\ UNCHANGED <<metadata, header, handle, task, failed>>
  BY DEF Flush, Busy, Call, memory
<1>2. Around'
  <2> SUFFICES ASSUME handle = "open", ~Busy PROVE header = disk_header'
    BY <1>1 DEF Staged, Around
  <2>1. buffer = HeaderWrite
    BY <1>1 DEF Staged, Around
  <2> QED
    BY <2>1, WritesDiffer DEF Flush
<1>3. Serving'
  BY <1>1 DEF Staged, Serving
<1>4. Underway'
  <2> SUFFICES ASSUME Busy PROVE Underway'
    BY <1>1 DEF Underway
  <2>1. CASE task.step = "slot"
    <3>1. Call = "read" => UNCHANGED disk_header
      BY <1>1, <2>1 DEF Staged, Underway, Flush
    <3> QED
      BY <1>1, <2>1, <3>1 DEF Staged, Underway
  <2>2. CASE task.step # "slot"
    <3>1. buffer = SlotWrite(task.i)
      BY <1>1, <2>2 DEF Staged, Underway
    <3>2. disk_metadata' = [disk_metadata EXCEPT ![task.i] = metadata[task.i]]
          /\ UNCHANGED disk_header
      BY <3>1, WritesDiffer DEF Flush
    <3>3. disk_metadata'[task.i] = metadata[task.i]
      BY <3>2 DEF Typed, TablesTyped
    <3> QED
      BY <1>1, <2>2, <3>2, <3>3 DEF Staged, Underway
  <2> QED
    BY <2>1, <2>2
<1> QED
  BY <1>2, <1>3, <1>4 DEF Staged

\* A lost write is one the next seek reports; a killed process has none.
LEMMA FailStaged == Typed /\ Staged /\ (FlushFails \/ Stop) => Staged'
<1> SUFFICES ASSUME Typed, Staged, FlushFails \/ Stop PROVE Staged'
  OBVIOUS
<1>0. buffer' = <<>> /\ UNCHANGED <<disk_metadata, disk_header>>
  BY DEF FlushFails, Stop, Lost
<1>1. CASE FlushFails
  <2>1. /\ Busy' = Busy /\ Call' = Call /\ failed' /\ ~Resident /\ buffer # <<>>
        /\ UNCHANGED <<metadata, header, handle, task>>
    BY <1>1 DEF FlushFails, Busy, Call, memory
  <2>2. Around' /\ Serving'
    BY <1>0, <2>1 DEF Staged, Around, Serving
  <2>3. Underway'
    BY <1>0, <2>1 DEF Staged, Underway
  <2> QED
    BY <2>2, <2>3 DEF Staged
<1>2. CASE Stop
  <2>1. ~Busy' /\ handle' = "closed" /\ ~failed'
    BY <1>2, TaskFields DEF Stop, Busy
  <2> QED
    BY <1>0, <2>1 DEF Staged, Around, Serving, Underway
<1> QED
  BY <1>1, <1>2

\* A process begins and ends with nothing under way.
LEMMA AroundStaged ==
    ASSUME Typed, Staged,
           OpenFile \/ OpenFails \/ CloseFile \/ BeginCreate \/ CreateFails \/ EndCreate
    PROVE  Staged'
<1>1. ~Busy /\ ~Busy'
  BY DEF OpenFile, OpenFails, CloseFile, BeginCreate, CreateFails, EndCreate,
         Aside, Truncate, Staged, Around, Busy
<1>2. Underway'
  BY <1>1 DEF Underway
<1>3. CASE OpenFile
  <2>1. /\ handle = "closed" /\ handle' = "open" /\ buffer' = <<>> /\ failed' = failed
        /\ metadata' = disk_metadata' /\ header' = disk_header'
    BY <1>3 DEF OpenFile, Open, Aside, file, Staged, Around
  <2> QED
    BY <1>1, <1>2, <2>1 DEF Staged, Around, Serving
<1>4. CASE OpenFails \/ CreateFails
  <2>1. handle = "closed" /\ handle' = "closed" /\ buffer' = <<>> /\ failed' = failed
    BY <1>4 DEF OpenFails, CreateFails, Truncate, Aside, Staged, Around
  <2> QED
    BY <1>1, <1>2, <2>1 DEF Staged, Around, Serving
<1>5. CASE CloseFile \/ EndCreate
  <2>1. handle' = "closed" /\ buffer' = <<>> /\ ~failed'
    BY <1>5 DEF CloseFile, EndCreate, Close, Forget
  <2> QED
    BY <1>1, <1>2, <2>1 DEF Staged, Around, Serving
<1>6. CASE BeginCreate
  <2>1. handle = "closed" /\ handle' = "creating" /\ buffer' = TableWrite /\ failed' = failed
    BY <1>6 DEF BeginCreate, Truncate
  <2>2. TableWrite' = TableWrite
    BY DEF TableWrite
  <2>3. ~failed
    BY <2>1, ResidentAssumption DEF Staged, Serving
  <2> QED
    BY <1>1, <1>2, <2>1, <2>2, <2>3 DEF Staged, Around, Serving
<1> QED
  BY <1>3, <1>4, <1>5, <1>6

\* What a call that begins to write has done: to its slot, to the count, and to
\* the stream.
LEMMA InsertBegun ==
    ASSUME Typed, NEW id \in Ids, NEW c \in Contents,
           BeginShared(id, c) \/ BeginNew(id, c)
    PROVE  \E i \in Slots, slot \in Slot :
              /\ LowestFree(i) /\ slot.is_valid /\ slot.img_id = id
              /\ metadata' = [metadata EXCEPT ![i] = slot]
              /\ task'.step = "slot" /\ task'.i = i
              /\ task'.answer = Answer("insert", id, "NONE", NoBlob, {})
              /\ header'.nb_files = header.nb_files + 1
              /\ \/ UNCHANGED buffer
                 \/ buffer = <<>> /\ buffer' # <<>> /\ buffer'[1].what = "image"
<1>0. metadata \in [Slots -> Slot] /\ data \in Seq(Blob)
  BY DEF Typed, TablesTyped
<1>1. header'.nb_files = header.nb_files + 1
  BY DEF BeginShared, BeginNew, Counted
<1>2. CASE BeginShared(id, c)
  <2>a. PICK i \in Slots : \E slot \in Deduped(i, id, c) :
          /\ LowestFree(i)
          /\ metadata' = [metadata EXCEPT ![i] = slot]
          /\ task' = Task("slot", i, Answer("insert", id, "NONE", NoBlob, {}))
    BY <1>2 DEF BeginShared
  <2>1. PICK slot \in Deduped(i, id, c) :
          /\ LowestFree(i)
          /\ metadata' = [metadata EXCEPT ![i] = slot]
          /\ task' = Task("slot", i, Answer("insert", id, "NONE", NoBlob, {}))
    BY <2>a
  <2>2. slot \in Slot /\ slot.is_valid /\ slot.img_id = id
    BY <1>0, DedupedType
  <2>3. UNCHANGED buffer
    BY <1>2 DEF BeginShared
  <2>4. task'.step = "slot" /\ task'.i = i
        /\ task'.answer = Answer("insert", id, "NONE", NoBlob, {})
    BY <2>1, TaskFields
  <2> QED
    BY <1>1, <2>1, <2>2, <2>3, <2>4
<1>3. CASE BeginNew(id, c)
  <2>a. PICK i \in Slots : \E slot \in Deduped(i, id, c) :
          /\ LowestFree(i)
          /\ metadata' = [metadata EXCEPT ![i] = Placed(slot)]
          /\ task' = Task("slot", i, Answer("insert", id, "NONE", NoBlob, {}))
    BY <1>3 DEF BeginNew
  <2>1. PICK slot \in Deduped(i, id, c) :
          /\ LowestFree(i)
          /\ metadata' = [metadata EXCEPT ![i] = Placed(slot)]
          /\ task' = Task("slot", i, Answer("insert", id, "NONE", NoBlob, {}))
    BY <2>a
  <2>2. slot \in Slot /\ slot.is_valid /\ slot.img_id = id
    BY <1>0, DedupedType
  <2>3. Placed(slot) \in Slot /\ Placed(slot).is_valid /\ Placed(slot).img_id = id
    BY <1>0, <2>2, UpdateFacts
  <2>4. buffer = <<>> /\ buffer' # <<>> /\ buffer'[1].what = "image"
    BY <1>3, WritesDiffer DEF BeginNew
  <2>5. task'.step = "slot" /\ task'.i = i
        /\ task'.answer = Answer("insert", id, "NONE", NoBlob, {})
    BY <2>1, TaskFields
  <2> QED
    BY <1>1, <2>1, <2>3, <2>4, <2>5
<1> QED
  BY <1>2, <1>3

\* What a delete has done when it writes: the slot it emptied is held.
LEMMA DeleteBegun ==
    ASSUME Typed, NEW id \in Ids, BeginDelete(id)
    PROVE  \E i \in Slots :
              /\ LastNamed(id, i) /\ metadata[i].is_valid
              /\ Emptied(metadata[i]) \in Slot
              /\ metadata' = [metadata EXCEPT ![i] = Emptied(metadata[i])]
              /\ buffer' = SlotWrite(i)'
              /\ task'.step = "header" /\ task'.i = i
              /\ task'.answer = Answer("delete", id, "NONE", NoBlob, {})
              /\ header'.nb_files = header.nb_files - 1
<1>0. metadata \in [Slots -> Slot] /\ data \in Seq(Blob)
  BY DEF Typed, TablesTyped
<1>1. PICK i \in Slots :
        /\ LastNamed(id, i) /\ metadata[i].is_valid
        /\ metadata' = [metadata EXCEPT ![i] = Emptied(metadata[i])]
        /\ buffer' = EmptiedWrite(i)
        /\ task' = Task("header", i, Answer("delete", id, "NONE", NoBlob, {}))
  BY DEF BeginDelete
<1>2. metadata'[i] = Emptied(metadata[i])
  BY <1>0, <1>1
<1>3. buffer' = SlotWrite(i)'
  BY <1>1, <1>2 DEF EmptiedWrite, SlotWrite
<1>4. header'.nb_files = header.nb_files - 1
  BY DEF BeginDelete, Counted
<1>5. Emptied(metadata[i]) \in Slot
  BY <1>0, UpdateFacts
<1>6. task'.step = "header" /\ task'.i = i
      /\ task'.answer = Answer("delete", id, "NONE", NoBlob, {})
  BY <1>1, TaskFields
<1> QED
  BY <1>1, <1>3, <1>4, <1>5, <1>6

\* What a resize has done when it writes: the slot has its image to come.
LEMMA ResizeBegun ==
    ASSUME Typed, NEW id \in Ids, NEW r \in Derived, BeginResize(id, r)
    PROVE  \E i \in Slots : \E c \in Rendered(i) :
              /\ FirstNamed(id, i) /\ ToResize(i, r) /\ metadata[i].is_valid
              /\ metadata[i].size[r] = 0
              /\ Resized(metadata[i], r) \in Slot
              /\ metadata' = [metadata EXCEPT ![i] = Resized(metadata[i], r)]
              /\ buffer' = ImageWrite([content |-> c, res |-> r])
              /\ task'.step = "slot" /\ task'.i = i
              /\ task'.answer = Answer("read", id, "NONE", [content |-> c, res |-> r], {})
<1>0. metadata \in [Slots -> Slot] /\ data \in Seq(Blob) /\ r \in Resolutions
  BY DEF Typed, TablesTyped, Resolutions
<1>a. PICK i \in Slots : \E c \in Rendered(i) :
        /\ FirstNamed(id, i) /\ ToResize(i, r) /\ metadata[i].is_valid
        /\ metadata[i].size[r] = 0
        /\ metadata' = [metadata EXCEPT ![i] = Resized(metadata[i], r)]
        /\ buffer' = ImageWrite([content |-> c, res |-> r])
        /\ task' = Task("slot", i, Answer("read", id, "NONE",
                                          [content |-> c, res |-> r], {}))
  BY DEF BeginResize
<1>1. PICK c \in Rendered(i) :
        /\ FirstNamed(id, i) /\ ToResize(i, r) /\ metadata[i].is_valid
        /\ metadata[i].size[r] = 0
        /\ metadata' = [metadata EXCEPT ![i] = Resized(metadata[i], r)]
        /\ buffer' = ImageWrite([content |-> c, res |-> r])
        /\ task' = Task("slot", i, Answer("read", id, "NONE",
                                          [content |-> c, res |-> r], {}))
  BY <1>a
<1>2. Resized(metadata[i], r) \in Slot
  BY <1>0, ResizedFacts
<1>3. task'.step = "slot" /\ task'.i = i
      /\ task'.answer = Answer("read", id, "NONE", [content |-> c, res |-> r], {})
  BY <1>1, TaskFields
<1> QED
  BY <1>1, <1>2, <1>3

\* A call begins at the write after which it seeks, or is over.
LEMMA BeginStaged ==
    ASSUME Typed, Staged,
           \/ Immediate
           \/ \E id \in Ids, c \in Contents : BeginShared(id, c) \/ BeginNew(id, c)
           \/ \E id \in Ids : BeginDelete(id) \/ BeginFails(id)
           \/ \E id \in Ids, r \in Derived : BeginResize(id, r)
    PROVE  Staged'
<1>0. metadata \in [Slots -> Slot] /\ data \in Seq(Blob)
  BY DEF Typed, TablesTyped
<1>a. Begins => /\ ~Busy /\ failed' = failed /\ UNCHANGED <<disk_metadata, disk_header>>
                /\ handle = "open" /\ handle' = IF Resident THEN "open" ELSE "done"
  BY DEF Begins, Calling, file
<1>1. CASE Immediate
  <2>1. Aside /\ UNCHANGED file
        /\ \/ UNCHANGED <<memory, handle>>
           \/ UNCHANGED header /\ Calling
           \/ Forget /\ buffer = <<>>
    BY <1>1, ImmediateFacts DEF memory
  <2>2. ~Busy /\ ~Busy' /\ UNCHANGED <<buffer, failed, disk_metadata, disk_header>>
        /\ Underway' /\ TableWrite' = TableWrite /\ SlotHeld' = SlotHeld
    BY <2>1 DEF Aside, Busy, file, Underway, TableWrite, SlotHeld
  <2>3. CASE UNCHANGED <<memory, handle>>
    BY <2>2, <2>3 DEF Staged, Around, Serving, memory, HeaderWrite
  <2>4. CASE UNCHANGED header /\ Calling
    BY <2>2, <2>4 DEF Staged, Around, Serving, HeaderWrite, Calling
  <2>5. CASE Forget /\ buffer = <<>>
    <3>1. handle' = "closed" /\ ~failed
      <4>1. handle \in {"open", "closed"}
        BY <1>1, <2>5 DEF Immediate, List, InsertFull, InsertDuplicate,
             InsertUndecodable, DeleteRefused, DeleteMissing, ReadMissing, ReadInvalid,
             ReadNoMemory, ReadStored, ReadResizeFails, Calling
      <4> QED
        BY <2>5, <4>1 DEF Forget, Staged, Serving
    <3> QED
      BY <2>2, <2>5, <3>1 DEF Staged, Around, Serving
  <2> QED
    BY <2>1, <2>3, <2>4, <2>5
<1>2. CASE \E id \in Ids, c \in Contents : BeginShared(id, c) \/ BeginNew(id, c)
  <2>1. PICK id \in Ids, c \in Contents : BeginShared(id, c) \/ BeginNew(id, c)
    BY <1>2
  <2>2. PICK i \in Slots, slot \in Slot :
          /\ slot.is_valid
          /\ metadata' = [metadata EXCEPT ![i] = slot]
          /\ task'.step = "slot" /\ task'.i = i
          /\ task'.answer = Answer("insert", id, "NONE", NoBlob, {})
          /\ \/ UNCHANGED buffer
             \/ buffer = <<>> /\ buffer' # <<>> /\ buffer'[1].what = "image"
    BY <2>1, InsertBegun
  <2>3. Begins
    BY <2>1, BeginInsertFacts
  <2>4. Busy' /\ Call' = "insert" /\ metadata'[task'.i].is_valid
    BY <1>0, <2>2, AnswerFields DEF Busy, Call
  <2>5. buffer' # <<>> => \/ buffer'[1].what = "image"
                          \/ Resident /\ buffer'[1].what = "header"
    <3>1. ~Resident => buffer = <<>>
      BY <1>a, <2>3 DEF Staged, Serving
    <3>2. buffer \in {<<>>, HeaderWrite}
      BY <1>a, <2>3 DEF Staged, Around
    <3>3. buffer # <<>> => buffer[1].what = "header" /\ Resident
      BY <3>1, <3>2, WritesDiffer
    <3> QED
      BY <2>2, <3>3
  <2>6. buffer' # <<>> => ~failed'
    BY <1>a, <2>2, <2>3 DEF Staged, Around, Serving
  <2> QED
    BY <1>a, <2>2, <2>3, <2>4, <2>5, <2>6 DEF Staged, Around, Serving, Underway
<1>3. CASE \E id \in Ids : BeginDelete(id)
  <2>1. PICK id \in Ids : BeginDelete(id)
    BY <1>3
  <2>2. PICK i \in Slots :
          /\ Emptied(metadata[i]) \in Slot
          /\ metadata' = [metadata EXCEPT ![i] = Emptied(metadata[i])]
          /\ buffer' = SlotWrite(i)'
          /\ task'.step = "header" /\ task'.i = i
          /\ task'.answer = Answer("delete", id, "NONE", NoBlob, {})
    BY <2>1, DeleteBegun
  <2>3. Begins
    BY <2>1, BeginDeleteFacts
  <2>4. Busy' /\ Call' = "delete" /\ ~metadata'[task'.i].is_valid
    BY <1>0, <2>2, AnswerFields DEF Busy, Call, Emptied, Metadata
  <2>5. ~failed
    BY <1>a, <2>3 DEF Staged, Serving
  <2> QED
    BY <1>a, <2>2, <2>3, <2>4, <2>5 DEF Staged, Around, Serving, Underway, SlotWrite
<1>4. CASE \E id \in Ids, r \in Derived : BeginResize(id, r)
  <2>1. PICK id \in Ids, r \in Derived : BeginResize(id, r)
    BY <1>4
  <2>a. PICK i \in Slots : \E c \in Rendered(i) :
          /\ metadata[i].is_valid
          /\ metadata' = [metadata EXCEPT ![i] = Resized(metadata[i], r)]
          /\ buffer' = ImageWrite([content |-> c, res |-> r])
          /\ task'.step = "slot" /\ task'.i = i
          /\ task'.answer = Answer("read", id, "NONE", [content |-> c, res |-> r], {})
    BY <2>1, ResizeBegun
  <2>2. PICK c \in Rendered(i) :
          /\ metadata[i].is_valid
          /\ metadata' = [metadata EXCEPT ![i] = Resized(metadata[i], r)]
          /\ buffer' = ImageWrite([content |-> c, res |-> r])
          /\ task'.step = "slot" /\ task'.i = i
          /\ task'.answer = Answer("read", id, "NONE", [content |-> c, res |-> r], {})
    BY <2>a
  <2>3. Begins /\ UNCHANGED header /\ buffer = <<>>
    BY <2>1, BeginResizeFacts
  <2>4. Busy' /\ Call' = "read" /\ metadata'[task'.i].is_valid
    BY <1>0, <2>2, AnswerFields DEF Busy, Call, Resized, Metadata
  <2>5. buffer' # <<>> /\ buffer'[1].what = "image" /\ ~failed
    BY <1>a, <2>2, <2>3, WritesDiffer DEF Staged, Serving
  <2>6. header = disk_header
    BY <1>a, <2>3 DEF Staged, Around
  <2> QED
    BY <1>a, <2>2, <2>3, <2>4, <2>5, <2>6 DEF Staged, Around, Serving, Underway
<1>5. CASE \E id \in Ids : BeginFails(id)
  <2>1. /\ ~Resident /\ ~Busy /\ Calling /\ buffer = <<>>
        /\ UNCHANGED <<buffer, failed, task>>
    BY <1>5, BeginFailsFacts
  <2> QED
    BY <2>1 DEF Staged, Around, Serving, Underway, Calling, Busy
<1> QED
  BY <1>1, <1>2, <1>3, <1>4, <1>5

\* Each later write is held, and follows one that is in the file or lost.
LEMMA StepStaged ==
    ASSUME Typed, Staged, WriteSlot \/ WriteHeader \/ Reread \/ ReadFails \/ StepFails
    PROVE  Staged'
<1>0. Idle.step = "idle"
  BY TaskFields
<1>1. CASE WriteSlot
  <2>1. /\ UNCHANGED <<metadata, header, disk_metadata, disk_header, handle, failed>>
        /\ buffer' = SlotWrite(task.i) /\ ~failed
        /\ task'.i = task.i /\ task'.answer = task.answer
        /\ task'.step = IF Call = "read" THEN "reread" ELSE "header"
    BY <1>1, TaskFields DEF WriteSlot, vars, memory, file, Call
  <2>2. Busy /\ Busy' /\ Call' = Call
    BY <1>1, <2>1 DEF WriteSlot, Busy, Call
  <2>3. buffer' = SlotWrite(task.i)'
    BY <2>1 DEF SlotWrite
  <2> QED
    BY <2>1, <2>2, <2>3 DEF Staged, Around, Serving, Underway
<1>2. CASE WriteHeader
  <2>1. Busy /\ ~Busy' /\ ~failed'
        /\ UNCHANGED <<metadata, header, disk_metadata, disk_header, handle>>
    BY <1>0, <1>2 DEF WriteHeader, Ends, Busy, file, memory
  <2>2. CASE ~failed
    <3>1. buffer' = HeaderWrite' /\ buffer' # <<>>
      BY <1>2, <2>1, <2>2, WritesDiffer DEF WriteHeader, HeaderWrite
    <3> QED
      BY <2>1, <3>1 DEF Staged, Around, Serving, Underway
  <2>3. CASE failed
    <3>1. SlotHeld' /\ buffer' # <<>>
      BY <1>2, <2>3 DEF WriteHeader, HeaderOverSlot, SlotHeld
    <3>2. handle = "done"
      BY <2>1, <2>3 DEF Staged, Serving
    <3> QED
      BY <2>1, <3>1, <3>2 DEF Staged, Around, Serving, Underway
  <2> QED
    BY <2>2, <2>3
<1>3. CASE Reread
  <2>1. Busy /\ ~Busy' /\ ~failed' /\ buffer' = <<>> /\ Call = "read"
        /\ UNCHANGED <<metadata, header, disk_metadata, disk_header, handle>>
    BY <1>0, <1>3 DEF Reread, Ends, Busy, file, memory, stream, Staged, Underway
  <2> QED
    BY <2>1 DEF Staged, Around, Serving, Underway
<1>4. CASE StepFails
  <2>1. Busy /\ ~Busy' /\ ~failed' /\ buffer' = <<>> /\ ~Resident
        /\ UNCHANGED <<metadata, header, disk_metadata, disk_header, handle>>
    BY <1>0, <1>4 DEF StepFails, Ends, Busy, file, memory, Staged, Serving
  <2> QED
    BY <2>1 DEF Staged, Around, Serving, Underway
<1>5. CASE ReadFails
  <2>1. Busy /\ ~Busy' /\ ~Resident
        /\ UNCHANGED <<metadata, header, disk_metadata, disk_header, handle, buffer, failed>>
    BY <1>0, <1>5 DEF ReadFails, Ends, Busy, file, memory, stream
  <2>2. buffer = <<>> \/ SlotHeld
    BY <1>5, <2>1, WritesDiffer DEF ReadFails, SlotHeld, Staged, Underway
  <2>3. handle = "done" /\ SlotHeld' = SlotHeld
    BY <2>1 DEF Staged, Serving, SlotHeld
  <2> QED
    BY <2>1, <2>2, <2>3 DEF Staged, Around, Serving, Underway
<1> QED
  BY <1>1, <1>2, <1>3, <1>4, <1>5

\* Every step keeps the writes in their order.
LEMMA StagedStep == Typed /\ Staged /\ [DiskNext]_all => Staged'
<1> SUFFICES ASSUME Typed, Staged, [DiskNext]_all PROVE Staged'
  OBVIOUS
<1>1. CASE UNCHANGED all
  BY <1>1 DEF all, vars, Staged, Around, Serving, Underway, Busy, Call, SlotWrite,
              HeaderWrite, TableWrite, SlotHeld
<1>2. CASE DiskNext
  BY <1>2, FlushStaged, FailStaged, AroundStaged, BeginStaged, StepStaged DEF DiskNext
<1> QED
  BY <1>1, <1>2

-----------------------------------------------------------------------------
(* nb_files and the slots of the file, through faults.                      *)

\* n is off the number of valid slots in the file by k at most.
OffBy(n, k) ==
    LET drift == n - Cardinality(Valid(disk_metadata)) IN drift <= k /\ -drift <= k

\* The slot of an insert or a delete is not in the file yet, or will not be.
Pending == Call # "read" /\ (task.step = "slot" \/ buffer # <<>> \/ failed)

\* The header in memory counts what the call in progress will have done.
CountsAhead ==
    /\ disk_metadata[task.i].is_valid # metadata[task.i].is_valid
    /\ header.nb_files = disk_header.nb_files + (IF Call = "insert" THEN 1 ELSE -1)

\* The slot is in the file and the header is not, yet.
HeaderBehind == OffBy(disk_header.nb_files, faults + 1) /\ OffBy(header.nb_files, faults)

Counts ==
    /\ Busy /\ Pending => CountsAhead /\ OffBy(disk_header.nb_files, faults)
    /\ Busy /\ Call = "read" =>
         disk_metadata[task.i].is_valid /\ OffBy(disk_header.nb_files, faults)
    /\ Busy /\ Call # "read" /\ ~Pending => HeaderBehind
    /\ ~Busy /\ buffer = HeaderWrite => HeaderBehind
    /\ ~Busy /\ buffer # HeaderWrite => OffBy(disk_header.nb_files, faults)
    /\ ~Busy /\ SlotHeld => buffer[1].slot.is_valid /\ disk_metadata[buffer[1].i].is_valid

\* What is compared are numbers.
LEMMA OffByNumbers ==
    ASSUME Typed
    PROVE  /\ Cardinality(Valid(disk_metadata)) \in Nat
           /\ faults \in Nat
           /\ disk_header.nb_files \in Int /\ header.nb_files \in Int
BY ValidFinite, FaultsAssumption DEF Typed, TablesTyped, Header

\* Further off is allowed too.
LEMMA OffByMore ==
    ASSUME Typed, NEW n \in Int, OffBy(n, faults)
    PROVE  OffBy(n, faults + 1)
BY OffByNumbers DEF OffBy

\* The bound of the invariant is that of the property.
LEMMA CountsEnough == Typed /\ Counts => CountDrift
<1> SUFFICES ASSUME Typed, Counts PROVE CountDrift
  OBVIOUS
<1> DEFINE open == Busy \/ buffer # <<>>
<1>1. Cardinality({w \in {1} : open}) = IF open THEN 1 ELSE 0
  <2>1. CASE open
    <3>1. {w \in {1} : open} = {1}
      BY <2>1
    <3> QED
      BY <2>1, <3>1, FS_Singleton
  <2>2. CASE ~open
    <3>1. {w \in {1} : open} = {}
      BY <2>2
    <3> QED
      BY <2>2, <3>1, FS_EmptySet
  <2> QED
    BY <2>1, <2>2
<1>2. OffBy(disk_header.nb_files, faults + IF open THEN 1 ELSE 0)
  <2>1. CASE open
    BY <2>1, OffByMore, OffByNumbers DEF Counts, HeaderBehind
  <2>2. CASE ~open
    <3>1. buffer # HeaderWrite
      BY <2>2, WritesDiffer
    <3>2. OffBy(disk_header.nb_files, faults)
      BY <2>2, <3>1 DEF Counts
    <3> QED
      BY <2>2, <3>2, OffByNumbers DEF OffBy
  <2> QED
    BY <2>1, <2>2
<1> QED
  BY <1>1, <1>2 DEF CountDrift, OffBy

\* An empty file counts nothing.
LEMMA CountsInit == DiskInit => Counts
<1> SUFFICES ASSUME DiskInit PROVE Counts
  OBVIOUS
<1>1. ~Busy /\ buffer = <<>>
  BY TaskFields DEF DiskInit, Busy
<1>2. OffBy(disk_header.nb_files, faults)
  BY CountNone DEF DiskInit, Init, OffBy, EmptyHeader
<1> QED
  BY <1>1, <1>2, WritesDiffer DEF Counts, SlotHeld

\* A slot that changes sides moves the count by one, any other leaves it.
LEMMA CountFlips ==
    ASSUME NEW table \in [Slots -> Slot], NEW i \in Slots, NEW slot \in Slot
    PROVE  LET old == Cardinality(Valid(table))
               new == Cardinality(Valid([table EXCEPT ![i] = slot]))
           IN /\ old \in Nat /\ new \in Nat
              /\ slot.is_valid /\ table[i].is_valid => new = old
              /\ slot.is_valid /\ ~table[i].is_valid => new = old + 1
              /\ ~slot.is_valid /\ table[i].is_valid => new = old - 1
<1>1. i \in Valid(table) <=> table[i].is_valid
  BY DEF Valid
<1> QED
  BY <1>1, ValidFinite, CountTake, CountEmpty

\* A slot that reaches the file moves the header one off; the header takes it back.
LEMMA FlushCounts == ~Resident => (Typed /\ Staged /\ Counts /\ Flush => Counts')
<1> SUFFICES ASSUME ~Resident, Typed, Staged, Counts, Flush PROVE Counts'
  OBVIOUS
<1>1. /\ Busy' = Busy /\ Call' = Call /\ buffer' = <<>> /\ buffer # <<>> /\ ~failed
      /\ UNCHANGED <<metadata, header, handle, task, failed, faults>>
  BY DEF Flush, Busy, Call, memory, Staged, Around
<1>2. HeaderWrite # <<>> /\ HeaderWrite' # <<>> /\ ~SlotHeld'
  BY <1>1 DEF HeaderWrite, SlotHeld
<1>3. CASE ~Busy
  <2>1. CASE buffer = HeaderWrite
    <3>1. disk_header' = header /\ UNCHANGED disk_metadata
      BY <2>1, WritesDiffer DEF Flush
    <3> QED
      BY <1>1, <1>2, <1>3, <2>1, <3>1 DEF Counts, HeaderBehind, OffBy, Valid
  <2>2. CASE buffer = TableWrite /\ buffer # HeaderWrite
    <3>1. UNCHANGED <<disk_header, disk_metadata>>
      BY <2>2, WritesDiffer DEF Flush
    <3> QED
      BY <1>1, <1>2, <1>3, <2>2, <3>1 DEF Counts, OffBy, Valid
  <2>3. CASE SlotHeld
    <3> DEFINE i == buffer[1].i
               slot == buffer[1].slot
    <3>1. i \in Slots /\ slot \in Slot /\ disk_metadata \in [Slots -> Slot]
      BY <2>3 DEF SlotHeld, Typed, TablesTyped, Held, WriteOK
    <3>2. disk_metadata' = [disk_metadata EXCEPT ![i] = slot] /\ UNCHANGED disk_header
      BY <2>3 DEF Flush, SlotHeld
    <3>3. slot.is_valid /\ disk_metadata[i].is_valid
      BY <1>3, <2>3 DEF Counts
    <3> HIDE DEF i, slot
    <3>4. Cardinality(Valid(disk_metadata')) = Cardinality(Valid(disk_metadata))
      BY <3>1, <3>2, <3>3, CountFlips
    <3>5. Valid(disk_metadata)' = Valid(disk_metadata')
      BY DEF Valid
    <3>6. OffBy(disk_header.nb_files, faults)
      BY <1>3, <2>3, WritesDiffer DEF Counts, SlotHeld
    <3> QED
      BY <1>1, <1>2, <1>3, <3>2, <3>4, <3>5, <3>6 DEF Counts, OffBy
  <2> QED
    BY <1>1, <1>3, <2>1, <2>2, <2>3 DEF Staged, Around
<1>4. CASE Busy /\ task.step = "slot"
  <2>1. buffer[1].what = "image"
    BY <1>1, <1>4 DEF Staged, Underway
  <2>2. UNCHANGED <<disk_header, disk_metadata>>
    BY <2>1 DEF Flush
  <2> QED
    BY <1>1, <1>4, <2>2 DEF Counts, CountsAhead, Pending, OffBy, Valid
<1>5. CASE Busy /\ task.step # "slot"
  <2>1. buffer = SlotWrite(task.i)
    BY <1>1, <1>5 DEF Staged, Underway
  <2>2. disk_metadata' = [disk_metadata EXCEPT ![task.i] = metadata[task.i]]
        /\ UNCHANGED disk_header
    BY <2>1, WritesDiffer DEF Flush
  <2>3. metadata[task.i] \in Slot /\ task.i \in Slots /\ disk_metadata \in [Slots -> Slot]
    BY DEF Typed, TablesTyped
  <2> DEFINE old == Cardinality(Valid(disk_metadata))
             new == Cardinality(Valid(disk_metadata'))
  <2>4. /\ new \in Nat
        /\ metadata[task.i].is_valid /\ disk_metadata[task.i].is_valid => new = old
        /\ metadata[task.i].is_valid /\ ~disk_metadata[task.i].is_valid => new = old + 1
        /\ ~metadata[task.i].is_valid /\ disk_metadata[task.i].is_valid => new = old - 1
    BY <2>2, <2>3, CountFlips
  <2>5. old \in Nat /\ faults \in Nat
        /\ disk_header.nb_files \in Int /\ header.nb_files \in Int
    BY OffByNumbers
  <2>6. Valid(disk_metadata)' = Valid(disk_metadata')
    BY DEF Valid
  <2>7. CASE Call = "read"
    <3>1. metadata[task.i].is_valid /\ disk_metadata[task.i].is_valid
      BY <1>5, <2>7 DEF Counts, Staged, Underway
    <3>2. new = old
      BY <2>4, <3>1
    <3>3. disk_metadata'[task.i].is_valid
      BY <2>2, <2>3, <3>1
    <3>4. OffBy(disk_header.nb_files, faults)
      BY <1>5, <2>7 DEF Counts
    <3>5. OffBy(disk_header.nb_files, faults)'
      BY <1>1, <2>2, <2>6, <3>2, <3>4 DEF OffBy
    <3> QED
      BY <1>1, <1>5, <2>7, <3>3, <3>5 DEF Counts, Pending
  <2>8. CASE Call # "read"
    <3>1. Pending /\ ~Pending'
      BY <1>1, <1>5, <2>8 DEF Pending, Call
    <3>2. CountsAhead /\ OffBy(disk_header.nb_files, faults)
      BY <1>5, <3>1 DEF Counts
    <3>3. Call = "insert" <=> metadata[task.i].is_valid
      BY <1>5, <2>8 DEF Staged, Underway
    <3>4. new - old = header.nb_files - disk_header.nb_files
          /\ (new = old + 1 \/ new = old - 1)
      <4>1. CASE Call = "insert"
        <5>1. metadata[task.i].is_valid /\ ~disk_metadata[task.i].is_valid
          BY <2>3, <3>2, <3>3, <4>1 DEF CountsAhead, Slot
        <5> QED
          BY <2>4, <2>5, <3>2, <4>1, <5>1 DEF CountsAhead
      <4>2. CASE Call # "insert"
        <5>1. ~metadata[task.i].is_valid /\ disk_metadata[task.i].is_valid
          BY <2>3, <3>2, <3>3, <4>2 DEF CountsAhead, Slot
        <5> QED
          BY <2>4, <2>5, <3>2, <4>2, <5>1 DEF CountsAhead
      <4> QED
        BY <4>1, <4>2
    <3>5. disk_header.nb_files - old <= faults /\ -(disk_header.nb_files - old) <= faults
      BY <3>2 DEF OffBy
    <3>7. HeaderBehind'
      <4> HIDE DEF old, new
      <4>2. header.nb_files - new <= faults /\ -(header.nb_files - new) <= faults
        BY <2>4, <2>5, <3>4, <3>5
      <4>3. disk_header.nb_files - new <= faults + 1
            /\ -(disk_header.nb_files - new) <= faults + 1
        BY <2>4, <2>5, <3>4, <3>5
      <4> QED
        BY <1>1, <2>2, <2>6, <4>2, <4>3 DEF HeaderBehind, OffBy, new
    <3> QED
      BY <1>1, <1>5, <2>8, <3>1, <3>7 DEF Counts
  <2> QED
    BY <2>7, <2>8
<1> QED
  BY <1>3, <1>4, <1>5

\* A lost write leaves the header one further off, for one fault more.
LEMMA FailCounts ==
    ~Resident => (Typed /\ Staged /\ Counts /\ (FlushFails \/ Stop) => Counts')
<1> SUFFICES ASSUME ~Resident, Typed, Staged, Counts, FlushFails \/ Stop PROVE Counts'
  OBVIOUS
<1>0. /\ buffer' = <<>> /\ UNCHANGED <<disk_metadata, disk_header>>
      /\ Fails /\ faults' = faults + 1
      /\ Valid(disk_metadata)' = Valid(disk_metadata)
      /\ HeaderWrite # <<>> /\ HeaderWrite' # <<>> /\ ~SlotHeld'
  BY DEF FlushFails, Stop, Lost, Fails, Valid, HeaderWrite, SlotHeld
<1>1. CASE FlushFails
  <2>1. /\ Busy' = Busy /\ Call' = Call /\ buffer # <<>> /\ failed'
        /\ UNCHANGED <<metadata, header, task>>
    BY <1>1 DEF FlushFails, Busy, Call, memory
  <2>2. OffBy(disk_header.nb_files, faults) =>
          OffBy(disk_header.nb_files, faults)' /\ OffBy(disk_header.nb_files, faults + 1)'
    BY <1>0, OffByNumbers DEF OffBy
  <2>3. OffBy(disk_header.nb_files, faults + 1) => OffBy(disk_header.nb_files, faults)'
    BY <1>0 DEF OffBy
  <2>4. CASE ~Busy
    BY <1>0, <2>1, <2>2, <2>3, <2>4 DEF Counts, HeaderBehind
  <2>5. CASE Busy /\ Call = "read"
    BY <1>0, <2>1, <2>2, <2>5 DEF Counts, Pending
  <2>6. CASE Busy /\ Call # "read"
    <3>1. Pending /\ Pending'
      BY <2>1, <2>6 DEF Pending
    <3> QED
      BY <1>0, <2>1, <2>2, <2>6, <3>1 DEF Counts, CountsAhead
  <2> QED
    BY <2>4, <2>5, <2>6
<1>2. CASE Stop
  <2>1. ~Busy'
    BY <1>2, TaskFields DEF Stop, Busy
  <2>2. OffBy(disk_header.nb_files, faults + 1)
    BY OffByMore, OffByNumbers DEF Counts, HeaderBehind
  <2>3. OffBy(disk_header.nb_files, faults)'
    BY <1>0, <2>2 DEF OffBy
  <2> QED
    BY <1>0, <2>1, <2>3 DEF Counts
<1> QED
  BY <1>1, <1>2

\* Opening counts what is there; an empty file counts nothing.
LEMMA AroundCounts ==
    ASSUME ~Resident, Typed, Staged, Counts,
           OpenFile \/ OpenFails \/ CloseFile \/ BeginCreate \/ CreateFails \/ EndCreate
    PROVE  Counts'
<1>0. HeaderWrite # <<>> /\ HeaderWrite' # <<>>
  BY DEF HeaderWrite
<1>1. ~Busy /\ ~Busy'
  BY DEF OpenFile, OpenFails, CloseFile, BeginCreate, CreateFails, EndCreate,
         Aside, Truncate, Staged, Around, Busy
<1>2. CASE OpenFile \/ OpenFails \/ CloseFile \/ EndCreate
  <2>1. buffer = <<>> /\ buffer' = <<>>
        /\ UNCHANGED <<disk_metadata, disk_header, faults>>
    BY <1>2 DEF OpenFile, Open, OpenFails, CloseFile, Close, Forget, EndCreate,
                Aside, file, Staged, Around
  <2> QED
    BY <1>0, <1>1, <2>1 DEF Counts, OffBy, Valid, SlotHeld
<1>3. CASE BeginCreate \/ CreateFails
  <2>1. disk_metadata' = EmptyTable /\ disk_header' = EmptyHeader
        /\ faults' \in Nat
    BY <1>3, FaultTyped, OffByNumbers DEF BeginCreate, CreateFails, Truncate, Fails
  <2>2. OffBy(disk_header.nb_files, faults)'
    <3>1. Valid(disk_metadata)' = Valid(EmptyTable) /\ disk_header'.nb_files = 0
      BY <2>1 DEF Valid, EmptyHeader
    <3> QED
      BY <2>1, <3>1, CountNone DEF OffBy
  <2>3. buffer' # HeaderWrite' /\ ~SlotHeld'
    <3>1. TableWrite # HeaderWrite' /\ TableWrite[1].what # "slot"
      BY WritesDiffer DEF TableWrite, HeaderWrite
    <3> QED
      BY <1>0, <1>3, <3>1 DEF BeginCreate, CreateFails, Truncate, Staged, Around, SlotHeld
  <2> QED
    BY <1>1, <2>2, <2>3 DEF Counts
<1> QED
  BY <1>2, <1>3

\* A call that begins has counted in memory what it will do.
LEMMA BeginCounts ==
    ASSUME ~Resident, Typed, Staged, Counts,
           \/ Immediate
           \/ \E id \in Ids, c \in Contents : BeginShared(id, c) \/ BeginNew(id, c)
           \/ \E id \in Ids : BeginDelete(id) \/ BeginFails(id)
           \/ \E id \in Ids, r \in Derived : BeginResize(id, r)
    PROVE  Counts'
<1>0. metadata \in [Slots -> Slot] /\ data \in Seq(Blob)
      /\ HeaderWrite # <<>> /\ HeaderWrite' # <<>>
  BY DEF Typed, TablesTyped, HeaderWrite
<1>a. ~Busy /\ handle = "open" =>
        /\ metadata = disk_metadata /\ header = disk_header /\ ~failed /\ buffer = <<>>
        /\ OffBy(disk_header.nb_files, faults)
  BY <1>0 DEF Staged, Serving, Counts
<1>b. Begins => /\ ~Busy /\ handle = "open"
                /\ UNCHANGED <<failed, disk_metadata, disk_header, faults>>
                /\ Valid(disk_metadata)' = Valid(disk_metadata)
  BY DEF Begins, Calling, file, Valid
<1>1. CASE Immediate
  <2>1. Aside /\ UNCHANGED file
        /\ (handle \in {"open", "closed"} \/ UNCHANGED <<memory, handle>>)
    BY <1>1, ImmediateFacts DEF Immediate, List, InsertFull, InsertDuplicate,
             InsertUndecodable, DeleteRefused, DeleteMissing, ReadMissing, ReadInvalid,
             ReadNoMemory, ReadStored, ReadResizeFails, Calling
  <2>2. ~Busy /\ ~Busy' /\ UNCHANGED <<buffer, failed, disk_metadata, disk_header, faults>>
        /\ Valid(disk_metadata)' = Valid(disk_metadata)
    BY <2>1 DEF Aside, Busy, file, Valid
  <2>3. CASE handle \in {"open", "closed"}
    <3>1. buffer = <<>>
      BY <1>a, <2>2, <2>3 DEF Staged, Around
    <3> QED
      BY <1>0, <2>2, <3>1 DEF Counts, OffBy, SlotHeld
  <2>4. CASE UNCHANGED <<memory, handle>>
    BY <2>2, <2>4 DEF Counts, HeaderBehind, OffBy, memory, HeaderWrite, SlotHeld
  <2> QED
    BY <2>1, <2>3, <2>4
<1>2. CASE \E id \in Ids, c \in Contents : BeginShared(id, c) \/ BeginNew(id, c)
  <2>1. PICK id \in Ids, c \in Contents : BeginShared(id, c) \/ BeginNew(id, c)
    BY <1>2
  <2>2. PICK i \in Slots, slot \in Slot :
          /\ LowestFree(i) /\ slot.is_valid
          /\ metadata' = [metadata EXCEPT ![i] = slot]
          /\ task'.step = "slot" /\ task'.i = i
          /\ task'.answer = Answer("insert", id, "NONE", NoBlob, {})
          /\ header'.nb_files = header.nb_files + 1
    BY <2>1, InsertBegun
  <2>3. Begins
    BY <2>1, BeginInsertFacts
  <2>4. Busy' /\ Call' = "insert" /\ Pending'
    BY <2>2, AnswerFields DEF Busy, Call, Pending
  <2>5. CountsAhead'
    <3>1. metadata'[i].is_valid /\ ~disk_metadata'[i].is_valid
      BY <1>0, <1>a, <1>b, <2>2, <2>3 DEF LowestFree, Valid
    <3> QED
      BY <1>a, <1>b, <2>2, <2>3, <2>4, <3>1 DEF CountsAhead
  <2> QED
    BY <1>a, <1>b, <2>3, <2>4, <2>5 DEF Counts, OffBy
<1>3. CASE \E id \in Ids : BeginDelete(id)
  <2>1. PICK id \in Ids : BeginDelete(id)
    BY <1>3
  <2>2. PICK i \in Slots :
          /\ metadata[i].is_valid
          /\ metadata' = [metadata EXCEPT ![i] = Emptied(metadata[i])]
          /\ buffer' = SlotWrite(i)'
          /\ task'.step = "header" /\ task'.i = i
          /\ task'.answer = Answer("delete", id, "NONE", NoBlob, {})
          /\ header'.nb_files = header.nb_files - 1
    BY <2>1, DeleteBegun
  <2>3. Begins
    BY <2>1, BeginDeleteFacts
  <2>4. Busy' /\ Call' = "delete" /\ Pending'
    <3>1. buffer' # <<>>
      BY <2>2 DEF SlotWrite
    <3> QED
      BY <2>2, <3>1, AnswerFields DEF Busy, Call, Pending
  <2>5. CountsAhead'
    <3>1. ~metadata'[i].is_valid /\ disk_metadata'[i].is_valid
      BY <1>0, <1>a, <1>b, <2>2, <2>3 DEF Emptied, Metadata
    <3>2. header'.nb_files = disk_header'.nb_files + (-1)
      BY <1>a, <1>b, <2>2, <2>3, OffByNumbers
    <3> QED
      BY <2>2, <2>4, <3>1, <3>2 DEF CountsAhead
  <2> QED
    BY <1>a, <1>b, <2>3, <2>4, <2>5 DEF Counts, OffBy
<1>4. CASE \E id \in Ids, r \in Derived : BeginResize(id, r)
  <2>1. PICK id \in Ids, r \in Derived : BeginResize(id, r)
    BY <1>4
  <2>2. PICK i \in Slots : \E c \in Rendered(i) :
          /\ metadata[i].is_valid
          /\ task'.step = "slot" /\ task'.i = i
          /\ task'.answer = Answer("read", id, "NONE", [content |-> c, res |-> r], {})
    BY <2>1, ResizeBegun
  <2>3. Begins
    BY <2>1, BeginResizeFacts
  <2>4. Busy' /\ Call' = "read" /\ ~Pending'
    BY <2>2, AnswerFields DEF Busy, Call, Pending
  <2>5. disk_metadata'[task'.i].is_valid
    BY <1>a, <1>b, <2>2, <2>3
  <2> QED
    BY <1>a, <1>b, <2>3, <2>4, <2>5 DEF Counts, OffBy
<1>5. CASE \E id \in Ids : BeginFails(id)
  <2>1. /\ ~Busy /\ Calling /\ buffer = <<>>
        /\ UNCHANGED <<buffer, task, disk_metadata, disk_header>>
        /\ Fails
    BY <1>5, BeginFailsFacts DEF BeginFails
  <2>2. OffBy(disk_header.nb_files, faults)'
    BY <1>a, <2>1, OffByNumbers DEF OffBy, Fails, Calling, Valid
  <2> QED
    BY <1>0, <2>1, <2>2 DEF Counts, Busy, SlotHeld
<1> QED
  BY <1>1, <1>2, <1>3, <1>4, <1>5

\* The header goes after the slot, or the call fails on the way.
LEMMA StepCounts ==
    ASSUME ~Resident, Typed, Staged, Counts,
           WriteSlot \/ WriteHeader \/ Reread \/ ReadFails \/ StepFails
    PROVE  Counts'
<1>0. Idle.step = "idle" /\ HeaderWrite # <<>> /\ HeaderWrite' # <<>>
  BY TaskFields DEF HeaderWrite
<1>1. CASE WriteSlot
  <2>1. /\ UNCHANGED <<metadata, header, disk_metadata, disk_header, failed, faults>>
        /\ buffer' = SlotWrite(task.i) /\ buffer' # <<>> /\ ~failed
        /\ task.step = "slot" /\ task'.i = task.i /\ task'.answer = task.answer
        /\ task'.step # "idle"
    BY <1>1, TaskFields, WritesDiffer DEF WriteSlot, vars
  <2>2. Busy /\ Busy' /\ Call' = Call /\ (Call # "read" => Pending /\ Pending')
        /\ (Call = "read" => ~Pending')
    BY <2>1 DEF Busy, Call, Pending
  <2> QED
    BY <2>1, <2>2 DEF Counts, CountsAhead, OffBy, Valid
<1>2. CASE WriteHeader
  <2>1. /\ Busy /\ task.step = "header" /\ buffer = <<>> /\ (failed => Call = "delete")
        /\ ~Busy' /\ UNCHANGED <<header, disk_metadata, disk_header, faults>>
    BY <1>0, <1>2 DEF WriteHeader, Ends, Busy, file, memory, Call
  <2>2. Call # "read"
    BY <2>1 DEF Staged, Underway
  <2>3. CASE ~failed
    <3>1. buffer' = HeaderWrite' /\ ~SlotHeld' /\ ~Pending
      BY <1>2, <2>1, <2>3, WritesDiffer DEF WriteHeader, HeaderWrite, SlotHeld, Pending
    <3> QED
      BY <2>1, <2>2, <3>1 DEF Counts, HeaderBehind, OffBy, Valid
  <2>4. CASE failed
    <3>1. buffer' = HeaderOverSlot(task.i) /\ Pending
      BY <1>2, <2>2, <2>4 DEF WriteHeader, Pending
    <3>2. disk_metadata[task.i].is_valid /\ OffBy(disk_header.nb_files, faults)
      <4>1. ~metadata[task.i].is_valid
        BY <2>1, <2>4 DEF Staged, Underway
      <4>2. disk_metadata[task.i].is_valid \in BOOLEAN /\ metadata[task.i].is_valid \in BOOLEAN
        BY DEF Typed, TablesTyped, Slot
      <4> QED
        BY <2>1, <3>1, <4>1, <4>2 DEF Counts, CountsAhead
    <3>3. [disk_metadata[task.i] EXCEPT !.img_id = CAT_TXT].is_valid
      BY <3>2 DEF Typed, TablesTyped, Slot, Metadata
    <3>4. buffer'[1].what = "slot" /\ buffer'[1].i = task.i /\ buffer'[1].slot.is_valid
      BY <3>1, <3>3 DEF HeaderOverSlot
    <3>5. buffer' # HeaderWrite'
      BY <3>4 DEF HeaderWrite
    <3> QED
      BY <2>1, <3>2, <3>4, <3>5 DEF Counts, OffBy, Valid
  <2> QED
    BY <2>3, <2>4
<1>3. CASE Reread
  <2>1. /\ Busy /\ Call = "read" /\ ~Busy' /\ buffer' = <<>>
        /\ UNCHANGED <<disk_metadata, disk_header, faults>>
    BY <1>0, <1>3 DEF Reread, Ends, Busy, file, stream, Staged, Underway
  <2> QED
    BY <1>0, <2>1 DEF Counts, OffBy, Valid, SlotHeld
<1>4. CASE StepFails
  <2>1. /\ Busy /\ ~Busy' /\ buffer = <<>> /\ buffer' = <<>>
        /\ UNCHANGED <<disk_metadata, disk_header>>
        /\ Valid(disk_metadata)' = Valid(disk_metadata)
        /\ \/ failed /\ Call # "delete" /\ UNCHANGED faults
           \/ faults' = faults + 1
    BY <1>0, <1>4 DEF StepFails, Ends, Busy, file, Fails, Call, Valid
  <2>2. OffBy(disk_header.nb_files, faults)'
    <3>1. CASE failed /\ Call # "delete" /\ UNCHANGED faults
      <4>1. Call = "read" \/ Pending
        BY <2>1, <3>1 DEF Staged, Underway, Pending
      <4> QED
        BY <2>1, <3>1, <4>1 DEF Counts, OffBy
    <3>2. CASE faults' = faults + 1
      <4>1. OffBy(disk_header.nb_files, faults + 1)
        BY <2>1, OffByMore, OffByNumbers DEF Counts, HeaderBehind
      <4> QED
        BY <2>1, <3>2, <4>1 DEF OffBy
    <3> QED
      BY <2>1, <3>1, <3>2
  <2> QED
    BY <1>0, <2>1, <2>2 DEF Counts, SlotHeld
<1>5. CASE ReadFails
  <2>1. /\ Busy /\ ~Busy' /\ task.step = "reread" /\ faults' = faults + 1
        /\ UNCHANGED <<metadata, header, disk_metadata, disk_header, buffer>>
        /\ Valid(disk_metadata)' = Valid(disk_metadata)
    BY <1>0, <1>5 DEF ReadFails, Ends, Busy, file, memory, stream, Fails, Valid
  <2>2. /\ Call = "read" /\ metadata[task.i].is_valid
        /\ buffer = <<>> \/ buffer = SlotWrite(task.i)
    BY <2>1 DEF Staged, Underway
  <2>3. disk_metadata[task.i].is_valid /\ OffBy(disk_header.nb_files, faults)
    BY <2>1, <2>2 DEF Counts
  <2>4. OffBy(disk_header.nb_files, faults)'
    BY <2>1, <2>3, OffByNumbers DEF OffBy
  <2>5. buffer' # HeaderWrite'
    BY <1>0, <2>1, <2>2, WritesDiffer DEF HeaderWrite
  <2>6. SlotHeld' => buffer'[1].slot.is_valid /\ disk_metadata'[buffer'[1].i].is_valid
    BY <2>1, <2>2, <2>3, WritesDiffer DEF SlotHeld
  <2> QED
    BY <2>1, <2>4, <2>5, <2>6 DEF Counts
<1> QED
  BY <1>1, <1>2, <1>3, <1>4, <1>5

\* Every step keeps the counts.
LEMMA CountsStep == ~Resident => (Typed /\ Staged /\ Counts /\ [DiskNext]_all => Counts')
<1> SUFFICES ASSUME ~Resident, Typed, Staged, Counts, [DiskNext]_all PROVE Counts'
  OBVIOUS
<1>1. CASE UNCHANGED all
  BY <1>1 DEF all, vars, Counts, CountsAhead, HeaderBehind, Pending, OffBy, Busy, Call,
              HeaderWrite, Valid, SlotHeld
<1>2. CASE DiskNext
  BY <1>2, FlushCounts, FailCounts, AroundCounts, BeginCounts, StepCounts DEF DiskNext
<1> QED
  BY <1>1, <1>2

\* For any constants and any number of faults, run as commands: nb_files in the
\* file is off the number of its NON_EMPTY slots by no more than calls went
\* wrong, or are under way.
THEOREM CountDriftIsBounded ==
    ASSUME ~Resident
    PROVE  DiskSpec => []CountDrift
<1>1. Typed /\ Staged /\ [DiskNext]_all => Staged'
  BY StagedStep
<1>2. Typed /\ Staged /\ Counts /\ [DiskNext]_all => Counts'
  BY CountsStep
<1> QED
  BY <1>1, <1>2, DiskInitTyped, TypedStep, StagedInit, CountsInit, CountsEnough, PTL
     DEF DiskSpec

-----------------------------------------------------------------------------
(* What ImgfsLib sees through the stream.                                   *)

\* What does not read the file is the same seen through the mapping.
LEMMA SameNotions ==
    /\ Lib!Slots = Slots /\ Lib!EmptyTable = EmptyTable /\ Lib!EmptyHeader = EmptyHeader
    /\ Lib!NoBlob = NoBlob /\ Lib!Resolutions = Resolutions
    /\ \A call, id, err, image, listed :
          Lib!Answer(call, id, err, image, listed) = Answer(call, id, err, image, listed)
    /\ \A table : Lib!Valid(table) = Valid(table)
    /\ \A id : Lib!Named(id) = Named(id)
    /\ \A id, i : Lib!FirstNamed(id, i) <=> FirstNamed(id, i)
    /\ \A id, i : Lib!LastNamed(id, i) <=> LastNamed(id, i)
    /\ \A i, r : Lib!ToResize(i, r) <=> ToResize(i, r)
    /\ \A i : Lib!LowestFree(i) <=> LowestFree(i)
    /\ \A i, id, c, j : Lib!FirstRival(i, id, c, j) <=> FirstRival(i, id, c, j)
    /\ \A i, id, c : Lib!Claimed(i, id, c) = Claimed(i, id, c)
    /\ \A slot : Lib!Emptied(slot) = Emptied(slot)
    /\ Lib!Listed = Listed
<1> USE DEF Lib!Slots, Slots, Lib!Resolutions, Resolutions, Lib!Metadata, Metadata,
            Lib!Zeros, Zeros, Lib!OnlyOrig, OnlyOrig, Lib!Valid, Valid, Lib!Named, Named
<1>1. /\ Lib!Slots = Slots /\ Lib!EmptyTable = EmptyTable /\ Lib!EmptyHeader = EmptyHeader
      /\ Lib!NoBlob = NoBlob /\ Lib!Resolutions = Resolutions
  BY DEF Lib!EmptyTable, EmptyTable, Lib!Unused, Unused, Lib!EmptyHeader, EmptyHeader,
         Lib!NoBlob, NoBlob
<1>2. \A call, id, err, image, listed :
          Lib!Answer(call, id, err, image, listed) = Answer(call, id, err, image, listed)
  BY DEF Lib!Answer, Answer
<1>3. /\ \A table : Lib!Valid(table) = Valid(table)
      /\ \A id : Lib!Named(id) = Named(id)
  OBVIOUS
<1>4. /\ \A id, i : Lib!FirstNamed(id, i) <=> FirstNamed(id, i)
      /\ \A id, i : Lib!LastNamed(id, i) <=> LastNamed(id, i)
      /\ \A i, r : Lib!ToResize(i, r) <=> ToResize(i, r)
  BY DEF Lib!FirstNamed, FirstNamed, Lib!LastNamed, LastNamed, Lib!ToResize, ToResize
<1>5. /\ \A i : Lib!LowestFree(i) <=> LowestFree(i)
      /\ \A i, id, c, j : Lib!FirstRival(i, id, c, j) <=> FirstRival(i, id, c, j)
  BY DEF Lib!LowestFree, LowestFree, Lib!FirstRival, FirstRival, Lib!Rivals, Rivals
<1>6. /\ \A i, id, c : Lib!Claimed(i, id, c) = Claimed(i, id, c)
      /\ \A slot : Lib!Emptied(slot) = Emptied(slot)
  BY DEF Lib!Claimed, Claimed, Lib!Emptied, Emptied
<1>7. Lib!Listed = Listed
  <2>1. \A S : Lib!Cardinality(S) = Cardinality(S)
    BY DEF Lib!Cardinality, Cardinality
  <2> QED
    BY <2>1 DEF Lib!Listed, Listed
<1> QED
  BY <1>1, <1>2, <1>3, <1>4, <1>5, <1>6, <1>7

\* So is the scan for the content of an insert: it reads memory alone.
LEMMA SameDedup ==
    /\ \A i, id, c : Lib!Deduped(i, id, c) = Deduped(i, id, c)
BY DEF Lib!Slots, Slots, Lib!Resolutions, Resolutions, Lib!Metadata, Metadata,
       Lib!OnlyOrig, OnlyOrig, Lib!Valid, Valid,
       Lib!Deduped, Deduped, Lib!Shared, Shared, Lib!Unplaced, Unplaced,
       Lib!Claimed, Claimed, Lib!FirstRival, FirstRival, Lib!Rivals, Rivals

\* And, when no image is held, so is what the image's place decides.
LEMMA SameData ==
    SettledData = data =>
    /\ \A slot : Lib!Placed(slot) = Placed(slot)
    /\ \A slot, r : Lib!Resized(slot, r) = Resized(slot, r)
    /\ \A i, r : Lib!Exact(i, r) <=> Exact(i, r)
    /\ \A i : Lib!Rendered(i) = Rendered(i)
<1> SUFFICES ASSUME SettledData = data
             PROVE  /\ \A slot : Lib!Placed(slot) = Placed(slot)
                    /\ \A slot, r : Lib!Resized(slot, r) = Resized(slot, r)
                    /\ \A i, r : Lib!Exact(i, r) <=> Exact(i, r)
                    /\ \A i : Lib!Rendered(i) = Rendered(i)
  OBVIOUS
<1>1. \A slot : Lib!Placed(slot) = Placed(slot)
  BY DEF Lib!Placed, Placed, Lib!Metadata, Metadata, Lib!OnlyOrig, OnlyOrig,
         Lib!Resolutions, Resolutions
<1>2. \A slot, r : Lib!Resized(slot, r) = Resized(slot, r)
  BY DEF Lib!Resized, Resized, Lib!Metadata, Metadata
<1>3. \A i, r : Lib!Exact(i, r) <=> Exact(i, r)
  BY DEF Lib!Exact, Exact
<1>4. \A i : Lib!Rendered(i) = Rendered(i)
  BY <1>3 DEF Lib!Rendered, Rendered
<1> QED
  BY <1>1, <1>2, <1>3, <1>4

\* What ImgfsLib sees between two calls is the file, and of a held header the
\* one in memory.
IdleView ==
    ~Busy /\ ~SlotHeld =>
        /\ Settled = disk_metadata /\ SettledData = data /\ SettledRet = ret
        /\ buffer # HeaderWrite => SettledHeader = disk_header
        /\ buffer = HeaderWrite \/ handle = "open" => SettledHeader = header
        /\ handle # "creating" => SettledHandle = handle

\* Between two calls ImgfsLib sees the file, before a step
LEMMA IdleIsSeen == Typed /\ Staged => IdleView
<1> SUFFICES ASSUME Typed, Staged, ~Busy, ~SlotHeld PROVE IdleView
  BY DEF IdleView
<1>1. Settled = disk_metadata
  BY DEF Settled, HeldSlot, SlotHeld, Typed, TablesTyped
<1>2. buffer # <<>> => buffer[1].what # "image"
  BY WritesDiffer DEF Staged, Around
<1>3. SettledData = data
  BY <1>2 DEF SettledData
<1>4. buffer = HeaderWrite \/ handle = "open" => SettledHeader = header
  BY DEF SettledHeader, Staged, Around
<1> QED
  BY <1>1, <1>3, <1>4 DEF IdleView, SettledRet, SettledHeader, SettledHandle

\* and after it.
LEMMA IdleIsSeenNext == Typed' /\ Staged' => IdleView'
<1> SUFFICES ASSUME Typed', Staged', ~Busy', ~SlotHeld' PROVE IdleView'
  BY DEF IdleView
<1>1. Settled' = disk_metadata'
  BY DEF Settled, HeldSlot, SlotHeld, Typed, TablesTyped
<1>2. buffer' # <<>> => buffer'[1].what # "image"
  BY DEF Staged, Around, HeaderWrite, TableWrite
<1>3. SettledData' = data'
  BY <1>2 DEF SettledData
<1>4. buffer' = HeaderWrite' \/ handle' = "open" => SettledHeader' = header'
  BY DEF SettledHeader, Staged, Around
<1> QED
  BY <1>1, <1>3, <1>4 DEF IdleView, SettledRet, SettledHeader, SettledHandle

\* What the stream passes on was seen already.
LEMMA FlushUnseen ==
    ASSUME Typed, Staged, Flush
    PROVE  UNCHANGED Lib!vars
<1>1. /\ buffer' = <<>> /\ buffer # <<>> /\ Busy' = Busy
      /\ UNCHANGED <<metadata, header, handle, ret, task>>
  BY DEF Flush, Busy, memory
<1>2. SettledHandle' = SettledHandle /\ SettledRet' = SettledRet
  BY <1>1 DEF SettledHandle, SettledRet
<1>3. SettledData' = SettledData
  BY <1>1 DEF SettledData, Flush
<1>4. Settled' = Settled
  <2>1. CASE buffer[1].what # "slot"
    <3>1. UNCHANGED disk_metadata
      BY <2>1 DEF Flush
    <3> QED
      BY <1>1, <2>1, <3>1 DEF Settled, HeldSlot
  <2>2. CASE buffer[1].what = "slot"
    <3>1. disk_metadata' = [disk_metadata EXCEPT ![buffer[1].i] = buffer[1].slot]
      BY <2>2 DEF Flush
    <3>2. \A i \in Slots :
             disk_metadata'[i] = IF HeldSlot(i) THEN buffer[1].slot ELSE disk_metadata[i]
      BY <1>1, <2>2, <3>1 DEF HeldSlot, Typed, TablesTyped
    <3> QED
      BY <1>1, <3>2 DEF Settled, HeldSlot
  <2> QED
    BY <2>1, <2>2
<1>5. SettledHeader' = SettledHeader
  <2>1. CASE Busy
    BY <1>1, <2>1 DEF SettledHeader
  <2>2. CASE ~Busy
    <3>1. CASE buffer = HeaderWrite
      BY <1>1, <2>2, <3>1, WritesDiffer DEF SettledHeader, Flush
    <3>2. CASE buffer = TableWrite /\ buffer # HeaderWrite
      <4>1. UNCHANGED disk_header /\ buffer' # HeaderWrite'
        BY <1>1, <3>2, WritesDiffer DEF Flush, HeaderWrite
      <4> QED
        BY <1>1, <2>2, <3>2, <4>1 DEF SettledHeader
    <3>3. CASE SlotHeld
      <4>1. UNCHANGED disk_header /\ buffer # HeaderWrite /\ buffer' # HeaderWrite'
        BY <1>1, <3>3, WritesDiffer DEF Flush, HeaderWrite, SlotHeld
      <4> QED
        BY <1>1, <2>2, <4>1 DEF SettledHeader
    <3> QED
      BY <1>1, <2>2, <3>1, <3>2, <3>3 DEF Staged, Around
  <2> QED
    BY <2>1, <2>2
<1> QED
  BY <1>1, <1>2, <1>3, <1>4, <1>5 DEF Lib!vars

\* Opening, closing and creating are those of ImgfsLib, or not seen.
LEMMA AroundSeen ==
    ASSUME Typed, Staged, Typed', Staged',
           OpenFile \/ CloseFile \/ BeginCreate \/ EndCreate
    PROVE  Lib!Next \/ UNCHANGED Lib!vars
<1>1. ~Busy /\ ~Busy'
  BY DEF OpenFile, CloseFile, BeginCreate, EndCreate, Aside, Truncate, Staged, Around, Busy
<1>2. IdleView /\ IdleView'
  BY IdleIsSeen, IdleIsSeenNext
<1>3. /\ HeaderWrite # <<>> /\ HeaderWrite' # <<>>
      /\ buffer = <<>> => ~SlotHeld
      /\ buffer' = <<>> \/ buffer' = TableWrite => ~SlotHeld'
  BY WritesDiffer DEF HeaderWrite, SlotHeld
<1>4. CASE OpenFile
  <2>1. /\ handle = "closed" /\ handle' = "open" /\ buffer = <<>> /\ buffer' = <<>>
        /\ metadata' = disk_metadata /\ header' = disk_header
        /\ UNCHANGED file /\ ret' = Answer("open", Blank, "NONE", NoBlob, {})
    BY <1>4 DEF OpenFile, Open, Aside, Staged, Around, Returns
  <2>2. Lib!Open
    BY <1>1, <1>2, <1>3, <2>1, SameNotions
       DEF IdleView, Lib!Open, Lib!Returns, Lib!file, file
  <2> QED
    BY <2>2 DEF Lib!Next
<1>5. CASE CloseFile
  <2>1. /\ handle \notin {"closed", "creating"} /\ handle' = "closed"
        /\ buffer = <<>> /\ buffer' = <<>>
        /\ metadata' = EmptyTable /\ header' = EmptyHeader
        /\ UNCHANGED file /\ ret' = Answer("close", Blank, "NONE", NoBlob, {})
    BY <1>5 DEF CloseFile, Close, Forget, Returns
  <2>2. Lib!Close
    BY <1>1, <1>2, <1>3, <2>1, SameNotions
       DEF IdleView, Lib!Close, Lib!Forget, Lib!Returns, Lib!file, file
  <2> QED
    BY <2>2 DEF Lib!Next
<1>6. CASE BeginCreate
  <2>1. /\ handle = "closed" /\ handle' = "creating" /\ buffer = <<>>
        /\ buffer' = TableWrite
        /\ disk_metadata' = EmptyTable /\ disk_header' = EmptyHeader /\ data' = <<>>
        /\ UNCHANGED memory /\ ret' = Answer("create", Blank, "NONE", NoBlob, {})
    BY <1>6 DEF BeginCreate, Truncate, Returns, Staged, Around
  <2>2. buffer' # HeaderWrite'
    BY <2>1 DEF TableWrite, HeaderWrite
  <2>3. SettledHandle = "closed" /\ SettledHandle' = "closed"
    BY <2>1 DEF SettledHandle
  <2>4. Lib!Create
    BY <1>1, <1>2, <1>3, <2>1, <2>2, <2>3, SameNotions
       DEF IdleView, Lib!Create, Lib!Returns, memory
  <2> QED
    BY <2>4 DEF Lib!Next
<1>7. CASE EndCreate
  <2>1. /\ handle = "creating" /\ handle' = "closed" /\ buffer = <<>> /\ buffer' = <<>>
        /\ UNCHANGED <<metadata, header, disk_metadata, disk_header, data, ret>>
    BY <1>7 DEF EndCreate, memory, file
  <2> QED
    BY <1>1, <1>2, <1>3, <2>1 DEF IdleView, Lib!vars, SettledHandle
<1> QED
  BY <1>4, <1>5, <1>6, <1>7

\* What a call does after its first step is not seen.
LEMMA StepsUnseen ==
    ASSUME Typed, Staged, Typed', Staged', ~failed,
           WriteSlot \/ WriteHeader \/ Reread
    PROVE  UNCHANGED Lib!vars
<1>0. Idle.step = "idle" /\ HeaderWrite # <<>> /\ HeaderWrite' # <<>>
  BY TaskFields DEF HeaderWrite
<1>1. CASE WriteSlot
  <2>1. /\ UNCHANGED <<metadata, header, disk_metadata, disk_header, data, handle, ret>>
        /\ buffer = <<>> /\ buffer' = SlotWrite(task.i)
        /\ task'.i = task.i /\ task'.answer = task.answer
        /\ task.step = "slot" /\ task'.step # "idle"
    BY <1>1, TaskFields DEF WriteSlot, vars
  <2>2. Busy /\ Busy'
    BY <2>1 DEF Busy
  <2>3. SettledData' = SettledData
    BY <2>1, WritesDiffer DEF SettledData
  <2>4. Settled' = Settled
    BY <2>1, <2>2, WritesDiffer DEF Settled, HeldSlot
  <2> QED
    BY <2>1, <2>2, <2>3, <2>4 DEF Lib!vars, SettledHeader, SettledHandle, SettledRet
<1>2. CASE WriteHeader \/ Reread
  <2>1. /\ UNCHANGED <<metadata, header, disk_metadata, disk_header, data, handle>>
        /\ buffer = <<>> /\ task.step \in {"header", "reread"} /\ ret' = task.answer
        /\ ~Busy'
    BY <1>0, <1>2 DEF WriteHeader, Reread, Ends, Busy, memory, file
  <2>2. Busy /\ disk_metadata[task.i] = metadata[task.i]
    BY <2>1, WritesDiffer DEF Staged, Underway, Busy
  <2>3. Settled = disk_metadata
    BY <2>1, <2>2 DEF Settled, HeldSlot, Typed, TablesTyped
  <2>4. SettledHeader' = header'
    <3>1. CASE WriteHeader
      BY <3>1 DEF WriteHeader, HeaderWrite, SettledHeader, memory
    <3>2. CASE Reread
      BY <1>0, <2>1, <2>2, <3>2 DEF Reread, stream, SettledHeader, Staged, Underway
    <3> QED
      BY <1>2, <3>1, <3>2
  <2>5. SettledData = data
    BY <2>1 DEF SettledData
  <2>6. ~SlotHeld'
    BY <1>2, <2>1 DEF WriteHeader, Reread, stream, HeaderWrite, SlotHeld
  <2> QED
    BY <2>1, <2>2, <2>3, <2>4, <2>5, <2>6, IdleIsSeenNext
       DEF IdleView, Lib!vars, SettledHeader, SettledHandle, SettledRet
<1> QED
  BY <1>1, <1>2

\* A call is made on an open file.
LEMMA CallingSeen ==
    Calling => SettledHandle = "open" /\ SettledHandle' = handle' /\ Lib!Calling
BY DEF Calling, Lib!Calling, SettledHandle

\* Calls that do not write.
LEMMA ImmediateSeen ==
    ASSUME Typed, Staged, Typed', Staged', Immediate
    PROVE  Lib!Next
<1>1. Aside /\ ~Busy /\ ~Busy' /\ UNCHANGED buffer /\ UNCHANGED file
      /\ handle \in {"open", "closed"}
  BY ImmediateFacts DEF Immediate, Aside, Busy, List, InsertFull, InsertDuplicate,
       InsertUndecodable, DeleteRefused, DeleteMissing, ReadMissing, ReadInvalid,
       ReadNoMemory, ReadStored, ReadResizeFails, Calling
<1>2. IdleView /\ IdleView'
  BY IdleIsSeen, IdleIsSeenNext
<1>a. ~SlotHeld /\ ~SlotHeld'
  BY <1>1, WritesDiffer DEF Staged, Around, SlotHeld
<1>3. SettledData = data /\ SettledHandle = handle /\ SettledRet' = ret'
      /\ Settled' = Settled /\ SettledData' = SettledData
  BY <1>1, <1>2, <1>a DEF IdleView, file
<1>4. UNCHANGED header => SettledHeader' = SettledHeader
  BY <1>1 DEF SettledHeader, HeaderWrite, file
<1>5. Calling => Lib!Calling
  BY CallingSeen
<1> USE SameNotions DEF Lib!Next, Lib!memory, memory, Lib!file, Lib!Returns, Returns
<1>6. CASE List
  <2>1. Lib!List
    BY <1>3, <1>4, <1>5, <1>6 DEF List, Lib!List
  <2> QED
    BY <2>1
<1>7. CASE \E id \in Ids, c \in Contents :
             InsertFull(id) \/ InsertDuplicate(id, c) \/ InsertUndecodable(id, c)
  <2>1. PICK id \in Ids, c \in Contents :
             InsertFull(id) \/ InsertDuplicate(id, c) \/ InsertUndecodable(id, c)
    BY <1>7
  <2>2. CASE InsertFull(id)
    <3>1. Lib!InsertFull(id)
      BY <1>3, <1>4, <1>5, <2>2 DEF InsertFull, Lib!InsertFull
    <3> QED
      BY <2>1, <3>1 DEF Lib!Insert
  <2>3. CASE InsertDuplicate(id, c)
    <3>1. Lib!InsertDuplicate(id, c)
      BY <1>3, <1>4, <1>5, <2>3
         DEF InsertDuplicate, Lib!InsertDuplicate, LeaveInMemory, Lib!LeaveInMemory
    <3> QED
      BY <2>1, <3>1 DEF Lib!Insert
  <2>4. CASE InsertUndecodable(id, c)
    <3>1. Lib!InsertUndecodable(id, c)
      BY <1>3, <1>4, <1>5, <2>4, SameDedup
         DEF InsertUndecodable, Lib!InsertUndecodable, LeaveInMemory, Lib!LeaveInMemory
    <3> QED
      BY <2>1, <3>1 DEF Lib!Insert
  <2> QED
    BY <2>1, <2>2, <2>3, <2>4
<1>8. CASE \E id \in Ids : DeleteRefused(id) \/ DeleteMissing(id) \/ ReadMissing(id)
  <2>1. PICK id \in Ids : DeleteRefused(id) \/ DeleteMissing(id) \/ ReadMissing(id)
    BY <1>8
  <2>2. CASE DeleteRefused(id)
    <3>1. SettledHandle' = SettledHandle
      BY <1>3, <2>2 DEF DeleteRefused, SettledHandle
    <3>2. Lib!DeleteRefused(id)
      BY <1>3, <1>4, <2>2, <3>1 DEF DeleteRefused, Lib!DeleteRefused
    <3> QED
      BY <2>1, <3>2 DEF Lib!Remove
  <2>3. CASE DeleteMissing(id)
    <3>1. Lib!DeleteMissing(id)
      BY <1>3, <1>4, <1>5, <2>3 DEF DeleteMissing, Lib!DeleteMissing
    <3> QED
      BY <2>1, <3>1 DEF Lib!Remove
  <2>4. CASE ReadMissing(id)
    <3>1. Lib!ReadMissing(id)
      BY <1>3, <1>4, <1>5, <2>4 DEF ReadMissing, Lib!ReadMissing
    <3>2. Orig \in Resolutions
      BY DEF Resolutions
    <3> QED
      BY <2>1, <3>1, <3>2 DEF Lib!Read
  <2> QED
    BY <2>1, <2>2, <2>3, <2>4
<1>9. CASE \E id \in Ids, r \in Resolutions :
             \/ ReadInvalid(id, r) \/ ReadNoMemory(id, r)
             \/ buffer = <<>> /\ (ReadStored(id, r) \/ ReadResizeFails(id, r))
  <2>1. PICK id \in Ids, r \in Resolutions :
             \/ ReadInvalid(id, r) \/ ReadNoMemory(id, r)
             \/ buffer = <<>> /\ (ReadStored(id, r) \/ ReadResizeFails(id, r))
    BY <1>9
  <2>2. CASE ReadInvalid(id, r)
    <3>1. Lib!ReadInvalid(id, r)
      BY <1>3, <1>4, <1>5, <2>2 DEF ReadInvalid, Lib!ReadInvalid
    <3> QED
      BY <2>1, <3>1 DEF Lib!Read
  <2>5. CASE ReadNoMemory(id, r)
    <3>1. Lib!ReadNoMemory(id, r)
      BY <1>3, <1>4, <1>5, <2>5 DEF ReadNoMemory, Lib!ReadNoMemory
    <3> QED
      BY <2>1, <3>1 DEF Lib!Read
  <2>3. CASE ReadStored(id, r)
    <3>1. Lib!ReadStored(id, r)
      BY <1>3, <1>4, <1>5, <2>3, SameData DEF ReadStored, Lib!ReadStored
    <3> QED
      BY <2>1, <3>1 DEF Lib!Read
  <2>4. CASE buffer = <<>> /\ ReadResizeFails(id, r)
    <3>1. Forget => Lib!Forget
      <4>1. HeaderWrite # <<>> /\ HeaderWrite' # <<>>
        BY DEF HeaderWrite
      <4>2. SettledHeader' = SettledHeader
        BY <1>1, <2>4, <4>1 DEF SettledHeader, file
      <4> QED
        BY <1>3, <4>2 DEF Forget, Lib!Forget, SettledHandle
    <3>2. Lib!ReadResizeFails(id, r)
      BY <1>3, <1>4, <1>5, <2>4, <3>1, SameData DEF ReadResizeFails, Lib!ReadResizeFails
    <3> QED
      BY <2>1, <3>2 DEF Lib!Read
  <2> QED
    BY <2>1, <2>2, <2>3, <2>4, <2>5
<1> QED
  BY <1>6, <1>7, <1>8, <1>9 DEF Immediate

\* A call that begins to write is seen done: its slot, its header, its answer.
BegunView(i) ==
    /\ SettledHandle = "open" /\ Lib!Calling
    /\ Settled' = [Settled EXCEPT ![i] = metadata'[i]]
    /\ SettledHeader = header /\ SettledHeader' = header'
    /\ SettledData = data
    /\ SettledRet' = task'.answer

\* The first step of a call changes what is seen by its slot and its header.
LEMMA BegunIsSeen ==
    ASSUME Typed, Staged, Staged', Begins,
           NEW i \in Slots, task'.step # "idle", task'.i = i
    PROVE  BegunView(i)
<1>1. ~Busy /\ Busy' /\ handle = "open" /\ Calling /\ UNCHANGED file
  BY DEF Begins, Busy, Calling
<1>2. IdleView /\ ~SlotHeld
  BY <1>1, IdleIsSeen, WritesDiffer DEF SlotHeld, Staged, Around
<1>a. \A k \in Slots : k # i => ~HeldSlot(k)'
  BY <1>1 DEF HeldSlot, Staged, Underway, SlotWrite
<1>3. Settled' = [Settled EXCEPT ![i] = metadata'[i]]
  <2>1. Settled' = [k \in Slots |-> IF k = i THEN metadata'[k] ELSE disk_metadata[k]]
    BY <1>1, <1>a DEF Settled, file
  <2> QED
    BY <1>1, <1>2, <2>1 DEF IdleView, Typed, TablesTyped
<1>4. SettledHeader' = header' /\ SettledRet' = task'.answer
  BY <1>1 DEF SettledHeader, SettledRet
<1> QED
  BY <1>1, <1>2, <1>3, <1>4, CallingSeen DEF IdleView, BegunView

\* An insert that writes is seen as one.
LEMMA InsertSeen ==
    ASSUME Typed, Staged, NEW id \in Ids, NEW c \in Contents,
           BeginShared(id, c) \/ BeginNew(id, c)
    PROVE  Lib!Insert(id, c)
<1>0. metadata \in [Slots -> Slot]
  BY DEF Typed, TablesTyped
<1>1. Begins
  BY BeginInsertFacts
<1>2. Counted(header.nb_files + 1)
  BY DEF BeginShared, BeginNew
<1>3. CASE BeginShared(id, c)
  <2>1. PICK i \in Slots : \E slot \in Deduped(i, id, c) :
          /\ LowestFree(i) /\ slot.offset[Orig] # 0
          /\ metadata' = [metadata EXCEPT ![i] = slot]
          /\ task' = Task("slot", i, Answer("insert", id, "NONE", NoBlob, {}))
    BY <1>3 DEF BeginShared
  <2>2. PICK slot \in Deduped(i, id, c) :
          /\ LowestFree(i) /\ slot.offset[Orig] # 0
          /\ metadata' = [metadata EXCEPT ![i] = slot]
          /\ task' = Task("slot", i, Answer("insert", id, "NONE", NoBlob, {}))
    BY <2>1
  <2>3. task'.step = "slot" /\ task'.i = i
        /\ task'.answer = Answer("insert", id, "NONE", NoBlob, {})
    BY <2>2, TaskFields
  <2>4. BegunView(i)
    BY <1>1, <2>3, BegunIsSeen, BeginStaged
  <2>5. metadata'[i] = slot
    BY <1>0, <2>2
  <2>6. Lib!SaveSlot(i, slot) /\ Lib!SaveHeader(header.nb_files + 1)
    BY <1>2, <2>2, <2>4, <2>5 DEF BegunView, Lib!SaveSlot, Lib!SaveHeader, Counted
  <2>7. SettledData' = SettledData
    <3>1. UNCHANGED <<buffer, data>>
      BY <1>1, <1>3 DEF BeginShared, Begins, file
    <3> QED
      BY <3>1 DEF SettledData
  <2>8. Lib!InsertShared(id, c)
    BY <1>3, <2>2, <2>3, <2>4, <2>6, <2>7, SameNotions, SameDedup
       DEF BeginShared, BegunView, Lib!InsertShared, Lib!Returns
  <2> QED
    BY <2>8 DEF Lib!Insert
<1>4. CASE BeginNew(id, c)
  <2>1. PICK i \in Slots : \E slot \in Deduped(i, id, c) :
          /\ LowestFree(i) /\ slot.offset[Orig] = 0
          /\ metadata' = [metadata EXCEPT ![i] = Placed(slot)]
          /\ task' = Task("slot", i, Answer("insert", id, "NONE", NoBlob, {}))
    BY <1>4 DEF BeginNew
  <2>2. PICK slot \in Deduped(i, id, c) :
          /\ LowestFree(i) /\ slot.offset[Orig] = 0
          /\ metadata' = [metadata EXCEPT ![i] = Placed(slot)]
          /\ task' = Task("slot", i, Answer("insert", id, "NONE", NoBlob, {}))
    BY <2>1
  <2>3. task'.step = "slot" /\ task'.i = i
        /\ task'.answer = Answer("insert", id, "NONE", NoBlob, {})
    BY <2>2, TaskFields
  <2>4. BegunView(i)
    BY <1>1, <2>3, BegunIsSeen, BeginStaged
  <2>5. metadata'[i] = Placed(slot)
    BY <1>0, <2>2
  <2>6. Lib!SaveSlot(i, Placed(slot)) /\ Lib!SaveHeader(header.nb_files + 1)
    BY <1>2, <2>2, <2>4, <2>5 DEF BegunView, Lib!SaveSlot, Lib!SaveHeader, Counted
  <2>7. SettledData' = Append(SettledData, [content |-> c, res |-> Orig])
    <3>1. UNCHANGED data /\ buffer' = ImageWrite([content |-> c, res |-> Orig])
      BY <1>1, <1>4 DEF BeginNew, Begins, file
    <3> QED
      BY <2>4, <3>1 DEF SettledData, BegunView, ImageWrite
  <2>8. Lib!Placed(slot) = Placed(slot)
    BY <2>4, SameData DEF BegunView
  <2>9. Lib!InsertNew(id, c)
    BY <1>4, <2>2, <2>3, <2>4, <2>6, <2>7, <2>8, SameNotions, SameDedup
       DEF BeginNew, BegunView, Lib!InsertNew, Lib!Returns
  <2> QED
    BY <2>9 DEF Lib!Insert
<1> QED
  BY <1>3, <1>4

\* A delete that writes is seen as one.
LEMMA DeleteSeen ==
    ASSUME Typed, Staged, NEW id \in Ids, BeginDelete(id)
    PROVE  Lib!Delete(id)
<1>0. metadata \in [Slots -> Slot]
  BY DEF Typed, TablesTyped
<1>1. Begins /\ Counted(header.nb_files - 1)
  BY BeginDeleteFacts DEF BeginDelete
<1>2. PICK i \in Slots :
        /\ LastNamed(id, i) /\ metadata[i].is_valid
        /\ metadata' = [metadata EXCEPT ![i] = Emptied(metadata[i])]
        /\ buffer' = SlotWrite(i)'
        /\ task'.step = "header" /\ task'.i = i
        /\ task'.answer = Answer("delete", id, "NONE", NoBlob, {})
  BY DeleteBegun
<1>3. BegunView(i)
  BY <1>1, <1>2, BegunIsSeen, BeginStaged
<1>4. metadata'[i] = Emptied(metadata[i])
  BY <1>0, <1>2
<1>5. Lib!SaveSlot(i, Emptied(metadata[i])) /\ Lib!SaveHeader(header.nb_files - 1)
  BY <1>1, <1>2, <1>3, <1>4 DEF BegunView, Lib!SaveSlot, Lib!SaveHeader, Counted
<1>6. SettledData' = SettledData
  BY <1>1, <1>2, <1>3 DEF SettledData, BegunView, SlotWrite, Begins, file
<1> QED
  BY <1>2, <1>3, <1>5, <1>6, SameNotions DEF BeginDelete, BegunView, Lib!Delete, Lib!Returns

\* A read that makes a size is seen as one.
LEMMA ResizeSeen ==
    ASSUME Typed, Staged, NEW id \in Ids, NEW r \in Derived, BeginResize(id, r)
    PROVE  Lib!ReadResize(id, r)
<1>0. metadata \in [Slots -> Slot]
  BY DEF Typed, TablesTyped
<1>1. Begins /\ UNCHANGED header
  BY BeginResizeFacts
<1>2. PICK i \in Slots : \E c \in Rendered(i) :
        /\ FirstNamed(id, i) /\ ToResize(i, r) /\ metadata[i].is_valid
        /\ metadata[i].size[r] = 0
        /\ metadata' = [metadata EXCEPT ![i] = Resized(metadata[i], r)]
        /\ buffer' = ImageWrite([content |-> c, res |-> r])
        /\ task'.step = "slot" /\ task'.i = i
        /\ task'.answer = Answer("read", id, "NONE", [content |-> c, res |-> r], {})
  BY ResizeBegun
<1>3. PICK c \in Rendered(i) :
        /\ FirstNamed(id, i) /\ ToResize(i, r) /\ metadata[i].is_valid
        /\ metadata[i].size[r] = 0
        /\ metadata' = [metadata EXCEPT ![i] = Resized(metadata[i], r)]
        /\ buffer' = ImageWrite([content |-> c, res |-> r])
        /\ task'.step = "slot" /\ task'.i = i
        /\ task'.answer = Answer("read", id, "NONE", [content |-> c, res |-> r], {})
  BY <1>2
<1>4. BegunView(i)
  BY <1>1, <1>3, BegunIsSeen, BeginStaged
<1>5. metadata'[i] = Resized(metadata[i], r)
  BY <1>0, <1>3
<1>6. Lib!SaveSlot(i, Resized(metadata[i], r))
  BY <1>3, <1>4, <1>5 DEF BegunView, Lib!SaveSlot
<1>7. SettledData' = Append(SettledData, [content |-> c, res |-> r])
  BY <1>1, <1>3, <1>4 DEF SettledData, BegunView, ImageWrite, Begins, file
<1>8. Lib!Rendered(i) = Rendered(i) /\ Lib!Resized(metadata[i], r) = Resized(metadata[i], r)
  BY <1>4, SameData DEF BegunView
<1> QED
  BY <1>1, <1>3, <1>4, <1>6, <1>7, <1>8, SameNotions
     DEF BeginResize, BegunView, Lib!ReadResize, Lib!ReadBack, Lib!Returns

\* For any constants, as commands or in a server: a step at which no write
\* fails and nothing stops is a step of ImgfsLib, with its effect and its
\* answer, or changes nothing ImgfsLib sees.
THEOREM UninterruptedCalls == DiskSpec => Uninterrupted
<1>1. ASSUME Typed, Staged, Typed', Staged', DiskNext,
             faults' = faults, ~failed, formed \/ ret'.call = "create"
      PROVE  Lib!Next \/ UNCHANGED Lib!vars
  <2>0. faults \in Nat
    BY <1>1, OffByNumbers
  <2>1. ~(FlushFails \/ Stop \/ CreateFails \/ \E id \in Ids : BeginFails(id))
    BY <1>1, <2>0 DEF FlushFails, Stop, CreateFails, BeginFails, Fails
  <2>2. ~OpenFails
    BY <1>1, AnswerFields DEF OpenFails, Aside, Returns
  <2>3. ~StepFails /\ ~ReadFails
    BY <1>1, <2>0 DEF StepFails, ReadFails, Fails
  <2>4. CASE Flush
    BY <1>1, <2>4, FlushUnseen
  <2>5. CASE OpenFile \/ CloseFile \/ BeginCreate \/ EndCreate
    BY <1>1, <2>5, AroundSeen
  <2>6. CASE Immediate
    BY <1>1, <2>6, ImmediateSeen
  <2>7. CASE \E id \in Ids, c \in Contents : BeginShared(id, c) \/ BeginNew(id, c)
    BY <1>1, <2>7, InsertSeen DEF Lib!Next
  <2>8. CASE \E id \in Ids : BeginDelete(id)
    BY <1>1, <2>8, DeleteSeen DEF Lib!Next, Lib!Remove
  <2>9. CASE \E id \in Ids, r \in Derived : BeginResize(id, r)
    BY <1>1, <2>9, ResizeSeen, SameNotions DEF Lib!Next, Lib!Read, Resolutions
  <2>10. CASE WriteSlot \/ WriteHeader \/ Reread
    BY <1>1, <2>10, StepsUnseen
  <2> QED
    BY <1>1, <2>1, <2>2, <2>3, <2>4, <2>5, <2>6, <2>7, <2>8, <2>9, <2>10 DEF DiskNext
<1>2. Typed /\ Staged /\ Typed' /\ Staged' /\ [DiskNext]_all =>
        [faults' = faults /\ ~failed /\ (formed \/ ret'.call = "create")
           => Lib!Next \/ UNCHANGED Lib!vars]_all
  BY <1>1
<1>3. Typed /\ Staged /\ [DiskNext]_all => Staged'
  BY StagedStep
<1> QED
  BY <1>2, <1>3, DiskInitTyped, TypedStep, StagedInit, PTL DEF DiskSpec, Uninterrupted

-----------------------------------------------------------------------------
(* What the slots of the file point to, through faults.                     *)

\* A slot and the images it points to.
WholeIn(slot, blobs) ==
    /\ \A r \in Resolutions :
          slot.size[r] # 0 =>
             /\ slot.offset[r] \in DOMAIN blobs
             /\ blobs[slot.offset[r]] = [content |-> slot.SHA, res |-> r]
    /\ slot.size[Orig] # 0

SharedIn(table) ==
    \A i, j \in Valid(table) :
        table[i].SHA = table[j].SHA => table[i].offset[Orig] = table[j].offset[Orig]

\* A stored image of a name is found, but for one under the name in the header,
\* once something went wrong.
Spared(id) == faults > 0 /\ id = CAT_TXT

FoundIn(table) ==
    \A i, j \in Slots :
        i < j /\ table[i].img_id = table[j].img_id /\ table[j].is_valid
        => table[i].is_valid \/ Spared(table[j].img_id)

\* A table and the images after it: what the three promises ask of a file.
SoundIn(table, blobs) ==
    /\ \A i \in Valid(table) : WholeIn(table[i], blobs)
    /\ SharedIn(table)
    /\ FoundIn(table)

\* The file is sound as it is, and will be when the slot of the call in progress,
\* or the one it has left held, is in the file, unless its image was lost.
Intact ==
    /\ SoundIn(disk_metadata, data)
    /\ (Busy /\ ~failed) \/ SlotHeld => SoundIn(Settled, SettledData)
    /\ failed => faults > 0

\* What the invariant says of the file are the three promises.
LEMMA IntactEnough == Intact => SoundContent /\ SharedOriginal /\ FoundUnderItsName
BY DEF Intact, SoundIn, WholeIn, SharedIn, FoundIn, Spared, SoundContent, Whole,
       SharedOriginal, FoundUnderItsName

\* Taking the lowest free slot hides no stored one.
LEMMA FoundTake ==
    ASSUME NEW table \in [Slots -> Slot], FoundIn(table),
           NEW i \in Slots, \A k \in Slots : k < i => table[k].is_valid,
           NEW slot \in Slot, slot.is_valid
    PROVE  FoundIn([table EXCEPT ![i] = slot])
BY DEF FoundIn

\* Nor does emptying the last slot of a name,
LEMMA FoundEmpty ==
    ASSUME NEW table \in [Slots -> Slot], FoundIn(table),
           NEW i \in Slots,
           \A k \in Slots : table[k].img_id = table[i].img_id => k <= i,
           NEW slot \in Slot, slot.img_id = table[i].img_id, ~slot.is_valid
    PROVE  FoundIn([table EXCEPT ![i] = slot])
BY DEF FoundIn, Slots

\* or a slot that keeps its name and its validity, or takes the spared name.
LEMMA FoundSame ==
    ASSUME NEW table \in [Slots -> Slot], FoundIn(table),
           NEW i \in Slots, NEW slot \in Slot,
           slot.img_id = table[i].img_id \/ Spared(slot.img_id),
           slot.is_valid = table[i].is_valid
    PROVE  FoundIn([table EXCEPT ![i] = slot])
BY DEF FoundIn, Spared

\* An empty file breaks none.
LEMMA SoundEmptyFile == SoundIn(EmptyTable, <<>>)
BY DEF SoundIn, SharedIn, FoundIn, Valid, EmptyTable, Unused, Metadata

\* The file grows, and what a slot pointed to it still points to.
LEMMA SoundGrows ==
    ASSUME NEW table \in [Slots -> Slot], NEW blobs \in Seq(Blob), NEW blob \in Blob,
           SoundIn(table, blobs)
    PROVE  SoundIn(table, Append(blobs, blob))
<1>1. \A o \in DOMAIN blobs : o \in DOMAIN Append(blobs, blob)
                              /\ Append(blobs, blob)[o] = blobs[o]
  BY DEF Blob
<1>2. ASSUME NEW i \in Valid(table) PROVE WholeIn(table[i], Append(blobs, blob))
  BY <1>1 DEF SoundIn, WholeIn
<1> QED
  BY <1>2 DEF SoundIn

\* One slot changes: it is whole, and shares what it should.
LEMMA SoundSlot ==
    ASSUME NEW table \in [Slots -> Slot], NEW blobs, SoundIn(table, blobs),
           NEW i \in Slots, NEW slot \in Slot,
           FoundIn([table EXCEPT ![i] = slot]),
           slot.is_valid =>
              /\ WholeIn(slot, blobs)
              /\ \A k \in Valid(table) \ {i} :
                    table[k].SHA = slot.SHA => table[k].offset[Orig] = slot.offset[Orig]
    PROVE  SoundIn([table EXCEPT ![i] = slot], blobs)
<1> DEFINE new == [table EXCEPT ![i] = slot]
<1>1. /\ new[i] = slot /\ \A k \in Slots \ {i} : new[k] = table[k]
      /\ Valid(table) \subseteq Slots /\ Valid(new) \subseteq Slots
  BY DEF Valid
<1>2. \A k \in Valid(new) \ {i} : k \in Valid(table)
  BY <1>1 DEF Valid
<1>3. i \in Valid(new) => slot.is_valid
  BY <1>1 DEF Valid
<1> HIDE DEF new
<1>4. \A k \in Valid(new) : WholeIn(new[k], blobs)
  BY <1>1, <1>2, <1>3 DEF SoundIn
<1>5. SharedIn(new)
  BY <1>1, <1>2, <1>3 DEF SoundIn, SharedIn
<1> QED
  BY <1>4, <1>5 DEF SoundIn, new

\* A whole slot has its original in the file.
LEMMA WholeInPlaced ==
    ASSUME NEW blobs \in Seq(Blob), NEW slot \in Slot, WholeIn(slot, blobs)
    PROVE  /\ slot.offset[Orig] \in DOMAIN blobs /\ slot.offset[Orig] # 0
           /\ blobs[slot.offset[Orig]] = [content |-> slot.SHA, res |-> Orig]
<1>1. Orig \in Resolutions
  BY DEF Resolutions
<1>2. slot.offset[Orig] \in DOMAIN blobs
      /\ blobs[slot.offset[Orig]] = [content |-> slot.SHA, res |-> Orig]
  BY <1>1 DEF WholeIn
<1> QED
  BY <1>2

\* What the dedup scan makes of a slot: a share of a valid one of that content,
\* or a slot without a place, when there is none.
LEMMA DedupedCases ==
    ASSUME Typed, NEW i \in Slots, NEW id \in Ids, NEW c \in Contents,
           NEW slot \in Deduped(i, id, c), LowestFree(i),
           \A k \in Valid(metadata) : metadata[k].offset[Orig] # 0
    PROVE  \/ /\ slot.offset[Orig] # 0
              /\ \E j \in Valid(metadata) : /\ metadata[j].SHA = c
                                            /\ slot.offset = metadata[j].offset
                                            /\ slot.size = metadata[j].size
           \/ /\ slot.offset[Orig] = 0
              /\ slot.size = OnlyOrig(1)
              /\ \A k \in Valid(metadata) : metadata[k].SHA # c
<1>0. metadata \in [Slots -> Slot] /\ data \in Seq(Blob)
  BY DEF Typed, TablesTyped
<1>1. Claimed(i, id, c) \in Slot /\ Claimed(i, id, c).size = OnlyOrig(1)
  BY <1>0, ClaimedType
<1>2. CASE \E j \in Slots : /\ FirstRival(i, id, c, j) /\ metadata[j].img_id # id
                            /\ slot = Shared(Claimed(i, id, c), metadata[j])
  <2>1. PICK j \in Slots : /\ FirstRival(i, id, c, j) /\ metadata[j].img_id # id
                           /\ slot = Shared(Claimed(i, id, c), metadata[j])
    BY <1>2
  <2>2. j \in Valid(metadata) /\ metadata[j].SHA = c /\ metadata[j] \in Slot
    BY <1>0, <2>1 DEF FirstRival, Rivals
  <2>3. slot.offset = metadata[j].offset /\ slot.size = metadata[j].size
    BY <1>1, <2>1, <2>2, SharedFacts
  <2> QED
    BY <2>2, <2>3
<1>3. CASE slot = Unplaced(Claimed(i, id, c)) /\ Rivals(i, id, c) = {}
  <2>1. slot.offset[Orig] = 0 /\ slot.size = OnlyOrig(1)
    BY <1>0, <1>1, <1>3, UpdateFacts
  <2>2. \A k \in Valid(metadata) : metadata[k].SHA # c
    BY <1>3 DEF Rivals, LowestFree
  <2> QED
    BY <2>1, <2>2
<1> QED
  BY <1>2, <1>3 DEF Deduped

\* A command that begins to write: the file will be sound when it is done.
LEMMA InsertIntact ==
    ASSUME ~Resident, Typed, Staged, Intact, NEW id \in Ids, NEW c \in Contents,
           BeginShared(id, c) \/ BeginNew(id, c)
    PROVE  SoundIn(Settled, SettledData)'
<1>0. /\ metadata \in [Slots -> Slot] /\ data \in Seq(Blob)
      /\ Valid(metadata) \subseteq Slots
      /\ Begins /\ handle = "open" /\ UNCHANGED <<file, faults>>
  BY BeginInsertFacts DEF Typed, TablesTyped, Valid, Begins, Calling, file
<1>1. metadata = disk_metadata /\ SoundIn(metadata, data) /\ buffer = <<>>
  BY <1>0 DEF Staged, Serving, Intact
<1>2. \A k \in Valid(metadata) : metadata[k].offset[Orig] # 0
  BY <1>0, <1>1, WholeInPlaced DEF SoundIn
<1>a. \A i \in Slots : task'.step = "slot" /\ task'.i = i =>
         Settled' = [metadata EXCEPT ![i] = metadata'[i]] /\ SettledData = data
  BY <1>0, <1>1, BegunIsSeen, BeginStaged, IdleIsSeen
     DEF BegunView, IdleView, SlotHeld, Begins
<1>3. CASE BeginShared(id, c)
  <2>1. PICK i \in Slots : \E slot \in Deduped(i, id, c) :
          /\ LowestFree(i) /\ slot.offset[Orig] # 0
          /\ metadata' = [metadata EXCEPT ![i] = slot]
          /\ task' = Task("slot", i, Answer("insert", id, "NONE", NoBlob, {}))
    BY <1>3 DEF BeginShared
  <2>2. PICK slot \in Deduped(i, id, c) :
          /\ LowestFree(i) /\ slot.offset[Orig] # 0
          /\ metadata' = [metadata EXCEPT ![i] = slot]
          /\ task' = Task("slot", i, Answer("insert", id, "NONE", NoBlob, {}))
    BY <2>1
  <2>3. slot \in Slot /\ slot.SHA = c /\ slot.is_valid
    BY <1>0, DedupedType
  <2>4. PICK j \in Valid(metadata) : /\ metadata[j].SHA = c
                                     /\ slot.offset = metadata[j].offset
                                     /\ slot.size = metadata[j].size
    BY <1>2, <2>2, DedupedCases
  <2>5. WholeIn(slot, data)
    BY <1>1, <2>3, <2>4 DEF SoundIn, WholeIn
  <2>6. \A k \in Valid(metadata) :
           metadata[k].SHA = slot.SHA => metadata[k].offset[Orig] = slot.offset[Orig]
    BY <1>1, <2>3, <2>4 DEF SoundIn, SharedIn
  <2>7. FoundIn([metadata EXCEPT ![i] = slot])
    <3>1. \A k \in Slots : k < i => metadata[k].is_valid
      BY <2>2 DEF LowestFree, Valid, Slots
    <3> QED
      BY <1>0, <1>1, <2>3, <3>1, FoundTake DEF SoundIn
  <2>8. SoundIn([metadata EXCEPT ![i] = slot], data)
    BY <1>0, <1>1, <2>3, <2>5, <2>6, <2>7, SoundSlot
  <2>9. Settled' = [metadata EXCEPT ![i] = slot] /\ SettledData' = data
    <3>1. UNCHANGED <<buffer, data>>
      BY <1>0, <1>3 DEF BeginShared, file
    <3> QED
      BY <1>0, <1>1, <1>a, <2>2, <3>1, TaskFields DEF SettledData
  <2> QED
    BY <1>0, <2>8, <2>9 DEF SoundIn, WholeIn, SharedIn, FoundIn, Spared, Valid
<1>4. CASE BeginNew(id, c)
  <2>1. PICK i \in Slots : \E old \in Deduped(i, id, c) :
          /\ LowestFree(i) /\ old.offset[Orig] = 0
          /\ metadata' = [metadata EXCEPT ![i] = Placed(old)]
          /\ task' = Task("slot", i, Answer("insert", id, "NONE", NoBlob, {}))
    BY <1>4 DEF BeginNew
  <2>2. PICK old \in Deduped(i, id, c) :
          /\ LowestFree(i) /\ old.offset[Orig] = 0
          /\ metadata' = [metadata EXCEPT ![i] = Placed(old)]
          /\ task' = Task("slot", i, Answer("insert", id, "NONE", NoBlob, {}))
    BY <2>1
  <2>3. old \in Slot /\ old.SHA = c /\ old.is_valid
    BY <1>0, DedupedType
  <2>4. old.size = OnlyOrig(1) /\ \A k \in Valid(metadata) : metadata[k].SHA # c
    BY <1>2, <2>2, DedupedCases
  <2> DEFINE slot == Placed(old)
             blob == [content |-> c, res |-> Orig]
             blobs == Append(data, blob)
  <2>5. /\ slot \in Slot /\ slot.SHA = c /\ slot.is_valid
        /\ slot.size = OnlyOrig(1) /\ slot.offset[Orig] = Len(data) + 1
    BY <1>0, <2>3, <2>4, UpdateFacts
  <2>6. blob \in Blob
    BY DEF Blob, Resolutions
  <2>7. SoundIn(metadata, blobs)
    BY <1>0, <1>1, <2>6, SoundGrows
  <2> HIDE DEF slot
  <2>8. WholeIn(slot, blobs)
    <3>1. Len(data) + 1 \in DOMAIN blobs /\ blobs[Len(data) + 1] = blob
      BY <1>0
    <3>2. \A r \in Resolutions : slot.size[r] # 0 => r = Orig
      BY <2>5 DEF OnlyOrig
    <3>3. slot.size[Orig] # 0
      BY <2>5 DEF OnlyOrig, Resolutions
    <3> QED
      BY <2>5, <3>1, <3>2, <3>3 DEF WholeIn
  <2>9. FoundIn([metadata EXCEPT ![i] = slot])
    <3>1. \A k \in Slots : k < i => metadata[k].is_valid
      BY <2>2 DEF LowestFree, Valid, Slots
    <3> QED
      BY <1>0, <1>1, <2>5, <3>1, FoundTake DEF SoundIn
  <2>10. SoundIn([metadata EXCEPT ![i] = slot], blobs)
    <3>1. \A k \in Valid(metadata) : metadata[k].SHA # slot.SHA
      BY <2>4, <2>5
    <3> HIDE DEF blobs
    <3> QED
      BY <1>0, <2>5, <2>7, <2>8, <2>9, <3>1, SoundSlot
  <2>11. Settled' = [metadata EXCEPT ![i] = slot] /\ SettledData' = blobs
    <3>1. UNCHANGED data /\ buffer' = ImageWrite(blob)
      BY <1>0, <1>4 DEF BeginNew, file
    <3> QED
      BY <1>0, <1>a, <2>2, <3>1, TaskFields DEF SettledData, ImageWrite, slot
  <2> QED
    BY <1>0, <2>10, <2>11 DEF SoundIn, WholeIn, SharedIn, FoundIn, Spared, Valid
<1> QED
  BY <1>3, <1>4

\* A command that begins a delete: the emptied slot will be behind no other.
LEMMA DeleteIntact ==
    ASSUME ~Resident, Typed, Staged, Intact, NEW id \in Ids, BeginDelete(id)
    PROVE  SoundIn(Settled, SettledData)'
<1>0. /\ metadata \in [Slots -> Slot] /\ data \in Seq(Blob)
      /\ Begins /\ handle = "open" /\ UNCHANGED <<file, faults>>
  BY BeginDeleteFacts DEF Typed, TablesTyped, Begins, Calling, file
<1>1. metadata = disk_metadata /\ SoundIn(metadata, data) /\ buffer = <<>>
  BY <1>0 DEF Staged, Serving, Intact
<1>2. PICK i \in Slots :
        /\ LastNamed(id, i)
        /\ Emptied(metadata[i]) \in Slot
        /\ metadata' = [metadata EXCEPT ![i] = Emptied(metadata[i])]
        /\ buffer' = SlotWrite(i)'
        /\ task'.step = "header" /\ task'.i = i
  BY DeleteBegun
<1> DEFINE slot == Emptied(metadata[i])
<1>3. slot \in Slot /\ slot.img_id = metadata[i].img_id /\ ~slot.is_valid
  BY <1>0, <1>2, UpdateFacts
<1> HIDE DEF slot
<1>4. FoundIn([metadata EXCEPT ![i] = slot])
  <2>1. \A k \in Slots : metadata[k].img_id = metadata[i].img_id => k <= i
    BY <1>2 DEF LastNamed, Named
  <2> QED
    BY <1>0, <1>1, <1>3, <2>1, FoundEmpty DEF SoundIn
<1>5. SoundIn([metadata EXCEPT ![i] = slot], data)
  BY <1>0, <1>1, <1>3, <1>4, SoundSlot
<1>6. Settled' = [metadata EXCEPT ![i] = slot]
  BY <1>0, <1>1, <1>2, BegunIsSeen, BeginStaged, IdleIsSeen
     DEF BegunView, IdleView, SlotHeld, Begins, slot
<1>7. SettledData' = data
  BY <1>0, <1>2 DEF SettledData, SlotWrite, file
<1> QED
  BY <1>0, <1>5, <1>6, <1>7 DEF SoundIn, WholeIn, SharedIn, FoundIn, Spared, Valid

\* A command that begins a resize: the held image is the one the slot points to.
LEMMA ResizeIntact ==
    ASSUME ~Resident, Typed, Staged, Intact,
           NEW id \in Ids, NEW r \in Derived, BeginResize(id, r)
    PROVE  SoundIn(Settled, SettledData)'
<1>0. /\ metadata \in [Slots -> Slot] /\ data \in Seq(Blob)
      /\ Valid(metadata) \subseteq Slots
      /\ r \in Resolutions /\ Orig \in Resolutions /\ r # Orig
      /\ Begins /\ handle = "open" /\ UNCHANGED <<file, faults>>
  BY BeginResizeFacts, ResolutionAssumption
     DEF Typed, TablesTyped, Valid, Begins, Calling, Resolutions, file
<1>1. metadata = disk_metadata /\ SoundIn(metadata, data) /\ buffer = <<>>
  BY <1>0 DEF Staged, Serving, Intact
<1>2. PICK i \in Slots : \E c \in Rendered(i) :
        /\ metadata[i].is_valid
        /\ metadata' = [metadata EXCEPT ![i] = Resized(metadata[i], r)]
        /\ buffer' = ImageWrite([content |-> c, res |-> r])
        /\ task'.step = "slot" /\ task'.i = i
  BY ResizeBegun
<1>3. PICK c \in Rendered(i) :
        /\ metadata[i].is_valid
        /\ metadata' = [metadata EXCEPT ![i] = Resized(metadata[i], r)]
        /\ buffer' = ImageWrite([content |-> c, res |-> r])
        /\ task'.step = "slot" /\ task'.i = i
  BY <1>2
<1> DEFINE old == metadata[i]
           slot == Resized(old, r)
           blob == [content |-> c, res |-> r]
           blobs == Append(data, blob)
<1>4. i \in Valid(metadata) /\ WholeIn(old, data) /\ old \in Slot
  BY <1>0, <1>1, <1>3 DEF Valid, SoundIn
<1>5. c = old.SHA
  BY <1>0, <1>3, <1>4, WholeInPlaced DEF Rendered, Exact
<1>6. blob \in Blob
  BY <1>3, RenderedType DEF Typed, Blob, Resolutions
<1>7. /\ slot \in Slot /\ slot.SHA = old.SHA /\ slot.is_valid /\ slot.img_id = old.img_id
      /\ slot.is_valid = old.is_valid
      /\ slot.offset[r] = Len(data) + 1
      /\ \A q \in Resolutions \ {r} : /\ slot.offset[q] = old.offset[q]
                                      /\ slot.size[q] = old.size[q]
  BY <1>0, <1>3, <1>4, ResizedFacts
<1> HIDE DEF slot
<1>8. WholeIn(slot, blobs)
  <2>1. \A o \in DOMAIN data : o \in DOMAIN blobs /\ blobs[o] = data[o]
    BY <1>0, <1>6
  <2>2. Len(data) + 1 \in DOMAIN blobs /\ blobs[Len(data) + 1] = blob
    BY <1>0, <1>6
  <2>3. ASSUME NEW q \in Resolutions, slot.size[q] # 0
        PROVE  /\ slot.offset[q] \in DOMAIN blobs
               /\ blobs[slot.offset[q]] = [content |-> slot.SHA, res |-> q]
    <3>1. CASE q = r
      BY <1>5, <1>7, <2>2, <3>1
    <3>2. CASE q # r
      BY <1>4, <1>7, <2>1, <2>3, <3>2 DEF WholeIn
    <3> QED
      BY <3>1, <3>2
  <2>4. slot.size[Orig] # 0
    BY <1>0, <1>4, <1>7 DEF WholeIn
  <2> QED
    BY <2>3, <2>4 DEF WholeIn
<1>9. \A k \in Valid(metadata) \ {i} :
         metadata[k].SHA = slot.SHA => metadata[k].offset[Orig] = slot.offset[Orig]
  BY <1>0, <1>1, <1>4, <1>7 DEF SoundIn, SharedIn
<1>10. FoundIn([metadata EXCEPT ![i] = slot])
  BY <1>0, <1>1, <1>7, FoundSame DEF SoundIn
<1>11. SoundIn(metadata, blobs)
  BY <1>0, <1>1, <1>6, SoundGrows
<1>12. Settled' = [metadata EXCEPT ![i] = slot]
  BY <1>0, <1>1, <1>3, BegunIsSeen, BeginStaged, IdleIsSeen
     DEF BegunView, IdleView, SlotHeld, Begins, slot
<1>13. SettledData' = blobs
  BY <1>0, <1>3 DEF SettledData, ImageWrite, file
<1>14. SoundIn([metadata EXCEPT ![i] = slot], blobs)
  <2> HIDE DEF blobs
  <2> QED
    BY <1>0, <1>7, <1>8, <1>9, <1>10, <1>11, SoundSlot
<1> QED
  BY <1>0, <1>12, <1>13, <1>14 DEF SoundIn, WholeIn, SharedIn, FoundIn, Spared, Valid

\* A file that is sound with what it holds after a step is sound after it.
LEMMA SoundNext ==
    ASSUME faults > 0 => faults' > 0, SoundIn(disk_metadata', data')
    PROVE  SoundIn(disk_metadata, data)'
BY DEF SoundIn, WholeIn, SharedIn, FoundIn, Spared, Valid

\* What went wrong once stays so.
LEMMA FaultsStay ==
    ASSUME Typed, UNCHANGED faults \/ Fails
    PROVE  faults > 0 => faults' > 0
BY OffByNumbers DEF Fails

\* An empty file is intact.
LEMMA IntactInit == DiskInit => Intact
<1> SUFFICES ASSUME DiskInit PROVE Intact
  OBVIOUS
<1>1. disk_metadata = EmptyTable /\ data = <<>> /\ ~Busy /\ ~SlotHeld /\ ~failed
  BY TaskFields DEF DiskInit, Init, Busy, SlotHeld
<1> QED
  BY <1>1, SoundEmptyFile DEF Intact

\* What is held reaches the file: a slot makes it what it is to become.
LEMMA FlushIntact ==
    ASSUME ~Resident, Typed, Staged, Intact, Flush
    PROVE  Intact'
<1>0. /\ disk_metadata \in [Slots -> Slot] /\ data \in Seq(Blob)
      /\ buffer # <<>> /\ WriteOK(buffer[1])
  BY DEF Typed, TablesTyped, Held, Flush
<1>1. Busy' = Busy /\ failed' = failed /\ ~failed /\ ~SlotHeld' /\ faults' = faults
  BY <1>0 DEF Flush, Busy, SlotHeld, Staged, Around
<1>2. UNCHANGED <<Settled, SettledData>>
  BY FlushUnseen DEF Lib!vars, Lib!file
<1>3. SoundIn(disk_metadata, data)'
  <2>1. CASE buffer[1].what = "slot"
    <3>1. SlotHeld /\ buffer' = <<>>
      BY <1>0, <2>1 DEF SlotHeld, Flush
    <3>2. UNCHANGED data /\ disk_metadata' = [disk_metadata EXCEPT ![buffer[1].i] = buffer[1].slot]
      BY <2>1 DEF Flush
    <3>3. Busy => buffer[1].i = task.i /\ buffer[1].slot = metadata[task.i]
      BY <1>0, <2>1, WritesDiffer DEF Staged, Underway
    <3>4. disk_metadata' = Settled
      BY <1>0, <3>1, <3>2, <3>3 DEF Settled, HeldSlot, SlotHeld
    <3>5. SettledData = data
      BY <2>1 DEF SettledData
    <3>6. SoundIn(Settled, SettledData)
      BY <3>1 DEF Intact
    <3> QED
      BY <1>1, <3>2, <3>4, <3>5, <3>6, SoundNext
  <2>2. CASE buffer[1].what # "slot"
    <3>1. /\ disk_metadata' = disk_metadata
          /\ data' = data \/ (buffer[1].blob \in Blob /\ data' = Append(data, buffer[1].blob))
      BY <1>0, <2>2 DEF Flush, WriteOK
    <3>2. SoundIn(disk_metadata, data')
      BY <1>0, <3>1, SoundGrows DEF Intact
    <3> QED
      BY <1>1, <3>1, <3>2, SoundNext
  <2> QED
    BY <2>1, <2>2
<1>4. Busy' /\ ~failed' => SoundIn(Settled, SettledData)'
  BY <1>1, <1>2 DEF Intact, SoundIn, WholeIn, SharedIn, FoundIn, Spared, Valid
<1> QED
  BY <1>1, <1>3, <1>4 DEF Intact

\* What is held is lost, or part of an image stays at the end.
LEMMA GrownIntact ==
    ASSUME Typed, Intact, disk_metadata' = disk_metadata,
           data' = data \/ data' = Append(data, NoBlob),
           ~Busy' \/ failed', ~SlotHeld',
           UNCHANGED faults \/ Fails,
           failed' => failed \/ Fails
    PROVE  Intact'
<1>0. disk_metadata \in [Slots -> Slot] /\ data \in Seq(Blob) /\ NoBlob \in Blob
  BY DEF Typed, TablesTyped, NoBlob, Blob, Resolutions
<1>1. SoundIn(disk_metadata', data')
  BY <1>0, SoundGrows DEF Intact
<1>2. failed' => faults' > 0
  BY FaultsStay, OffByNumbers DEF Intact, Fails
<1> QED
  BY <1>1, <1>2, FaultsStay, SoundNext DEF Intact

\* Opening, closing, and starting an empty file.
LEMMA AroundIntact ==
    ASSUME Typed, Staged, Intact,
           OpenFile \/ OpenFails \/ CloseFile \/ BeginCreate \/ CreateFails \/ EndCreate
    PROVE  Intact'
<1>1. ~Busy'
  BY DEF OpenFile, OpenFails, CloseFile, BeginCreate, CreateFails, EndCreate,
         Aside, Truncate, Staged, Around, Busy
<1>2. CASE OpenFile \/ OpenFails \/ CloseFile \/ EndCreate
  <2>1. /\ UNCHANGED <<disk_metadata, data, faults>> /\ (failed' => failed)
        /\ buffer' = <<>>
    BY <1>2 DEF OpenFile, Open, OpenFails, CloseFile, Close, Forget, EndCreate, file, Aside,
                Staged, Around
  <2> QED
    BY <1>1, <2>1, GrownIntact DEF SlotHeld
<1>3. CASE BeginCreate \/ CreateFails
  <2>1. disk_metadata' = EmptyTable /\ data' = <<>>
    BY <1>3 DEF BeginCreate, CreateFails, Truncate
  <2>2. (UNCHANGED faults \/ Fails) /\ failed' = failed /\ ~SlotHeld'
    BY <1>3 DEF BeginCreate, CreateFails, Truncate, TableWrite, SlotHeld, Staged, Around
  <2>3. faults > 0 => faults' > 0
    BY <2>2, FaultsStay
  <2>4. SoundIn(disk_metadata, data)'
    BY <2>1, <2>3, SoundEmptyFile, SoundNext
  <2> QED
    BY <1>1, <2>2, <2>3, <2>4 DEF Intact
<1> QED
  BY <1>2, <1>3

\* A call that begins leaves the file alone, or ends at once.
LEMMA BeginIntact ==
    ASSUME ~Resident, Typed, Staged, Intact,
           \/ Immediate
           \/ \E id \in Ids, c \in Contents : BeginShared(id, c) \/ BeginNew(id, c)
           \/ \E id \in Ids : BeginDelete(id) \/ BeginFails(id)
           \/ \E id \in Ids, r \in Derived : BeginResize(id, r)
    PROVE  Intact'
<1>1. CASE Immediate
  <2>1. ~Busy /\ ~Busy' /\ UNCHANGED <<buffer, disk_metadata, data, faults, failed>>
    BY <1>1, ImmediateFacts DEF Aside, Busy, file
  <2>2. handle \in {"open", "closed"}
    BY <1>1 DEF Immediate, List, InsertFull, InsertDuplicate, InsertUndecodable,
         DeleteRefused, DeleteMissing, ReadMissing, ReadInvalid, ReadNoMemory, ReadStored,
         ReadResizeFails, Calling
  <2>3. ~SlotHeld'
    BY <2>1, <2>2, WritesDiffer DEF SlotHeld, Staged, Around
  <2> QED
    BY <2>1, <2>3, GrownIntact
<1>2. CASE \E id \in Ids : BeginFails(id)
  <2>1. PICK id \in Ids : BeginFails(id)
    BY <1>2
  <2>2. /\ ~Busy' /\ disk_metadata' = disk_metadata /\ ~SlotHeld'
        /\ failed' = failed /\ Fails
    BY <2>1, BeginFailsFacts DEF Busy, SlotHeld, BeginFails
  <2>3. data' = data \/ data' = Append(data, NoBlob)
    BY <2>1 DEF BeginFails, Cut
  <2> QED
    BY <2>2, <2>3, GrownIntact
<1>3. ASSUME SoundIn(Settled, SettledData)', UNCHANGED <<file, failed, faults>> PROVE Intact'
  <2>1. SoundIn(disk_metadata, data)'
    BY <1>3 DEF Intact, file, SoundIn, WholeIn, SharedIn, FoundIn, Spared, Valid
  <2> QED
    BY <1>3, <2>1 DEF Intact
<1>4. CASE \E id \in Ids, c \in Contents : BeginShared(id, c) \/ BeginNew(id, c)
  BY <1>3, <1>4, InsertIntact, BeginInsertFacts DEF Begins
<1>5. CASE \E id \in Ids : BeginDelete(id)
  BY <1>3, <1>5, DeleteIntact, BeginDeleteFacts DEF Begins
<1>6. CASE \E id \in Ids, r \in Derived : BeginResize(id, r)
  BY <1>3, <1>6, ResizeIntact, BeginResizeFacts DEF Begins
<1> QED
  BY <1>1, <1>2, <1>4, <1>5, <1>6

\* The later steps change nothing that is settled.
LEMMA StepIntact ==
    ASSUME ~Resident, Typed, Staged, Intact, Typed', Staged',
           WriteSlot \/ WriteHeader \/ Reread \/ ReadFails \/ StepFails
    PROVE  Intact'
<1>0. Idle.step = "idle"
  BY TaskFields
<1>1. CASE WriteSlot
  <2>1. UNCHANGED <<disk_metadata, data, failed, faults>> /\ Busy /\ ~failed
    BY <1>1 DEF WriteSlot, vars, file, Busy
  <2>2. UNCHANGED <<Settled, SettledData>>
    BY <1>1, <2>1, StepsUnseen DEF Lib!vars, Lib!file
  <2> QED
    BY <2>1, <2>2 DEF Intact, SoundIn, WholeIn, SharedIn, FoundIn, Spared, Valid
<1>2. CASE (WriteHeader /\ ~failed) \/ Reread \/ StepFails
  <2>1. /\ ~Busy' /\ UNCHANGED <<disk_metadata, data>> /\ ~SlotHeld'
        /\ (UNCHANGED faults \/ Fails) /\ (failed' => failed)
    BY <1>0, <1>2 DEF WriteHeader, Reread, StepFails, Ends, Busy, file, stream, SlotHeld,
                      HeaderWrite
  <2> QED
    BY <2>1, GrownIntact
<1>3. CASE WriteHeader /\ failed
  <2> DEFINE slot == [disk_metadata[task.i] EXCEPT !.img_id = CAT_TXT]
  <2>1. /\ ~Busy' /\ UNCHANGED <<disk_metadata, data, faults>> /\ faults > 0 /\ ~failed'
        /\ buffer' = HeaderOverSlot(task.i)
    BY <1>0, <1>3 DEF WriteHeader, Ends, Busy, file, Intact
  <2>2. disk_metadata \in [Slots -> Slot] /\ task.i \in Slots
    BY DEF Typed, TablesTyped
  <2>3. /\ slot \in Slot /\ slot.img_id = CAT_TXT
        /\ slot.is_valid = disk_metadata[task.i].is_valid
        /\ slot.SHA = disk_metadata[task.i].SHA
        /\ slot.offset = disk_metadata[task.i].offset
        /\ slot.size = disk_metadata[task.i].size
    BY <2>2, NameAssumption DEF Slot, Metadata
  <2>4. Settled' = [disk_metadata EXCEPT ![task.i] = slot] /\ SettledData' = data
    BY <2>1, <2>2 DEF HeaderOverSlot, Settled, HeldSlot, SettledData
  <2> HIDE DEF slot
  <2>5. FoundIn([disk_metadata EXCEPT ![task.i] = slot])
    BY <2>1, <2>2, <2>3, FoundSame DEF Spared, Intact, SoundIn
  <2>6. slot.is_valid =>
           /\ WholeIn(slot, data)
           /\ \A k \in Valid(disk_metadata) \ {task.i} :
                 disk_metadata[k].SHA = slot.SHA =>
                    disk_metadata[k].offset[Orig] = slot.offset[Orig]
    <3> SUFFICES ASSUME slot.is_valid
                 PROVE  /\ WholeIn(slot, data)
                        /\ \A k \in Valid(disk_metadata) :
                              disk_metadata[k].SHA = slot.SHA =>
                                 disk_metadata[k].offset[Orig] = slot.offset[Orig]
      OBVIOUS
    <3>1. task.i \in Valid(disk_metadata) /\ SoundIn(disk_metadata, data)
      BY <2>2, <2>3 DEF Intact, Valid
    <3>2. WholeIn(disk_metadata[task.i], data)
      BY <3>1 DEF SoundIn
    <3>3. WholeIn(slot, data)
      BY <2>3, <3>2 DEF WholeIn
    <3> QED
      BY <2>3, <3>1, <3>3 DEF SoundIn, SharedIn
  <2>7. SoundIn([disk_metadata EXCEPT ![task.i] = slot], data)
    BY <2>2, <2>3, <2>5, <2>6, SoundSlot DEF Intact
  <2>8. SoundIn(disk_metadata, data)'
    BY <2>1, SoundNext DEF Intact
  <2> QED
    BY <2>1, <2>4, <2>7, <2>8 DEF Intact, SoundIn, WholeIn, SharedIn, FoundIn, Spared, Valid
<1>4. CASE ReadFails
  <2>1. /\ Busy /\ ~Busy' /\ Fails /\ task.step = "reread"
        /\ UNCHANGED <<metadata, disk_metadata, data, buffer, failed>>
    BY <1>0, <1>4 DEF ReadFails, Ends, Busy, file, memory, stream
  <2>2. CASE buffer = <<>>
    BY <2>1, <2>2, GrownIntact DEF SlotHeld
  <2>3. CASE buffer # <<>>
    <3>1. buffer = SlotWrite(task.i) /\ ~failed
      BY <2>1, <2>3 DEF Staged, Underway, Around
    <3>2. UNCHANGED <<Settled, SettledData>>
      BY <2>1, <3>1, WritesDiffer DEF Settled, HeldSlot, SettledData
    <3>3. SoundIn(Settled, SettledData)
      BY <2>1, <3>1 DEF Intact
    <3>4. faults > 0 => faults' > 0
      BY <2>1, FaultsStay
    <3> QED
      BY <2>1, <3>1, <3>2, <3>3, <3>4
         DEF Intact, SoundIn, WholeIn, SharedIn, FoundIn, Spared, Valid
  <2> QED
    BY <2>2, <2>3
<1> QED
  BY <1>1, <1>2, <1>3, <1>4

\* Every step of a command leaves the file intact.
LEMMA IntactStep ==
    ~Resident =>
       (Typed /\ Staged /\ Intact /\ Typed' /\ Staged' /\ [DiskNext]_all => Intact')
<1> SUFFICES ASSUME ~Resident, Typed, Staged, Intact, Typed', Staged', [DiskNext]_all
             PROVE  Intact'
  OBVIOUS
<1>1. CASE UNCHANGED all
  BY <1>1 DEF all, vars, file, memory, Intact, SoundIn, WholeIn, SharedIn,
              FoundIn, Spared, Valid, Settled, HeldSlot, SettledData, SlotHeld, Busy
<1>2. CASE FlushFails \/ Stop
  <2>1. disk_metadata' = disk_metadata /\ (data' = data \/ data' = Append(data, NoBlob))
    BY <1>2 DEF FlushFails, Stop, Lost
  <2>2. (~Busy' \/ failed') /\ ~SlotHeld' /\ Fails
    BY <1>2, TaskFields DEF FlushFails, Stop, Lost, Busy, SlotHeld
  <2> QED
    BY <2>1, <2>2, GrownIntact
<1>3. CASE DiskNext
  BY <1>2, <1>3, FlushIntact, AroundIntact, BeginIntact, StepIntact DEF DiskNext
<1> QED
  BY <1>1, <1>3

\* Run as commands, the file is always intact.
LEMMA IntactAlways ==
    ASSUME ~Resident
    PROVE  DiskSpec => []Intact
<1>1. Typed /\ Staged /\ Intact /\ Typed' /\ Staged' /\ [DiskNext]_all => Intact'
  BY IntactStep
<1> QED
  BY <1>1, DiskInitTyped, TypedStep, StagedInit, StagedStep, IntactInit, PTL DEF DiskSpec

\* For any constants, and any number of writes that fail and commands that are
\* killed: each size a valid slot of the file says it has is in the file, of the
\* slot's content and in that size.
THEOREM ContentSurvives ==
    ASSUME ~Resident
    PROVE  DiskSpec => []SoundContent
BY IntactAlways, IntactEnough, PTL

\* For any constants and any faults of commands: equal contents stay stored once.
THEOREM OriginalsStayShared ==
    ASSUME ~Resident
    PROVE  DiskSpec => []SharedOriginal
BY IntactAlways, IntactEnough, PTL

\* For any constants and any faults of commands: a stored image is found under
\* its name before a deleted slot of that name, but for the name in the header,
\* which a delete that loses its slot puts on the image it has not deleted.
THEOREM StoredStaysFound ==
    ASSUME ~Resident
    PROVE  DiskSpec => []FoundUnderItsName
BY IntactAlways, IntactEnough, PTL

=============================================================================
