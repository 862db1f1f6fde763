----------------------------- MODULE ImgfsDisk ------------------------------
(***************************************************************************)
(* The calls of ImgfsLib with each of their writes a step: the image, the  *)
(* slot and the header leave do_insert, do_delete and lazily_resize one    *)
(* after the other, through the buffer of a C stream. A write may fail,    *)
(* and the process may stop between any two steps; a later process opens   *)
(* what it finds.                                                          *)
(*                                                                         *)
(* The stream is external. It holds one write at most, since every write   *)
(* of this code follows a seek and a seek first passes on what is held. A  *)
(* slot or a header reaches the file whole or not at all; an image that    *)
(* does not may leave a part of itself at the end of the file.             *)
(***************************************************************************)
EXTENDS ImgfsLib

CONSTANTS
    CAT_TXT,    \* the name every header begins with
    MaxFaults   \* bound: writes that fail and processes that stop

ASSUME NameAssumption == CAT_TXT \in Ids
ASSUME FaultsAssumption == MaxFaults \in Nat

VARIABLES
    buffer,   \* the write the stream holds: <<>> or <<write>>
    failed,   \* a held write could not be passed on, the next seek says so
    task,     \* the call in progress, and its next write
    formed,   \* the file has a header and a table
    faults    \* how often something went wrong

stream == <<buffer, failed>>
all == <<vars, buffer, failed, task, formed, faults>>

Idle == [step |-> "idle", i |-> 0,
         answer |-> Answer("create", Blank, "NONE", NoBlob, {})]

Task(step, i, answer) == [step |-> step, i |-> i, answer |-> answer]

ImageWrite(blob) == <<[what |-> "image", blob |-> blob]>>
SlotWrite(i) == <<[what |-> "slot", i |-> i, slot |-> metadata[i]]>>
HeaderWrite == <<[what |-> "header", header |-> header]>>
TableWrite == <<[what |-> "table"]>>

Busy == task.step # "idle"
Fails == faults < MaxFaults /\ faults' = faults + 1

DiskInit ==
    /\ Init
    /\ buffer = <<>> /\ failed = FALSE
    /\ task = Idle
    /\ formed = TRUE
    /\ faults = 0

-----------------------------------------------------------------------------
(* The stream.                                                              *)

\* What is held reaches the file: at the next seek, at the close, or before.
Flush ==
    /\ buffer # <<>>
    /\ LET w == buffer[1] IN
       /\ data' = IF w.what = "image" THEN Append(data, w.blob) ELSE data
       /\ disk_metadata' = IF w.what = "slot"
                           THEN [disk_metadata EXCEPT ![w.i] = w.slot]
                           ELSE disk_metadata
       /\ disk_header' = IF w.what = "header" THEN w.header ELSE disk_header
       /\ formed' = (formed \/ w.what = "table")
    /\ buffer' = <<>>
    /\ UNCHANGED <<memory, handle, ret, failed, task, faults>>

\* What is held is lost, but for a part of an image.
Lost ==
    /\ \/ UNCHANGED data
       \/ buffer # <<>> /\ buffer[1].what = "image" /\ data' = Append(data, NoBlob)
    /\ buffer' = <<>>
    /\ UNCHANGED <<disk_metadata, disk_header, formed>>

\* Only commands are followed past a write that fails.
FlushFails ==
    /\ ~Resident
    /\ buffer # <<>>
    /\ Lost /\ failed' = TRUE
    /\ Fails
    /\ UNCHANGED <<memory, handle, ret, task>>

\* The process is killed: nobody flushes.
Stop ==
    /\ handle # "closed"
    /\ Lost /\ failed' = FALSE
    /\ metadata' = EmptyTable /\ header' = EmptyHeader
    /\ handle' = "closed"
    /\ task' = Idle
    /\ Returns("stop", Blank, "CRASH")
    /\ Fails

-----------------------------------------------------------------------------
(* Opening, closing and creating.                                           *)

\* What a call leaves alone that has nothing to write.
Aside == ~Busy /\ UNCHANGED <<buffer, failed, task, formed, faults>>

OpenFile == Aside /\ formed /\ Open

OpenFails ==
    /\ Aside
    /\ handle = "closed" /\ ~formed
    /\ Returns("open", Blank, "IO")
    /\ UNCHANGED <<memory, file, handle>>

\* do_close does not look at what fclose says of the last write.
CloseFile ==
    /\ ~Busy /\ buffer = <<>>
    /\ handle # "creating"
    /\ Close
    /\ failed' = FALSE
    /\ UNCHANGED <<buffer, task, formed, faults>>

\* fopen empties the file before anything else is known to work.
Truncate ==
    /\ handle = "closed" /\ ~Busy
    /\ disk_metadata' = EmptyTable /\ disk_header' = EmptyHeader
    /\ data' = <<>>
    /\ formed' = FALSE
    /\ UNCHANGED <<memory, failed, task>>

BeginCreate ==
    /\ Truncate
    /\ buffer' = TableWrite
    /\ handle' = "creating"
    /\ Returns("create", Blank, "NONE")
    /\ UNCHANGED faults

\* No memory for the table, or no room for it in the file.
CreateFails ==
    /\ Truncate
    /\ \E err \in {"OUT_OF_MEMORY", "IO"} : Returns("create", Blank, err)
    /\ Fails
    /\ UNCHANGED <<buffer, handle>>

\* do_create_cmd closes the file, and answers what do_create did.
EndCreate ==
    /\ handle = "creating" /\ buffer = <<>>
    /\ handle' = "closed"
    /\ failed' = FALSE
    /\ UNCHANGED <<memory, file, ret, buffer, task, formed, faults>>

-----------------------------------------------------------------------------
(* The first step of a call: everything up to the write after which it seeks. *)

\* Calls that are over before they write. Those that read the file seek first.
Immediate ==
    /\ Aside
    /\ \/ List
       \/ \E id \in Ids, c \in Contents :
             InsertFull(id) \/ InsertDuplicate(id, c) \/ InsertUndecodable(id, c)
       \/ \E id \in Ids : DeleteRefused(id) \/ DeleteMissing(id) \/ ReadMissing(id)
       \/ \E id \in Ids, r \in Resolutions :
             \/ ReadInvalid(id, r) \/ ReadNoMemory(id, r)
             \/ buffer = <<>> /\ (ReadStored(id, r) \/ ReadResizeFails(id, r))

Begins ==
    /\ ~Busy /\ Calling
    /\ UNCHANGED <<file, ret, failed, formed, faults>>

\* Fault: the version moves by two.
CountedTwice(count) ==
    header' = [nb_files |-> count, version |-> (header.version + 2) % VersionMod]

Counted(count) ==
    header' = [nb_files |-> count, version |-> (header.version + 1) % VersionMod]

\* The content is stored already: no image to write.
BeginShared(id, c) ==
    /\ Begins
    /\ header.nb_files # MaxFiles /\ c \in Decodable
    /\ \E i \in Slots : \E slot \in Deduped(i, id, c) :
          /\ LowestFree(i)
          /\ slot.offset[Orig] # 0
          /\ metadata' = [metadata EXCEPT ![i] = slot]
          /\ task' = Task("slot", i, Answer("insert", id, "NONE", NoBlob, {}))
    /\ Counted(header.nb_files + 1)
    /\ UNCHANGED buffer

\* fseek to the end, ftell, fwrite. The offset is in the slot before the image
\* is in the file.
BeginNew(id, c) ==
    /\ Begins
    /\ header.nb_files # MaxFiles /\ c \in Decodable
    /\ Len(data) < MaxBlobs
    /\ buffer = <<>>
    /\ \E i \in Slots : \E slot \in Deduped(i, id, c) :
          /\ LowestFree(i)
          /\ slot.offset[Orig] = 0
          /\ metadata' = [metadata EXCEPT ![i] = Placed(slot)]
          /\ task' = Task("slot", i, Answer("insert", id, "NONE", NoBlob, {}))
    /\ buffer' = ImageWrite([content |-> c, res |-> Orig])
    /\ Counted(header.nb_files + 1)

\* Fault: the slot is written before it is emptied.
FullWrite(i) == SlotWrite(i)

\* The slot do_delete writes.
EmptiedWrite(i) == <<[what |-> "slot", i |-> i, slot |-> Emptied(metadata[i])]>>

BeginDelete(id) ==
    /\ Begins
    /\ Resident \/ id # Blank
    /\ header.nb_files # 0
    /\ buffer = <<>>
    /\ \E i \in Slots :
          /\ LastNamed(id, i)
          /\ metadata[i].is_valid
          /\ metadata' = [metadata EXCEPT ![i] = Emptied(metadata[i])]
          /\ buffer' = EmptiedWrite(i)
          /\ task' = Task("header", i, Answer("delete", id, "NONE", NoBlob, {}))
    /\ Counted(header.nb_files - 1)

BeginResize(id, r) ==
    /\ Begins
    /\ Len(data) < MaxBlobs
    /\ buffer = <<>>
    /\ \E i \in Slots : \E c \in Rendered(i) :
          /\ FirstNamed(id, i)
          /\ ToResize(i, r)
          /\ metadata[i].is_valid
          /\ metadata[i].size[r] = 0
          /\ metadata' = [metadata EXCEPT ![i] = Resized(metadata[i], r)]
          /\ buffer' = ImageWrite([content |-> c, res |-> r])
          /\ task' = Task("slot", i, Answer("read", id, "NONE",
                                            [content |-> c, res |-> r], {}))
    /\ UNCHANGED header

\* A part of an image stays at the end of the file.
Cut ==
    /\ Len(data) < MaxBlobs
    /\ data' \in {data, Append(data, NoBlob)}

\* fwrite says at once that the image, or the slot of do_delete, does not fit.
BeginFails(id) ==
    /\ ~Resident
    /\ ~Busy /\ Calling /\ buffer = <<>>
    /\ \/ /\ header.nb_files # MaxFiles
          /\ \E c \in Decodable, i \in Slots : \E slot \in Deduped(i, id, c) :
                /\ LowestFree(i)
                /\ slot.offset[Orig] = 0
                /\ metadata' = [metadata EXCEPT ![i] = Placed(slot)]
          /\ Cut
          /\ Returns("insert", id, "IO")
       \/ /\ \E i \in Slots, r \in Derived :
                /\ FirstNamed(id, i) /\ ToResize(i, r)
                /\ metadata[i].is_valid /\ metadata[i].size[r] = 0
                /\ Rendered(i) # {}
          /\ Cut
          /\ Returns("read", id, "IO")
          /\ UNCHANGED metadata
       \/ /\ header.nb_files # 0 /\ id # Blank
          /\ \E i \in Slots :
                /\ LastNamed(id, i)
                /\ metadata[i].is_valid
                /\ metadata' = [metadata EXCEPT ![i] = Emptied(metadata[i])]
          /\ Returns("delete", id, "IO")
          /\ UNCHANGED data
    /\ Fails
    /\ UNCHANGED <<header, disk_metadata, disk_header, buffer, failed, task, formed>>

-----------------------------------------------------------------------------
(* The steps after it.                                                      *)

Ends(answer) == task' = Idle /\ ret' = answer

\* Fault: what fseek says of the image is not looked at.
WriteSlotAnyway ==
    /\ task.step = "slot"
    /\ buffer = <<>>
    /\ buffer' = SlotWrite(task.i)
    /\ task' = Task(IF task.answer.call = "read" THEN "reread" ELSE "header",
                    task.i, task.answer)
    /\ failed' = FALSE
    /\ UNCHANGED <<vars, formed, faults>>

\* Fault: no seek before the slot, so the image is still held.
WriteSlotUnsought ==
    /\ task.step = "slot"
    /\ ~failed
    /\ buffer' = buffer \o SlotWrite(task.i)
    /\ task' = Task("header", task.i, task.answer)
    /\ UNCHANGED <<vars, failed, formed, faults>>

WriteSlot ==
    /\ task.step = "slot"
    /\ buffer = <<>> /\ ~failed
    /\ buffer' = SlotWrite(task.i)
    /\ task' = Task(IF task.answer.call = "read" THEN "reread" ELSE "header",
                    task.i, task.answer)
    /\ UNCHANGED <<vars, failed, formed, faults>>

\* Fault: do_insert does not look at what fseek says of the slot.
WriteHeaderAnyway ==
    /\ task.step = "header"
    /\ buffer = <<>>
    /\ buffer' = HeaderWrite
    /\ Ends(task.answer)
    /\ failed' = FALSE
    /\ UNCHANGED <<memory, file, handle, formed, faults>>

\* Fault: no seek before the header, so the slot is still held.
WriteHeaderUnsought ==
    /\ task.step = "header"
    /\ buffer' = HeaderWrite
    /\ Ends(task.answer)
    /\ failed' = FALSE
    /\ UNCHANGED <<memory, file, handle, formed, faults>>

\* After the seek that failed the stream still stands at the slot: the name in
\* the header is laid over that of the slot, as the file has it.
HeaderOverSlot(i) ==
    <<[what |-> "slot", i |-> i,
       slot |-> [disk_metadata[i] EXCEPT !.img_id = CAT_TXT]]>>

\* do_delete does not look at what fseek says of the slot.
WriteHeader ==
    /\ task.step = "header"
    /\ buffer = <<>>
    /\ failed => task.answer.call = "delete"
    /\ buffer' = IF failed THEN HeaderOverSlot(task.i) ELSE HeaderWrite
    /\ Ends(task.answer)
    /\ failed' = FALSE
    /\ UNCHANGED <<memory, file, handle, formed, faults>>

\* do_read fetches the image lazily_resize has written.
Reread ==
    /\ task.step = "reread"
    /\ buffer = <<>> /\ ~failed
    /\ Ends(task.answer)
    /\ UNCHANGED <<memory, file, handle, stream, formed, faults>>

\* There is no memory for the image. The slot may still be held.
ReadFails ==
    /\ ~Resident
    /\ task.step = "reread"
    /\ Ends(Answer("read", task.answer.id, "OUT_OF_MEMORY", NoBlob, {}))
    /\ Fails
    /\ UNCHANGED <<memory, file, handle, stream, formed>>

\* The seek or the write of that step fails.
StepFails ==
    /\ Busy /\ buffer = <<>>
    /\ \/ failed /\ task.answer.call # "delete" /\ UNCHANGED faults
       \/ ~Resident /\ (failed => task.answer.call = "delete") /\ Fails
    /\ Ends(Answer(task.answer.call, task.answer.id, "IO", NoBlob, {}))
    /\ failed' = FALSE
    /\ UNCHANGED <<memory, file, handle, buffer, formed>>

DiskNext ==
    \/ Flush \/ FlushFails \/ Stop
    \/ OpenFile \/ OpenFails \/ CloseFile
    \/ BeginCreate \/ CreateFails \/ EndCreate
    \/ Immediate
    \/ \E id \in Ids, c \in Contents : BeginShared(id, c) \/ BeginNew(id, c)
    \/ \E id \in Ids : BeginDelete(id) \/ BeginFails(id)
    \/ \E id \in Ids, r \in Derived : BeginResize(id, r)
    \/ WriteSlot \/ WriteHeader \/ Reread \/ ReadFails \/ StepFails

DiskSpec == DiskInit /\ [][DiskNext]_all

-----------------------------------------------------------------------------
(* Properties.                                                              *)

\* A held write carries what its kind needs.
WriteOK(w) ==
    \/ w.what = "image" /\ w.blob \in Blob
    \/ w.what = "slot" /\ w.i \in Slots /\ w.slot \in Slot
    \/ w.what = "header" /\ w.header \in Header
    \/ w.what = "table"

\* As in ImgfsLib; the stream holds one write at most, and the writes of a call
\* are about a slot of the table.
DiskTypeOK ==
    /\ metadata \in [Slots -> Slot] /\ header \in Header
    /\ disk_metadata \in [Slots -> Slot] /\ disk_header \in Header
    /\ data \in Seq(Blob)
    /\ handle \in {"closed", "open", "done", "creating"}
    /\ Len(buffer) <= 1 /\ (buffer # <<>> => WriteOK(buffer[1]))
    /\ failed \in BOOLEAN
    /\ task.step \in {"idle", "slot", "header", "reread"} /\ task.i \in Slots
    /\ formed \in BOOLEAN
    /\ faults \in 0 .. MaxFaults

\* do_read finds every stored image under its name: no EMPTY slot before it has
\* that name, but for a slot that do_delete has lost and named after the header.
FoundUnderItsName ==
    \A i, j \in Slots :
        i < j /\ disk_metadata[i].img_id = disk_metadata[j].img_id
            /\ disk_metadata[j].is_valid
        => disk_metadata[i].is_valid \/ (faults > 0 /\ disk_metadata[j].img_id = CAT_TXT)

\* An interrupted or failed call leaves nb_files one off the NON_EMPTY slots of
\* the file at most, too low after do_insert and too high after do_delete: the
\* two never drift further apart than calls went wrong, or are under way.
CountDrift ==
    LET drift == disk_header.nb_files - Cardinality(Valid(disk_metadata))
        bound == faults + Cardinality({w \in {1} : Busy \/ buffer # <<>>})
    IN drift <= bound /\ -drift <= bound

\* When do_insert has answered ERR_NONE the image is in the file, in a valid
\* slot of that name, although its header may still be held by the stream:
\* the process may be killed, and fclose may fail, without losing it.
AckedStored ==
    ~Busy /\ ret.call = "insert" /\ ret.err = "NONE" =>
        \E i \in Valid(disk_metadata) : disk_metadata[i].img_id = ret.id

\* Between two calls of the server every slot of the file is as it is in
\* memory, deletions included; of the header the last write may be held.
SlotsSaved ==
    handle = "open" /\ ~Busy =>
        /\ \A i \in Valid(disk_metadata) : metadata[i] = disk_metadata[i]
        /\ buffer = HeaderWrite \/ header = disk_header

\* The file as it will be at the end of the call in progress, once the stream
\* has passed on what it holds, and the answer of that call.
HeldSlot(i) == buffer # <<>> /\ buffer[1].what = "slot" /\ buffer[1].i = i

Settled ==
    [i \in Slots |-> IF Busy /\ task.i = i THEN metadata[i]
                     ELSE IF HeldSlot(i) THEN buffer[1].slot ELSE disk_metadata[i]]

SettledHeader == IF Busy \/ buffer = HeaderWrite THEN header ELSE disk_header

SettledData ==
    IF buffer # <<>> /\ buffer[1].what = "image" THEN Append(data, buffer[1].blob)
    ELSE data

SettledHandle == IF handle = "creating" THEN "closed" ELSE handle

SettledRet == IF Busy THEN task.answer ELSE ret

Lib == INSTANCE ImgfsLib WITH
    disk_metadata <- Settled, disk_header <- SettledHeader, data <- SettledData,
    handle <- SettledHandle, ret <- SettledRet

\* What ImgfsLib takes for one step is one: calls nothing interrupts have the
\* effect and the answer of ImgfsLib's, whatever faults went before them.
Uninterrupted ==
    [][faults' = faults /\ ~failed /\ (formed \/ ret'.call = "create")
          => Lib!Next \/ UNCHANGED Lib!vars]_all

=============================================================================
