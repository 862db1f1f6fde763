------------------------------ MODULE ImgfsLib ------------------------------
(***************************************************************************)
(* The imgFS library: do_create, do_open, do_close, do_insert, do_delete,  *)
(* do_read (with lazily_resize) and do_list on one .imgfs file.            *)
(*                                                                         *)
(* A call is one atomic step here: the command line tool runs one call per *)
(* process and the server runs every call under one mutex. What a call     *)
(* leaves behind in memory and what it leaves on disk are told apart,      *)
(* because several error returns leave the two different. Every write      *)
(* succeeds in this module.                                                *)
(***************************************************************************)
EXTENDS Integers, Sequences, FiniteSets

CONSTANTS
    MaxFiles,     \* header.max_files: slots of the metadata table
    Ids,          \* the img_id values callers pass
    Blank,        \* the empty string: img_id of a slot never used
    Contents,     \* image files, identified by their SHA-256
    Decodable,    \* those vips_jpegload_buffer accepts
    NoContent,    \* bytes that are no inserted image; SHA of a slot never used
    Derived,      \* THUMB_RES and SMALL_RES
    Orig,         \* ORIG_RES
    VersionMod,   \* header.version is a uint32_t: 2^32 in the code
    MaxBlobs,     \* bound: image files ever appended to the .imgfs file
    Resident      \* TRUE: one process keeps the table over many calls (server)
                  \* FALSE: every call opens and closes the file (imgfscmd)

ASSUME MaxFilesAssumption == MaxFiles \in Nat \ {0}
ASSUME NoContentAssumption == NoContent \notin Contents
ASSUME DecodableAssumption == Decodable \subseteq Contents
ASSUME ResolutionAssumption == Orig \notin Derived
ASSUME VersionAssumption  == VersionMod \in Nat \ {0, 1}
ASSUME BoundAssumption    == MaxBlobs \in Nat
ASSUME ResidentAssumption == Resident \in BOOLEAN

VARIABLES
    metadata,       \* imgfs_file.metadata, the table in memory
    header,         \* imgfs_file.header, in memory
    disk_metadata,  \* the table in the file
    disk_header,    \* the header in the file
    data,           \* what follows the table in the file: the appended images
    handle,         \* the struct imgfs_file: "closed", "open", or "done" (one
                    \* command has made its call and has yet to close)
    ret             \* the last call and what it answered

file == <<disk_metadata, disk_header, data>>
memory == <<metadata, header>>
vars == <<metadata, header, disk_metadata, disk_header, data, handle, ret>>

Slots == 0 .. MaxFiles - 1
Resolutions == Derived \cup {Orig}

-----------------------------------------------------------------------------
(* struct img_metadata and struct imgfs_header. offset 0 is "none": a       *)
(* position in data otherwise. A size is known to be zero or not.           *)

Slot == [img_id: Ids \cup {Blank}, SHA: Contents \cup {NoContent},
         offset: [Resolutions -> Nat], size: [Resolutions -> {0, 1}],
         is_valid: BOOLEAN]

Header == [nb_files: 0 .. MaxFiles, version: 0 .. VersionMod - 1]

Blob == [content: Contents \cup {NoContent}, res: Resolutions]

NoBlob == [content |-> NoContent, res |-> Orig]

Metadata(id, c, offset, size, valid) ==
    [img_id |-> id, SHA |-> c, offset |-> offset, size |-> size,
     is_valid |-> valid]

Zeros == [r \in Resolutions |-> 0]

\* The positions or sizes of an image that has only its original.
OnlyOrig(n) == [r \in Resolutions |-> IF r = Orig THEN n ELSE 0]

Unused == Metadata(Blank, NoContent, Zeros, Zeros, FALSE)

EmptyTable == [i \in Slots |-> Unused]
EmptyHeader == [nb_files |-> 0, version |-> 0]

Valid(table) == {i \in Slots : table[i].is_valid}

Errors == {"NONE", "IMGFS_FULL", "DUPLICATE_ID", "IMGLIB", "IMAGE_NOT_FOUND",
           "INVALID_IMGID", "IO", "OUT_OF_MEMORY", "CRASH"}

Answer(call, id, err, image, listed) ==
    [call |-> call, id |-> id, err |-> err, image |-> image, listed |-> listed]

Returns(call, id, err) == ret' = Answer(call, id, err, NoBlob, {})

Init ==
    /\ metadata = EmptyTable /\ header = EmptyHeader
    /\ disk_metadata = EmptyTable /\ disk_header = EmptyHeader
    /\ data = <<>>
    /\ handle = "closed"
    /\ ret = Answer("create", Blank, "NONE", NoBlob, {})

-----------------------------------------------------------------------------
(* Opening and closing.                                                     *)

\* do_create truncates whatever the file held.
Create ==
    /\ handle = "closed"
    /\ disk_metadata' = EmptyTable /\ disk_header' = EmptyHeader
    /\ data' = <<>>
    /\ Returns("create", Blank, "NONE")
    /\ UNCHANGED <<metadata, header, handle>>

Open ==
    /\ handle = "closed"
    /\ metadata' = disk_metadata /\ header' = disk_header
    /\ handle' = "open"
    /\ Returns("open", Blank, "NONE")
    /\ UNCHANGED file

\* The memory is gone, whether do_close freed it or the process died.
Forget ==
    /\ metadata' = EmptyTable /\ header' = EmptyHeader
    /\ handle' = "closed"
    /\ UNCHANGED file

Close ==
    /\ handle # "closed"
    /\ Forget
    /\ Returns("close", Blank, "NONE")

\* A call finds the file open; a command has then spent its only call.
Calling ==
    /\ handle = "open"
    /\ handle' = IF Resident THEN "open" ELSE "done"

-----------------------------------------------------------------------------
(* Writing a slot and the header.                                           *)

SaveSlot(i, slot) ==
    /\ metadata' = [metadata EXCEPT ![i] = slot]
    /\ disk_metadata' = [disk_metadata EXCEPT ![i] = slot]

\* Fault: the header never reaches the file.
SaveHeaderInMemory(count) ==
    /\ header' = [nb_files |-> count,
                  version |-> (header.version + 1) % VersionMod]
    /\ UNCHANGED disk_header

\* Fault: one image too many is counted.
SaveHeaderCountedTwice(count) ==
    /\ header' = [nb_files |-> count + 1,
                  version |-> (header.version + 1) % VersionMod]
    /\ disk_header' = header'

SaveHeader(count) ==
    /\ header' = [nb_files |-> count,
                  version |-> (header.version + 1) % VersionMod]
    /\ disk_header' = header'

\* An error return that leaves a slot changed in memory only.
LeaveInMemory(i, slot) ==
    /\ metadata' = [metadata EXCEPT ![i] = slot]
    /\ UNCHANGED <<header, file>>

-----------------------------------------------------------------------------
(* do_insert and do_name_and_content_dedup.                                 *)

\* Fault: the search runs from the other end of the table.
HighestFree(i) ==
    /\ i \in Slots \ Valid(metadata)
    /\ \A k \in Slots \ Valid(metadata) : k <= i

\* Fault: the search does not look at is_valid.
LowestSlot(i) == i = 0

LowestFree(i) ==
    /\ i \in Slots \ Valid(metadata)
    /\ \A k \in Slots \ Valid(metadata) : i <= k

\* Fault: the sizes of the image that used the slot before stay too.
ClaimedWithSizes(i, id, c) ==
    Metadata(id, c, metadata[i].offset, [metadata[i].size EXCEPT ![Orig] = 1],
             TRUE)

\* Fault: is_valid is not set.
ClaimedEmpty(i, id, c) ==
    Metadata(id, c, metadata[i].offset, OnlyOrig(1), FALSE)

\* What do_insert writes in the slot before it checks anything. The offsets
\* of the image that used the slot before stay.
Claimed(i, id, c) ==
    Metadata(id, c, metadata[i].offset, OnlyOrig(1), TRUE)

\* Fault: the scan does not look at is_valid.
RivalsOfAllSlots(i, id, c) ==
    {j \in Slots \ {i} : metadata[j].img_id = id \/ metadata[j].SHA = c}

\* Fault: the scan compares names only.
RivalsByName(i, id, c) == {j \in Valid(metadata) \ {i} : metadata[j].img_id = id}

\* The slots the dedup scan stops at, and the first of them.
Rivals(i, id, c) ==
    {j \in Valid(metadata) \ {i} : metadata[j].img_id = id \/ metadata[j].SHA = c}

FirstRival(i, id, c, j) ==
    /\ j \in Rivals(i, id, c)
    /\ \A k \in Rivals(i, id, c) : j <= k

\* A duplicate content takes over where the copy found lies.
Shared(slot, copy) ==
    Metadata(slot.img_id, slot.SHA, copy.offset, copy.size, slot.is_valid)

\* No duplicate: only the offset of the original is reset.
Unplaced(slot) ==
    Metadata(slot.img_id, slot.SHA, [slot.offset EXCEPT ![Orig] = 0], slot.size,
             slot.is_valid)

\* What the scan makes of slot i, as a set: empty when it stops at the name.
Deduped(i, id, c) ==
    {Shared(Claimed(i, id, c), metadata[j]) :
        j \in {k \in Slots : FirstRival(i, id, c, k) /\ metadata[k].img_id # id}}
    \cup {slot \in {Unplaced(Claimed(i, id, c))} : Rivals(i, id, c) = {}}

\* The image will be the next blob of the file, without derived ones yet.
Placed(slot) ==
    Metadata(slot.img_id, slot.SHA, OnlyOrig(Len(data) + 1), slot.size,
             slot.is_valid)

InsertFull(id) ==
    /\ Calling
    /\ header.nb_files = MaxFiles \/ Slots \subseteq Valid(metadata)
    /\ Returns("insert", id, "IMGFS_FULL")
    /\ UNCHANGED <<memory, file>>

\* The refused slot stays NON_EMPTY in memory, and is not counted.
InsertDuplicate(id, c) ==
    /\ Calling
    /\ header.nb_files # MaxFiles
    /\ \E i, j \in Slots :
          /\ LowestFree(i)
          /\ FirstRival(i, id, c, j)
          /\ metadata[j].img_id = id
          /\ LeaveInMemory(i, Claimed(i, id, c))
    /\ Returns("insert", id, "DUPLICATE_ID")

\* get_resolution runs after the dedup, and refuses with the slot NON_EMPTY too.
InsertUndecodable(id, c) ==
    /\ Calling
    /\ header.nb_files # MaxFiles
    /\ c \notin Decodable
    /\ \E i \in Slots : \E slot \in Deduped(i, id, c) :
          LowestFree(i) /\ LeaveInMemory(i, slot)
    /\ Returns("insert", id, "IMGLIB")

\* The scan found the content: nothing is appended.
InsertShared(id, c) ==
    /\ Calling
    /\ header.nb_files # MaxFiles
    /\ c \in Decodable
    /\ \E i \in Slots : \E slot \in Deduped(i, id, c) :
          /\ LowestFree(i)
          /\ slot.offset[Orig] # 0
          /\ SaveSlot(i, slot)
    /\ SaveHeader(header.nb_files + 1)
    /\ Returns("insert", id, "NONE")
    /\ UNCHANGED data

\* The image is appended at the end of the file.
InsertNew(id, c) ==
    /\ Calling
    /\ header.nb_files # MaxFiles
    /\ c \in Decodable
    /\ Len(data) < MaxBlobs
    /\ \E i \in Slots : \E slot \in Deduped(i, id, c) :
          /\ LowestFree(i)
          /\ slot.offset[Orig] = 0
          /\ SaveSlot(i, Placed(slot))
    /\ data' = Append(data, [content |-> c, res |-> Orig])
    /\ SaveHeader(header.nb_files + 1)
    /\ Returns("insert", id, "NONE")

-----------------------------------------------------------------------------
(* do_delete: of the slots with that name, valid or not, the last.          *)

Named(id) == {i \in Slots : metadata[i].img_id = id}

LastNamed(id, i) == i \in Named(id) /\ \A k \in Named(id) : k <= i

\* Fault: the slot is cleared of its name and stays NON_EMPTY.
EmptiedOfName(slot) ==
    Metadata(Blank, slot.SHA, slot.offset, slot.size, slot.is_valid)

Emptied(slot) ==
    Metadata(slot.img_id, slot.SHA, slot.offset, slot.size, FALSE)

\* do_delete_cmd refuses the empty name before it opens the file; the library
\* does not.
DeleteRefused(id) ==
    /\ handle = "closed"
    /\ ~Resident /\ id = Blank
    /\ Returns("delete", id, "INVALID_IMGID")
    /\ UNCHANGED <<memory, file, handle>>

DeleteMissing(id) ==
    /\ Calling
    /\ Resident \/ id # Blank
    /\ \/ header.nb_files = 0
       \/ \A i \in Slots : LastNamed(id, i) => ~metadata[i].is_valid
    /\ Returns("delete", id, "IMAGE_NOT_FOUND")
    /\ UNCHANGED <<memory, file>>

Delete(id) ==
    /\ Calling
    /\ Resident \/ id # Blank
    /\ header.nb_files # 0
    /\ \E i \in Slots :
          /\ LastNamed(id, i)
          /\ metadata[i].is_valid
          /\ SaveSlot(i, Emptied(metadata[i]))
    /\ SaveHeader(header.nb_files - 1)
    /\ Returns("delete", id, "NONE")
    /\ UNCHANGED data

-----------------------------------------------------------------------------
(* do_read and lazily_resize: of the slots with that name, the first.       *)

FirstNamed(id, i) == i \in Named(id) /\ \A k \in Named(id) : i <= k

\* The blob at that offset is the whole of the slot's image: a derived image
\* is read with the size it was written with, the original with the size of
\* the file last claimed for the slot.
Exact(i, r) ==
    /\ metadata[i].offset[r] \in DOMAIN data
    /\ r = Orig => data[metadata[i].offset[r]] =
                      [content |-> metadata[i].SHA, res |-> Orig]

\* do_read calls lazily_resize for what is not there.
ToResize(i, r) ==
    r # Orig /\ (metadata[i].offset[r] = 0 \/ metadata[i].size[r] = 0)

ReadMissing(id) ==
    /\ Calling
    /\ Named(id) = {}
    /\ Returns("read", id, "IMAGE_NOT_FOUND")
    /\ UNCHANGED <<memory, file>>

\* Only lazily_resize looks at is_valid.
ReadInvalid(id, r) ==
    /\ Calling
    /\ \E i \in Slots :
          FirstNamed(id, i) /\ ToResize(i, r) /\ ~metadata[i].is_valid
    /\ Returns("read", id, "INVALID_IMGID")
    /\ UNCHANGED <<memory, file>>

\* No memory for the original to resize, or for the image to answer with.
ReadNoMemory(id, r) ==
    /\ Calling
    /\ \E i \in Slots :
          FirstNamed(id, i) /\ (ToResize(i, r) => metadata[i].is_valid)
    /\ Returns("read", id, "OUT_OF_MEMORY")
    /\ UNCHANGED <<memory, file>>

\* fseek and fread at the slot's offset, whatever is_valid says.
ReadStored(id, r) ==
    /\ Calling
    /\ \E i \in Slots :
          /\ FirstNamed(id, i)
          /\ ToResize(i, r) => metadata[i].is_valid /\ metadata[i].size[r] # 0
          /\ \/ /\ metadata[i].size[r] # 0
                /\ ret' = Answer("read", id, "NONE",
                             IF Exact(i, r) THEN data[metadata[i].offset[r]]
                                            ELSE NoBlob, {})
             \/ /\ metadata[i].size[r] = 0 \/ ~Exact(i, r)
                /\ Returns("read", id, "IO")
    /\ UNCHANGED <<memory, file>>

\* What the thumbnail of slot i can show: bytes of another image, read with a
\* size not theirs, may decode as that image or as a damaged one; the file's
\* own header does not decode.
Rendered(i) ==
    LET offset == metadata[i].offset[Orig] IN
    IF Exact(i, Orig) THEN {metadata[i].SHA}
    ELSE {c \in {NoContent} \cup {data[o].content : o \in {offset} \cap DOMAIN data} :
             offset # 0}

\* The derived image will be the next blob of the file.
Resized(slot, r) ==
    Metadata(slot.img_id, slot.SHA, [slot.offset EXCEPT ![r] = Len(data) + 1],
             [slot.size EXCEPT ![r] = 1], slot.is_valid)

\* What do_read answers once there is an image to read back.
ReadBack(id, image) ==
    {Answer("read", id, "NONE", image, {}),
     Answer("read", id, "OUT_OF_MEMORY", NoBlob, {})}

\* The thumbnail is appended and the slot saved; the header is not.
ReadResize(id, r) ==
    /\ Calling
    /\ Len(data) < MaxBlobs
    /\ \E i \in Slots : \E c \in Rendered(i) :
          /\ FirstNamed(id, i)
          /\ ToResize(i, r)
          /\ metadata[i].is_valid
          /\ metadata[i].size[r] = 0
          /\ data' = Append(data, [content |-> c, res |-> r])
          /\ SaveSlot(i, Resized(metadata[i], r))
          /\ ret' \in ReadBack(id, [content |-> c, res |-> r])
    /\ UNCHANGED <<header, disk_header>>

\* libvips refuses the bytes, or there are too few of them. clean_up then
\* unreferences pointers nobody set: the process may die of it.
ReadResizeFails(id, r) ==
    /\ handle = "open"
    /\ \E i \in Slots :
          /\ FirstNamed(id, i)
          /\ ToResize(i, r)
          /\ metadata[i].is_valid
          /\ metadata[i].size[r] = 0
          /\ \/ /\ Calling
                /\ \E err \in {"IMGLIB"} \cup {e \in {"IO"} : ~Exact(i, Orig)} :
                      Returns("read", id, err)
                /\ UNCHANGED <<memory, file>>
             \/ /\ Forget
                /\ Returns("read", id, "CRASH")

-----------------------------------------------------------------------------
(* do_list: the first nb_files valid slots.                                 *)

Listed ==
    {i \in Valid(metadata) :
        Cardinality({k \in Valid(metadata) : k <= i}) <= header.nb_files}

List ==
    /\ Calling
    /\ ret' = Answer("list", Blank, "NONE", NoBlob,
                     {metadata[i].img_id : i \in Listed})
    /\ UNCHANGED <<memory, file>>

-----------------------------------------------------------------------------

Insert(id, c) ==
    \/ InsertFull(id)
    \/ InsertDuplicate(id, c)
    \/ InsertUndecodable(id, c)
    \/ InsertShared(id, c)
    \/ InsertNew(id, c)

Remove(id) == DeleteRefused(id) \/ DeleteMissing(id) \/ Delete(id)

Read(id, r) ==
    \/ ReadMissing(id)
    \/ ReadInvalid(id, r)
    \/ ReadNoMemory(id, r)
    \/ ReadStored(id, r)
    \/ ReadResize(id, r)
    \/ ReadResizeFails(id, r)

Next ==
    \/ Create
    \/ Open
    \/ Close
    \/ \E id \in Ids, c \in Contents : Insert(id, c)
    \/ \E id \in Ids : Remove(id)
    \/ \E id \in Ids, r \in Resolutions : Read(id, r)
    \/ List

Spec == Init /\ [][Next]_vars

-----------------------------------------------------------------------------
(* Properties.                                                              *)

\* Every table, header and blob has the shape its declaration gives it.
TypeOK ==
    /\ metadata \in [Slots -> Slot] /\ header \in Header
    /\ disk_metadata \in [Slots -> Slot] /\ disk_header \in Header
    /\ data \in Seq(Blob)
    /\ handle \in {"closed", "open", "done"}
    /\ ret \in [call: {"create", "open", "close", "insert", "delete", "read",
                       "list"},
                id: Ids \cup {Blank}, err: Errors, image: Blob,
                listed: SUBSET (Ids \cup {Blank})]

\* nb_files in the file is the number of NON_EMPTY slots in the file: do_insert
\* and do_delete keep it by hand, in a structure written apart from the slots.
\* Holds for commands, whose refused slots die with the process.
CountExact == disk_header.nb_files = Cardinality(Valid(disk_metadata))

\* Every image in the file is its own: where a valid slot points lies the
\* original with the slot's SHA, and every size that is not zero has a derived
\* image of the same original, through deduplication, slot reuse and deletion.
Whole(table, i) ==
    /\ \A r \in Resolutions :
          table[i].size[r] # 0 =>
             /\ table[i].offset[r] \in DOMAIN data
             /\ data[table[i].offset[r]] = [content |-> table[i].SHA, res |-> r]
    /\ table[i].size[Orig] # 0

SoundContent == \A i \in Valid(disk_metadata) : Whole(disk_metadata, i)

\* The purpose of do_name_and_content_dedup: two images of equal content share
\* one copy of the original.
SharedOriginal ==
    \A i, j \in Valid(disk_metadata) :
        disk_metadata[i].SHA = disk_metadata[j].SHA =>
            disk_metadata[i].offset[Orig] = disk_metadata[j].offset[Orig]

\* do_read takes the first slot of a name and never asks whether it is valid;
\* do_delete takes the last. No slot that is EMPTY may hide a valid one of the
\* same name behind it, or an image that is stored could not be read.
LowerTwinValidIn(table) ==
    \A i, j \in Slots :
        i < j /\ table[i].img_id = table[j].img_id /\ table[j].is_valid
            => table[i].is_valid

LowerTwinValid == LowerTwinValidIn(disk_metadata)

\* While the file is open, every image that is in the file is in memory too,
\* the same in every field, and so is the header: a restart of the server
\* loses no image it acknowledged.
NothingUnsaved ==
    handle # "closed" =>
        /\ header = disk_header
        /\ \A i \in Valid(disk_metadata) : metadata[i] = disk_metadata[i]

\* The catalogue of the file.
Entry(slot) ==
    IF slot.is_valid THEN [id |-> slot.img_id, contents |-> {slot.SHA}]
    ELSE [id |-> Blank, contents |-> {}]

Catalog == INSTANCE ImgfsCatalog WITH
    stored <- [i \in Slots |-> Entry(disk_metadata[i])],
    version <- disk_header.version,
    answer <- ret

\* Run as commands, the library implements the catalogue: an insert or a delete
\* that answers ERR_NONE changes one entry and moves the version by one, any
\* other call changes nothing, every refusal to insert has its reason, a stored
\* name reads as an image stored under it, and the list is complete.
ImplementsCatalog == Catalog!Spec

\* The promises above are for commands. A process that keeps the table, the
\* server, keeps the following ones too.

\* A call touches no image stored under another name than its own.
Isolation ==
    [][\A i \in Valid(disk_metadata) :
          disk_metadata'[i] # disk_metadata[i] =>
              ret'.call = "create" \/ ret'.id = disk_metadata[i].img_id]_vars

\* nb_files never exceeds the slots that are NON_EMPTY, in memory or in the
\* file, although refused inserts leave slots uncounted and do_delete counts
\* them back: it cannot go below zero, and do_list never looks for more images
\* than there are.
CountBounded ==
    /\ disk_header.nb_files <= Cardinality(Valid(disk_metadata))
    /\ header.nb_files <= Cardinality(Valid(metadata))

\* No call of the open file makes an EMPTY slot hide a valid one in memory.
TwinsKept ==
    [][handle = "open" /\ handle' = "open" /\ LowerTwinValidIn(metadata)
          => LowerTwinValidIn(metadata')]_vars

\* Whatever deletion, reuse and deduplication leave in a slot, valid or not,
\* points into the file, and a derived image that has a size has a place: the
\* two halves of the test with which do_read decides to call lazily_resize
\* never disagree in the way lazily_resize takes for "already there".
OffsetsSound ==
    \A i \in Slots, r \in Resolutions :
        /\ metadata[i].offset[r] <= Len(data)
        /\ r # Orig /\ metadata[i].size[r] # 0 =>
              metadata[i].offset[r] # 0 /\ data[metadata[i].offset[r]].res = r

=============================================================================
