---------------------------- MODULE ImgfsProofs -----------------------------
(***************************************************************************)
(* Theorems about ImgfsLib for every table size, set of names, contents,   *)
(* resolutions, bound on the file and width of the version counter.        *)
(***************************************************************************)
EXTENDS ImgfsLib, TLAPS, FiniteSetTheorems

-----------------------------------------------------------------------------
(* Lemmas about the operators.                                              *)

\* What do_insert first writes in a slot is a slot.
LEMMA ClaimedType ==
    ASSUME metadata \in [Slots -> Slot],
           NEW i \in Slots, NEW id \in Ids, NEW c \in Contents
    PROVE  /\ Claimed(i, id, c) \in Slot
           /\ Claimed(i, id, c).img_id = id
           /\ Claimed(i, id, c).SHA = c
           /\ Claimed(i, id, c).is_valid
           /\ Claimed(i, id, c).size = OnlyOrig(1)
           /\ Claimed(i, id, c).offset = metadata[i].offset
  <1>1. metadata[i].offset \in [Resolutions -> Nat]
    BY DEF Slot
  <1>2. OnlyOrig(1) \in [Resolutions -> {0, 1}]
    BY DEF OnlyOrig
  <1> QED
    BY <1>1, <1>2 DEF Claimed, Slot, Metadata

\* The updates of a slot by an insert or a delete, field by field.
LEMMA SharedFacts ==
    ASSUME NEW slot \in Slot, NEW copy \in Slot
    PROVE  /\ Shared(slot, copy) \in Slot
           /\ Shared(slot, copy).img_id = slot.img_id
           /\ Shared(slot, copy).SHA = slot.SHA
           /\ Shared(slot, copy).is_valid = slot.is_valid
           /\ Shared(slot, copy).offset = copy.offset
           /\ Shared(slot, copy).size = copy.size
  BY DEF Slot, Shared, Metadata

\* The updates of a slot after the scan, by the write of the image and by a
\* delete, field by field.
LEMMA UpdateFacts ==
    ASSUME NEW slot \in Slot, data \in Seq(Blob)
    PROVE  /\ Unplaced(slot) \in Slot
           /\ Unplaced(slot).img_id = slot.img_id
           /\ Unplaced(slot).SHA = slot.SHA
           /\ Unplaced(slot).is_valid = slot.is_valid
           /\ Unplaced(slot).size = slot.size
           /\ Unplaced(slot).offset[Orig] = 0
           /\ Placed(slot) \in Slot
           /\ Placed(slot).img_id = slot.img_id
           /\ Placed(slot).SHA = slot.SHA
           /\ Placed(slot).is_valid = slot.is_valid
           /\ Placed(slot).size = slot.size
           /\ Placed(slot).offset[Orig] = Len(data) + 1
           /\ Emptied(slot) \in Slot
           /\ Emptied(slot).img_id = slot.img_id
           /\ ~Emptied(slot).is_valid
  <1>1. Len(data) \in Nat
    BY DEF Blob
  <1>2. /\ OnlyOrig(Len(data) + 1) \in [Resolutions -> Nat]
        /\ OnlyOrig(Len(data) + 1)[Orig] = Len(data) + 1
    BY <1>1 DEF OnlyOrig, Resolutions
  <1> QED
    BY <1>2 DEF Slot, Resolutions, Unplaced, Placed, Emptied, Metadata

\* The update of a slot by lazily_resize, field by field.
LEMMA ResizedFacts ==
    ASSUME NEW slot \in Slot, NEW r \in Resolutions, data \in Seq(Blob)
    PROVE  /\ Resized(slot, r) \in Slot
           /\ Resized(slot, r).img_id = slot.img_id
           /\ Resized(slot, r).SHA = slot.SHA
           /\ Resized(slot, r).is_valid = slot.is_valid
           /\ Resized(slot, r).offset[r] = Len(data) + 1
           /\ Resized(slot, r).size[r] = 1
           /\ \A q \in Resolutions \ {r} :
                 /\ Resized(slot, r).offset[q] = slot.offset[q]
                 /\ Resized(slot, r).size[q] = slot.size[q]
  <1>1. Len(data) \in Nat
    BY DEF Blob
  <1> QED
    BY <1>1 DEF Slot, Resized, Metadata

\* The dedup scan of do_name_and_content_dedup makes a valid slot with the name
\* and the content that were asked for.
LEMMA DedupedType ==
    ASSUME metadata \in [Slots -> Slot], data \in Seq(Blob),
           NEW i \in Slots, NEW id \in Ids, NEW c \in Contents,
           NEW slot \in Deduped(i, id, c)
    PROVE  /\ slot \in Slot
           /\ slot.img_id = id /\ slot.SHA = c /\ slot.is_valid
  <1>1. /\ Claimed(i, id, c) \in Slot
        /\ Claimed(i, id, c).img_id = id
        /\ Claimed(i, id, c).SHA = c
        /\ Claimed(i, id, c).is_valid
    BY ClaimedType
  <1>3. CASE \E j \in Slots : slot = Shared(Claimed(i, id, c), metadata[j])
    <2>1. PICK j \in Slots : slot = Shared(Claimed(i, id, c), metadata[j])
      BY <1>3
    <2>2. metadata[j] \in Slot
      OBVIOUS
    <2> QED
      BY <1>1, <2>1, <2>2, SharedFacts
  <1>4. CASE slot = Unplaced(Claimed(i, id, c))
    BY <1>1, <1>4, UpdateFacts
  <1> QED
    BY <1>3, <1>4 DEF Deduped

\* A slot saved, in memory and on disk, leaves two tables of slots.
LEMMA SaveSlotType ==
    ASSUME metadata \in [Slots -> Slot], disk_metadata \in [Slots -> Slot],
           NEW i \in Slots, NEW slot \in Slot, SaveSlot(i, slot)
    PROVE  metadata' \in [Slots -> Slot] /\ disk_metadata' \in [Slots -> Slot]
  BY DEF SaveSlot

\* The header saved is a header as long as the count fits the table.
LEMMA SaveHeaderType ==
    ASSUME header \in Header, NEW count \in 0 .. MaxFiles, SaveHeader(count)
    PROVE  header' \in Header /\ disk_header' \in Header
  <1>1. (header.version + 1) % VersionMod \in 0 .. VersionMod - 1
    BY VersionAssumption DEF Header
  <1> QED
    BY <1>1 DEF SaveHeader, Header

Calls == {"create", "open", "close", "insert", "delete", "read", "list"}

Answers == [call: Calls, id: Ids \cup {Blank}, err: Errors, image: Blob,
            listed: SUBSET (Ids \cup {Blank})]

\* Every answer has the shape of an answer.
LEMMA AnswerType ==
    ASSUME NEW call \in Calls, NEW id \in Ids \cup {Blank}, NEW err \in Errors
    PROVE  /\ Returns(call, id, err) => ret' \in Answers
           /\ \A image \in Blob : Answer(call, id, err, image, {}) \in Answers
           /\ NoBlob \in Blob
  BY DEF Returns, Answer, Answers, NoBlob, Blob, Resolutions

\* Calling is the only thing a call does to the handle.
LEMMA CallingType == Calling => handle' \in {"closed", "open", "done"}
  BY DEF Calling

\* A file just created has the declared shape.
LEMMA InitType == Init => TypeOK
  <1> SUFFICES ASSUME Init PROVE TypeOK
    OBVIOUS
  <1>1. Unused \in Slot
    BY DEF Unused, Slot, Metadata, Zeros
  <1>2. EmptyTable \in [Slots -> Slot]
    BY <1>1 DEF EmptyTable
  <1>3. EmptyHeader \in Header
    BY MaxFilesAssumption, VersionAssumption DEF EmptyHeader, Header
  <1>4. ret \in Answers
    BY DEF Init, Answer, Answers, Calls, Errors, NoBlob, Blob, Resolutions
  <1> QED
    BY <1>2, <1>3, <1>4 DEF Init, TypeOK, Answers, Calls

\* The part of TypeOK that says where the images are, apart.
TablesTyped ==
    /\ metadata \in [Slots -> Slot] /\ header \in Header
    /\ disk_metadata \in [Slots -> Slot] /\ disk_header \in Header
    /\ data \in Seq(Blob)

\* The type invariant, in the parts a step can disturb.
LEMMA TypeSplit ==
    TypeOK <=> /\ TablesTyped
               /\ handle \in {"closed", "open", "done"}
               /\ ret \in Answers
  BY DEF TypeOK, TablesTyped, Answers, Calls

\* The parts make up the type invariant again, after a step.
LEMMA TypeJoin ==
    /\ TablesTyped'
    /\ handle' \in {"closed", "open", "done"}
    /\ ret' \in Answers
    => TypeOK'
  BY DEF TypeOK, TablesTyped, Answers, Calls

\* A step that leaves the tables alone leaves their type.
LEMMA TypeUnchanged ==
    TablesTyped /\ UNCHANGED <<memory, file>> => TablesTyped'
  BY DEF TablesTyped, memory, file

\* Closing the file leaves tables of slots.
LEMMA ForgetType ==
    TablesTyped /\ Forget => TablesTyped' /\ handle' \in {"closed", "open", "done"}
  <1> SUFFICES ASSUME TablesTyped, Forget
               PROVE  TablesTyped' /\ handle' \in {"closed", "open", "done"}
    OBVIOUS
  <1>1. Unused \in Slot
    BY DEF Unused, Slot, Metadata, Zeros
  <1>2. EmptyTable \in [Slots -> Slot]
    BY <1>1 DEF EmptyTable
  <1>3. EmptyHeader \in Header
    BY MaxFilesAssumption, VersionAssumption DEF EmptyHeader, Header
  <1> QED
    BY <1>2, <1>3 DEF Forget, TablesTyped, file

\* An insert, however it ends, leaves every table a table of slots.
LEMMA InsertType ==
    ASSUME TypeOK, NEW id \in Ids, NEW c \in Contents, Insert(id, c)
    PROVE  TypeOK'
  <1> USE TypeSplit, TypeJoin DEF TablesTyped
  <1>1. CASE InsertFull(id)
    <2>1. ret' \in Answers
      BY <1>1, AnswerType DEF InsertFull, Calls, Errors
    <2> QED
      BY <1>1, <2>1, CallingType, TypeUnchanged DEF InsertFull
  <1>2. CASE InsertDuplicate(id, c)
    <2>1. ret' \in Answers
      BY <1>2, AnswerType DEF InsertDuplicate, Calls, Errors
    <2>2. PICK i \in Slots : LeaveInMemory(i, Claimed(i, id, c))
      BY <1>2 DEF InsertDuplicate
    <2>3. Claimed(i, id, c) \in Slot
      BY ClaimedType
    <2> QED
      BY <1>2, <2>1, <2>2, <2>3, CallingType
         DEF InsertDuplicate, LeaveInMemory, file
  <1>3. CASE InsertUndecodable(id, c)
    <2>1. ret' \in Answers
      BY <1>3, AnswerType DEF InsertUndecodable, Calls, Errors
    <2>2. PICK i \in Slots : \E slot \in Deduped(i, id, c) :
            LeaveInMemory(i, slot)
      BY <1>3 DEF InsertUndecodable
    <2>3. PICK slot \in Deduped(i, id, c) :
            LeaveInMemory(i, slot)
      BY <2>2
    <2>4. slot \in Slot
      BY DedupedType
    <2> QED
      BY <1>3, <2>1, <2>3, <2>4, CallingType
         DEF InsertUndecodable, LeaveInMemory, file
  <1>4. CASE InsertShared(id, c)
    <2>1. ret' \in Answers
      BY <1>4, AnswerType DEF InsertShared, Calls, Errors
    <2>2. PICK i \in Slots : \E slot \in Deduped(i, id, c) :
            SaveSlot(i, slot)
      BY <1>4 DEF InsertShared
    <2>3. PICK slot \in Deduped(i, id, c) :
            SaveSlot(i, slot)
      BY <2>2
    <2>4. slot \in Slot
      BY DedupedType
    <2>5. header' \in Header /\ disk_header' \in Header
      <3>1. header.nb_files + 1 \in 0 .. MaxFiles
        BY <1>4, MaxFilesAssumption DEF InsertShared, Header
      <3> QED
        BY <1>4, <3>1, SaveHeaderType DEF InsertShared
    <2> QED
      BY <1>4, <2>1, <2>3, <2>4, <2>5, CallingType, SaveSlotType
         DEF InsertShared
  <1>5. CASE InsertNew(id, c)
    <2>1. ret' \in Answers
      BY <1>5, AnswerType DEF InsertNew, Calls, Errors
    <2>2. PICK i \in Slots : \E slot \in Deduped(i, id, c) :
            SaveSlot(i, Placed(slot))
      BY <1>5 DEF InsertNew
    <2>3. PICK slot \in Deduped(i, id, c) :
            SaveSlot(i, Placed(slot))
      BY <2>2
    <2>4. Placed(slot) \in Slot
      BY DedupedType, UpdateFacts
    <2>5. header' \in Header /\ disk_header' \in Header
      <3>1. header.nb_files + 1 \in 0 .. MaxFiles
        BY <1>5, MaxFilesAssumption DEF InsertNew, Header
      <3> QED
        BY <1>5, <3>1, SaveHeaderType DEF InsertNew
    <2>6. data' \in Seq(Blob)
      BY <1>5 DEF InsertNew, Blob, Resolutions
    <2> QED
      BY <1>5, <2>1, <2>3, <2>4, <2>5, <2>6, CallingType, SaveSlotType
         DEF InsertNew
  <1> QED
    BY <1>1, <1>2, <1>3, <1>4, <1>5 DEF Insert

\* A delete, however it ends, leaves every table a table of slots.
LEMMA RemoveType ==
    ASSUME TypeOK, NEW id \in Ids, Remove(id)
    PROVE  TypeOK'
  <1> USE TypeSplit, TypeJoin DEF TablesTyped
  <1>1. CASE DeleteRefused(id)
    <2>1. ret' \in Answers
      BY <1>1, AnswerType DEF DeleteRefused, Calls, Errors
    <2> QED
      BY <1>1, <2>1, CallingType, TypeUnchanged DEF DeleteRefused
  <1>2. CASE DeleteMissing(id)
    <2>1. ret' \in Answers
      BY <1>2, AnswerType DEF DeleteMissing, Calls, Errors
    <2> QED
      BY <1>2, <2>1, CallingType, TypeUnchanged DEF DeleteMissing
  <1>3. CASE Delete(id)
    <2>1. ret' \in Answers
      BY <1>3, AnswerType DEF Delete, Calls, Errors
    <2>2. PICK i \in Slots : SaveSlot(i, Emptied(metadata[i]))
      BY <1>3 DEF Delete
    <2>3. Emptied(metadata[i]) \in Slot
      <3>1. metadata[i] \in Slot
        OBVIOUS
      <3> QED
        BY <3>1, UpdateFacts
    <2>4. header' \in Header /\ disk_header' \in Header
      <3>1. header.nb_files - 1 \in 0 .. MaxFiles
        BY <1>3, MaxFilesAssumption DEF Delete, Header
      <3> QED
        BY <1>3, <3>1, SaveHeaderType DEF Delete
    <2> QED
      BY <1>3, <2>1, <2>2, <2>3, <2>4, CallingType, SaveSlotType DEF Delete
  <1> QED
    BY <1>1, <1>2, <1>3 DEF Remove

\* A thumbnail shows a content, or nothing that was ever inserted.
LEMMA RenderedType ==
    ASSUME TablesTyped, NEW i \in Slots, NEW c \in Rendered(i)
    PROVE  c \in Contents \cup {NoContent}
  <1>1. metadata[i] \in Slot
    BY DEF TablesTyped
  <1>2. CASE Exact(i, Orig)
    BY <1>1, <1>2 DEF Rendered, Slot
  <1>3. CASE ~Exact(i, Orig)
    <2>1. \A o \in DOMAIN data : data[o] \in Blob
      BY DEF TablesTyped
    <2> QED
      BY <1>3, <2>1 DEF Rendered, Blob
  <1> QED
    BY <1>2, <1>3

\* A read, a resize or a failed one leaves every table a table of slots.
LEMMA ReadType ==
    ASSUME TypeOK, NEW id \in Ids, NEW r \in Resolutions, Read(id, r)
    PROVE  TypeOK'
  <1> USE TypeSplit, TypeJoin
  <1>1. CASE ReadMissing(id)
    <2>1. ret' \in Answers
      BY <1>1, AnswerType DEF ReadMissing, Calls, Errors
    <2> QED
      BY <1>1, <2>1, CallingType, TypeUnchanged DEF ReadMissing
  <1>2. CASE ReadInvalid(id, r)
    <2>1. ret' \in Answers
      BY <1>2, AnswerType DEF ReadInvalid, Calls, Errors
    <2> QED
      BY <1>2, <2>1, CallingType, TypeUnchanged DEF ReadInvalid
  <1>3. CASE ReadStored(id, r)
    <2>1. PICK i \in Slots :
            \/ ret' = Answer("read", id, "NONE",
                        IF Exact(i, r) THEN data[metadata[i].offset[r]]
                                       ELSE NoBlob, {})
            \/ Returns("read", id, "IO")
      BY <1>3 DEF ReadStored
    <2>2. (IF Exact(i, r) THEN data[metadata[i].offset[r]] ELSE NoBlob) \in Blob
      <3>1. \A o \in DOMAIN data : data[o] \in Blob
        BY DEF TablesTyped
      <3> QED
        BY <3>1, AnswerType DEF Exact, NoBlob, Blob, Resolutions
    <2>3. ret' \in Answers
      BY <2>1, <2>2, AnswerType DEF Calls, Errors
    <2> QED
      BY <1>3, <2>3, CallingType, TypeUnchanged DEF ReadStored
  <1>4. CASE ReadResize(id, r)
    <2>1. PICK i \in Slots : \E c \in Rendered(i) :
            /\ data' = Append(data, [content |-> c, res |-> r])
            /\ SaveSlot(i, Resized(metadata[i], r))
            /\ ret' \in ReadBack(id, [content |-> c, res |-> r])
      BY <1>4 DEF ReadResize
    <2>2. PICK c \in Rendered(i) :
            /\ data' = Append(data, [content |-> c, res |-> r])
            /\ SaveSlot(i, Resized(metadata[i], r))
            /\ ret' \in ReadBack(id, [content |-> c, res |-> r])
      BY <2>1
    <2>3. [content |-> c, res |-> r] \in Blob
      BY RenderedType DEF Blob
    <2>4. data' \in Seq(Blob)
      BY <2>2, <2>3 DEF TablesTyped
    <2>5. ret' \in Answers
      BY <2>2, <2>3, AnswerType DEF ReadBack, Returns, NoBlob, Blob, Resolutions, Calls, Errors
    <2>6. Resized(metadata[i], r) \in Slot
      <3>1. metadata[i] \in Slot
        BY DEF TablesTyped
      <3> QED
        BY <3>1, ResizedFacts DEF TablesTyped
    <2>7. metadata' \in [Slots -> Slot] /\ disk_metadata' \in [Slots -> Slot]
      BY <2>2, <2>6, SaveSlotType DEF TablesTyped
    <2> QED
      BY <1>4, <2>4, <2>5, <2>7, CallingType DEF ReadResize, TablesTyped
  <1>5. CASE ReadResizeFails(id, r)
    <2>1. \/ /\ Calling
             /\ \E err \in {"IMGLIB", "IO"} : Returns("read", id, err)
             /\ UNCHANGED <<memory, file>>
          \/ Forget /\ Returns("read", id, "CRASH")
      BY <1>5 DEF ReadResizeFails
    <2>2. ret' \in Answers
      BY <2>1, AnswerType DEF Calls, Errors
    <2> QED
      BY <2>1, <2>2, CallingType, TypeUnchanged, ForgetType
  <1>6. CASE ReadNoMemory(id, r)
    <2>1. ret' \in Answers
      BY <1>6, AnswerType DEF ReadNoMemory, Calls, Errors
    <2> QED
      BY <1>6, <2>1, CallingType, TypeUnchanged DEF ReadNoMemory
  <1> QED
    BY <1>1, <1>2, <1>3, <1>4, <1>5, <1>6 DEF Read

\* A list changes nothing but the answer, which lists names.
LEMMA ListType ==
    ASSUME TypeOK, List
    PROVE  TypeOK'
  <1>1. {metadata[i].img_id : i \in Listed} \in SUBSET (Ids \cup {Blank})
    <2>1. \A i \in Slots : metadata[i].img_id \in Ids \cup {Blank}
      BY DEF TypeOK, Slot
    <2> QED
      BY <2>1 DEF Listed, Valid
  <1>2. ret' \in Answers
    BY <1>1, AnswerType DEF List, Answer, Answers, Calls, Errors
  <1> QED
    BY <1>2, TypeSplit, TypeJoin, CallingType, TypeUnchanged DEF List

\* Creating, opening and closing leave tables of slots.
LEMMA OpenCloseType ==
    ASSUME TypeOK, Create \/ Open \/ Close
    PROVE  TypeOK'
  <1> USE TypeSplit, TypeJoin
  <1>1. ret' \in Answers
    BY AnswerType DEF Create, Open, Close, Calls, Errors
  <1>2. CASE Create
    <2>1. EmptyTable \in [Slots -> Slot] /\ EmptyHeader \in Header
      BY MaxFilesAssumption, VersionAssumption
         DEF EmptyTable, EmptyHeader, Header, Unused, Slot, Metadata, Zeros
    <2> QED
      BY <1>1, <1>2, <2>1 DEF Create, TablesTyped
  <1>3. CASE Open
    BY <1>1, <1>3 DEF Open, TablesTyped, file
  <1>4. CASE Close
    BY <1>1, <1>4, ForgetType DEF Close
  <1> QED
    BY <1>2, <1>3, <1>4

\* Every step keeps the type invariant.
LEMMA NextType == TypeOK /\ [Next]_vars => TypeOK'
  <1> SUFFICES ASSUME TypeOK, [Next]_vars PROVE TypeOK'
    OBVIOUS
  <1>1. CASE UNCHANGED vars
    BY <1>1 DEF vars, TypeOK
  <1> QED
    BY <1>1, InsertType, RemoveType, ReadType, ListType, OpenCloseType DEF Next

\* Every table, header, blob and answer keeps its shape: the counters stay in
\* their ranges and nb_files never passes max_files.
THEOREM TypeCorrect == Spec => []TypeOK
  BY InitType, NextType, PTL DEF Spec

-----------------------------------------------------------------------------
(* The shapes of a step. Most of them change nothing but the answer; the    *)
(* others change one slot.                                                  *)

\* A call that changes neither the memory nor the file, or no call at all.
Quiet == UNCHANGED <<memory, file>> /\ (Calling \/ handle' = handle)

\* A refused insert that leaves its slot NON_EMPTY in memory.
Refused ==
    /\ Calling
    /\ \E id \in Ids, c \in Contents, i \in Slots, slot \in Slot :
          /\ slot \in {Claimed(i, id, c)} \cup Deduped(i, id, c)
          /\ LowestFree(i) /\ slot.is_valid /\ LeaveInMemory(i, slot)

\* Every step has one of the shapes above.
LEMMA Shapes ==
    ASSUME TypeOK, [Next]_vars
    PROVE  \/ Create \/ Open \/ Forget \/ Quiet \/ Refused
           \/ \E id \in Ids, c \in Contents : InsertShared(id, c) \/ InsertNew(id, c)
           \/ \E id \in Ids : Delete(id)
           \/ \E id \in Ids, r \in Resolutions : ReadResize(id, r)
  <1>1. CASE UNCHANGED vars
    BY <1>1 DEF vars, Quiet, memory, file
  <1>2. CASE Create \/ Open \/ Close
    BY <1>2 DEF Close
  <1>3. CASE \E id \in Ids, c \in Contents : Insert(id, c)
    <2>1. PICK id \in Ids, c \in Contents : Insert(id, c)
      BY <1>3
    <2>2. CASE InsertFull(id)
      BY <2>2 DEF InsertFull, Quiet
    <2>3. CASE InsertDuplicate(id, c)
      <3>1. PICK i \in Slots : LowestFree(i) /\ LeaveInMemory(i, Claimed(i, id, c))
        BY <2>3 DEF InsertDuplicate
      <3>2. Claimed(i, id, c) \in Slot /\ Claimed(i, id, c).is_valid
        BY ClaimedType DEF TypeOK
      <3> QED
        BY <2>3, <3>1, <3>2 DEF InsertDuplicate, Refused
    <2>4. CASE InsertUndecodable(id, c)
      <3>1. PICK i \in Slots : \E slot \in Deduped(i, id, c) :
              LowestFree(i) /\ LeaveInMemory(i, slot)
        BY <2>4 DEF InsertUndecodable
      <3>2. PICK slot \in Deduped(i, id, c) : LowestFree(i) /\ LeaveInMemory(i, slot)
        BY <3>1
      <3>3. slot \in Slot /\ slot.is_valid
        BY DedupedType DEF TypeOK
      <3> QED
        BY <2>4, <3>2, <3>3 DEF InsertUndecodable, Refused
    <2> QED
      BY <2>1, <2>2, <2>3, <2>4 DEF Insert
  <1>4. CASE \E id \in Ids : Remove(id)
    BY <1>4 DEF Remove, DeleteRefused, DeleteMissing, Quiet
  <1>5. CASE \E id \in Ids, r \in Resolutions : Read(id, r)
    BY <1>5 DEF Read, ReadMissing, ReadInvalid, ReadNoMemory, ReadStored, ReadResizeFails, Quiet
  <1>6. CASE List
    BY <1>6 DEF List, Quiet
  <1> QED
    BY <1>1, <1>2, <1>3, <1>4, <1>5, <1>6 DEF Next

\* An insert that answers ERR_NONE takes the first EMPTY slot.
LEMMA InsertFacts ==
    ASSUME TypeOK, NEW id \in Ids, NEW c \in Contents,
           InsertShared(id, c) \/ InsertNew(id, c)
    PROVE  /\ Calling
           /\ SaveHeader(header.nb_files + 1)
           /\ \E i \in Slots : \E slot \in Slot :
                 /\ LowestFree(i)
                 /\ slot.img_id = id /\ slot.SHA = c /\ slot.is_valid
                 /\ SaveSlot(i, slot)
  <1>1. CASE InsertShared(id, c)
    <2>1. PICK i \in Slots : \E slot \in Deduped(i, id, c) :
            LowestFree(i) /\ SaveSlot(i, slot)
      BY <1>1 DEF InsertShared
    <2>2. PICK slot \in Deduped(i, id, c) : LowestFree(i) /\ SaveSlot(i, slot)
      BY <2>1
    <2>3. slot \in Slot /\ slot.img_id = id /\ slot.SHA = c /\ slot.is_valid
      BY DedupedType DEF TypeOK
    <2> QED
      BY <1>1, <2>2, <2>3 DEF InsertShared
  <1>2. CASE InsertNew(id, c)
    <2>1. PICK i \in Slots : \E slot \in Deduped(i, id, c) :
            LowestFree(i) /\ SaveSlot(i, Placed(slot))
      BY <1>2 DEF InsertNew
    <2>2. PICK slot \in Deduped(i, id, c) :
            LowestFree(i) /\ SaveSlot(i, Placed(slot))
      BY <2>1
    <2>3. slot \in Slot /\ slot.img_id = id /\ slot.SHA = c /\ slot.is_valid
      BY DedupedType DEF TypeOK
    <2>4. /\ Placed(slot) \in Slot
          /\ Placed(slot).img_id = id /\ Placed(slot).SHA = c
          /\ Placed(slot).is_valid
      BY <2>3, UpdateFacts DEF TypeOK
    <2> QED
      BY <1>2, <2>2, <2>4 DEF InsertNew
  <1> QED
    BY <1>1, <1>2

\* A delete that answers ERR_NONE empties the last slot with the name.
LEMMA DeleteFacts ==
    ASSUME TypeOK, NEW id \in Ids, Delete(id)
    PROVE  /\ Calling
           /\ header.nb_files # 0
           /\ SaveHeader(header.nb_files - 1)
           /\ \E i \in Slots : \E slot \in Slot :
                 /\ LastNamed(id, i)
                 /\ metadata[i].is_valid
                 /\ slot.img_id = id /\ ~slot.is_valid
                 /\ SaveSlot(i, slot)
  <1>1. PICK i \in Slots :
          /\ LastNamed(id, i)
          /\ metadata[i].is_valid
          /\ SaveSlot(i, Emptied(metadata[i]))
    BY DEF Delete
  <1>2. metadata[i] \in Slot /\ metadata[i].img_id = id
    BY <1>1 DEF TypeOK, LastNamed, Named
  <1>3. /\ Emptied(metadata[i]) \in Slot
        /\ Emptied(metadata[i]).img_id = id
        /\ ~Emptied(metadata[i]).is_valid
    BY <1>2, UpdateFacts DEF TypeOK
  <1> QED
    BY <1>1, <1>3 DEF Delete

\* A resize changes neither the name, nor the content, nor the validity of a
\* slot.
LEMMA ResizeFacts ==
    ASSUME TypeOK, NEW id \in Ids, NEW r \in Resolutions, ReadResize(id, r)
    PROVE  /\ Calling
           /\ UNCHANGED <<header, disk_header>>
           /\ \E i \in Slots : \E slot \in Slot :
                 /\ FirstNamed(id, i)
                 /\ metadata[i].is_valid
                 /\ slot.img_id = metadata[i].img_id
                 /\ slot.SHA = metadata[i].SHA
                 /\ slot.is_valid
                 /\ SaveSlot(i, slot)
  <1>1. PICK i \in Slots :
          /\ FirstNamed(id, i)
          /\ metadata[i].is_valid
          /\ SaveSlot(i, Resized(metadata[i], r))
    BY DEF ReadResize
  <1>2. metadata[i] \in Slot
    BY DEF TypeOK
  <1>3. /\ Resized(metadata[i], r) \in Slot
        /\ Resized(metadata[i], r).img_id = metadata[i].img_id
        /\ Resized(metadata[i], r).SHA = metadata[i].SHA
        /\ Resized(metadata[i], r).is_valid = metadata[i].is_valid
    BY <1>2, ResizedFacts DEF TypeOK
  <1> QED
    BY <1>1, <1>3 DEF ReadResize

-----------------------------------------------------------------------------
(* What is in the file is in memory.                                        *)

\* Saving a slot saves it in both tables.
LEMMA SavedSlot ==
    ASSUME TypeOK, NothingUnsaved, handle # "closed",
           NEW i \in Slots, NEW slot \in Slot, SaveSlot(i, slot)
    PROVE  \A k \in Valid(disk_metadata)' : metadata'[k] = disk_metadata'[k]
  BY DEF TypeOK, NothingUnsaved, SaveSlot, Valid

\* Nothing is open at first.
LEMMA UnsavedInit == Init => NothingUnsaved
  BY DEF Init, NothingUnsaved

\* No step loses from memory what is in the file: the slot a refused insert
\* leaves was EMPTY in both.
LEMMA UnsavedStep ==
    ASSUME TypeOK, NothingUnsaved, [Next]_vars
    PROVE  NothingUnsaved'
  <1>1. CASE Create
    BY <1>1 DEF Create, NothingUnsaved
  <1>2. CASE Open
    BY <1>2 DEF Open, NothingUnsaved, file, Valid
  <1>3. CASE Forget
    BY <1>3 DEF Forget, NothingUnsaved
  <1>4. CASE Quiet
    BY <1>4 DEF Quiet, Calling, NothingUnsaved, memory, file, Valid
  <1>5. CASE Refused
    <2>1. PICK i \in Slots, slot \in Slot : LowestFree(i) /\ LeaveInMemory(i, slot)
      BY <1>5 DEF Refused
    <2>2. handle # "closed"
      BY <1>5 DEF Refused, Calling
    <2>3. i \notin Valid(disk_metadata)
      BY <2>1, <2>2 DEF NothingUnsaved, LowestFree, Valid
    <2> QED
      BY <2>1, <2>2, <2>3 DEF LeaveInMemory, file, NothingUnsaved, TypeOK, Valid
  <1>6. CASE \E id \in Ids, c \in Contents : InsertShared(id, c) \/ InsertNew(id, c)
    <2>1. PICK id \in Ids, c \in Contents : InsertShared(id, c) \/ InsertNew(id, c)
      BY <1>6
    <2>2. \E i \in Slots : \E slot \in Slot : SaveSlot(i, slot)
      BY <2>1, InsertFacts
    <2>3. disk_header' = header' /\ handle # "closed"
      BY <2>1, InsertFacts DEF SaveHeader, Calling
    <2> QED
      BY <2>2, <2>3, SavedSlot DEF NothingUnsaved
  <1>7. CASE \E id \in Ids : Delete(id)
    <2>1. PICK id \in Ids : Delete(id)
      BY <1>7
    <2>2. \E i \in Slots : \E slot \in Slot : SaveSlot(i, slot)
      BY <2>1, DeleteFacts
    <2>3. disk_header' = header' /\ handle # "closed"
      BY <2>1, DeleteFacts DEF SaveHeader, Calling
    <2> QED
      BY <2>2, <2>3, SavedSlot DEF NothingUnsaved
  <1>8. CASE \E id \in Ids, r \in Resolutions : ReadResize(id, r)
    <2>1. PICK id \in Ids, r \in Resolutions : ReadResize(id, r)
      BY <1>8
    <2>2. \E i \in Slots : \E slot \in Slot : SaveSlot(i, slot)
      BY <2>1, ResizeFacts
    <2>3. disk_header' = header' /\ handle # "closed"
      BY <2>1, ResizeFacts DEF NothingUnsaved, Calling
    <2> QED
      BY <2>2, <2>3, SavedSlot DEF NothingUnsaved
  <1> QED
    BY <1>1, <1>2, <1>3, <1>4, <1>5, <1>6, <1>7, <1>8, Shapes

\* Every image that is in the file is in memory, the same in every field, while
\* the file is open: whatever calls are refused in between, a restart of the
\* server loses no image it acknowledged.
THEOREM AcknowledgedIsSaved == Spec => []NothingUnsaved
  <1>1. TypeOK /\ NothingUnsaved /\ [Next]_vars => NothingUnsaved'
    BY UnsavedStep
  <1> QED
    BY <1>1, UnsavedInit, TypeCorrect, PTL DEF Spec

-----------------------------------------------------------------------------
(* No EMPTY slot hides a valid one of the same name. The three ways a table *)
(* changes keep that: the first EMPTY slot is taken, the last slot of a     *)
(* name is emptied, a slot keeps its name and validity.                     *)

\* Taking the first EMPTY slot hides nothing.
LEMMA TwinTake ==
    ASSUME NEW table \in [Slots -> Slot], LowerTwinValidIn(table),
           NEW i \in Slots, \A k \in Slots : k < i => table[k].is_valid,
           NEW slot \in Slot, slot.is_valid
    PROVE  LowerTwinValidIn([table EXCEPT ![i] = slot])
  BY DEF LowerTwinValidIn

\* Emptying the last slot of a name hides nothing.
LEMMA TwinEmpty ==
    ASSUME NEW table \in [Slots -> Slot], LowerTwinValidIn(table),
           NEW i \in Slots,
           \A k \in Slots : table[k].img_id = table[i].img_id => k <= i,
           NEW slot \in Slot, slot.img_id = table[i].img_id, ~slot.is_valid
    PROVE  LowerTwinValidIn([table EXCEPT ![i] = slot])
  BY DEF LowerTwinValidIn, Slots

\* A slot that keeps its name and its validity hides nothing new.
LEMMA TwinSame ==
    ASSUME NEW table \in [Slots -> Slot], LowerTwinValidIn(table),
           NEW i \in Slots, NEW slot \in Slot,
           slot.img_id = table[i].img_id, slot.is_valid = table[i].is_valid
    PROVE  LowerTwinValidIn([table EXCEPT ![i] = slot])
  BY DEF LowerTwinValidIn

\* A call of the open file keeps the property of the table in memory.
LEMMA TwinStep ==
    ASSUME TypeOK, [Next]_vars, Calling \/ handle' = handle, handle # "closed",
           LowerTwinValidIn(metadata)
    PROVE  LowerTwinValidIn(metadata')
  <1>0. metadata \in [Slots -> Slot]
    BY DEF TypeOK
  <1>1. ASSUME NEW i \in Slots, LowestFree(i) PROVE \A k \in Slots : k < i => metadata[k].is_valid
    BY <1>1 DEF LowestFree, Valid, Slots
  <1>2. CASE Create \/ Open \/ Forget
    BY <1>2 DEF Create, Open, Forget, Calling
  <1>3. CASE Quiet
    BY <1>3 DEF Quiet, memory
  <1>4. CASE Refused
    <2>1. PICK i \in Slots, slot \in Slot :
            LowestFree(i) /\ slot.is_valid /\ LeaveInMemory(i, slot)
      BY <1>4 DEF Refused
    <2> QED
      BY <2>1, <1>0, <1>1, TwinTake DEF LeaveInMemory
  <1>5. CASE \E id \in Ids, c \in Contents : InsertShared(id, c) \/ InsertNew(id, c)
    <2>1. PICK i \in Slots, slot \in Slot :
            LowestFree(i) /\ slot.is_valid /\ SaveSlot(i, slot)
      BY <1>5, InsertFacts
    <2> QED
      BY <2>1, <1>0, <1>1, TwinTake DEF SaveSlot
  <1>6. CASE \E id \in Ids : Delete(id)
    <2>1. PICK id \in Ids, i \in Slots, slot \in Slot :
            /\ LastNamed(id, i) /\ slot.img_id = id /\ ~slot.is_valid
            /\ SaveSlot(i, slot)
      BY <1>6, DeleteFacts
    <2>2. slot.img_id = metadata[i].img_id
      BY <2>1 DEF LastNamed, Named
    <2>3. \A k \in Slots : metadata[k].img_id = metadata[i].img_id => k <= i
      BY <2>1 DEF LastNamed, Named
    <2> QED
      BY <2>1, <2>2, <2>3, <1>0, TwinEmpty DEF SaveSlot
  <1>7. CASE \E id \in Ids, r \in Resolutions : ReadResize(id, r)
    <2>1. PICK i \in Slots, slot \in Slot :
            /\ metadata[i].is_valid /\ slot.is_valid
            /\ slot.img_id = metadata[i].img_id
            /\ SaveSlot(i, slot)
      BY <1>7, ResizeFacts
    <2>2. slot.is_valid = metadata[i].is_valid
      BY <2>1 DEF TypeOK, Slot
    <2> QED
      BY <2>1, <2>2, <1>0, TwinSame DEF SaveSlot
  <1> QED
    BY <1>2, <1>3, <1>4, <1>5, <1>6, <1>7, Shapes

\* No call of the open file makes an EMPTY slot hide a valid one in memory,
\* refused inserts included.
THEOREM CallsKeepTwins == Spec => TwinsKept
  <1>1. TypeOK /\ [Next]_vars =>
          [handle = "open" /\ handle' = "open" /\ LowerTwinValidIn(metadata)
             => LowerTwinValidIn(metadata')]_vars
    BY TwinStep
  <1> QED
    BY <1>1, TypeCorrect, PTL DEF Spec, TwinsKept

-----------------------------------------------------------------------------
(* Commands. A command opens the file, makes one call and closes: its call  *)
(* finds in memory what is in the file.                                     *)

Fresh == handle = "open" => metadata = disk_metadata

\* A command's memory differs from the file only after its one call.
LEMMA FreshStep ==
    ASSUME ~Resident, TypeOK, Fresh, [Next]_vars
    PROVE  Fresh'
  <1>1. CASE Calling
    BY <1>1 DEF Calling, Fresh
  <1>2. CASE Create \/ Open \/ Forget
    BY <1>2 DEF Create, Open, Forget, Fresh, file
  <1>3. CASE Quiet
    BY <1>3 DEF Quiet, Fresh, Calling, memory, file
  <1>4. (\E id \in Ids, c \in Contents : InsertShared(id, c) \/ InsertNew(id, c))
          => Calling
    BY DEF InsertShared, InsertNew
  <1>5. (\E id \in Ids : Delete(id)) => Calling
    BY DEF Delete
  <1>6. (\E id \in Ids, r \in Resolutions : ReadResize(id, r)) => Calling
    BY DEF ReadResize
  <1> QED
    BY <1>1, <1>2, <1>3, <1>4, <1>5, <1>6, Shapes DEF Refused

\* No command makes an EMPTY slot of the file hide a valid one.
LEMMA TwinCommand ==
    ASSUME TypeOK, Fresh, LowerTwinValid, [Next]_vars
    PROVE  LowerTwinValid'
  <1>1. CASE Create
    BY <1>1 DEF Create, LowerTwinValid, LowerTwinValidIn, EmptyTable, Unused,
                Metadata
  <1>2. CASE UNCHANGED file
    BY <1>2 DEF file, LowerTwinValid
  <1>3. ASSUME Calling, NEW i \in Slots, NEW slot \in Slot, SaveSlot(i, slot)
        PROVE  LowerTwinValid'
    <2>1. metadata = disk_metadata /\ handle # "closed"
      BY <1>3 DEF Fresh, Calling
    <2>2. metadata' = disk_metadata'
      BY <1>3, <2>1 DEF SaveSlot
    <2>3. LowerTwinValidIn(metadata')
      BY <1>3, <2>1, TwinStep DEF LowerTwinValid
    <2> QED
      BY <2>2, <2>3 DEF LowerTwinValid
  <1>4. (\E id \in Ids, c \in Contents : InsertShared(id, c) \/ InsertNew(id, c))
          => \E i \in Slots, slot \in Slot : Calling /\ SaveSlot(i, slot)
    BY InsertFacts
  <1>5. (\E id \in Ids : Delete(id))
          => \E i \in Slots, slot \in Slot : Calling /\ SaveSlot(i, slot)
    BY DeleteFacts
  <1>6. (\E id \in Ids, r \in Resolutions : ReadResize(id, r))
          => \E i \in Slots, slot \in Slot : Calling /\ SaveSlot(i, slot)
    BY ResizeFacts
  <1>7. Open \/ Forget \/ Quiet \/ Refused => UNCHANGED file
    BY DEF Open, Forget, Quiet, Refused, LeaveInMemory, file
  <1> QED
    BY <1>1, <1>2, <1>3, <1>4, <1>5, <1>6, <1>7, Shapes

\* Between commands, no EMPTY slot of the file hides a valid one of the same
\* name from do_read: a stored name always reads as an image stored under it.
THEOREM StoredIsFound ==
    ASSUME ~Resident
    PROVE  Spec => []LowerTwinValid
  <1>1. Init => Fresh /\ LowerTwinValid
    BY DEF Init, Fresh, LowerTwinValid, LowerTwinValidIn, EmptyTable, Unused,
           Metadata
  <1>2. TypeOK /\ Fresh /\ [Next]_vars => Fresh'
    BY FreshStep
  <1>3. TypeOK /\ Fresh /\ LowerTwinValid /\ [Next]_vars => LowerTwinValid'
    BY TwinCommand
  <1> QED
    BY <1>1, <1>2, <1>3, TypeCorrect, PTL DEF Spec

-----------------------------------------------------------------------------
(* nb_files and the slots it counts.                                        *)

\* The valid slots of a table are finitely many.
LEMMA ValidFinite ==
    ASSUME NEW table
    PROVE  IsFiniteSet(Valid(table)) /\ Cardinality(Valid(table)) \in Nat
  <1>1. IsFiniteSet(Slots)
    BY MaxFilesAssumption, FS_Interval DEF Slots
  <1>2. IsFiniteSet(Valid(table))
    BY <1>1, FS_Subset DEF Valid
  <1> QED
    BY <1>2, FS_CardinalityType

\* A table of EMPTY slots counts none.
LEMMA CountNone == Valid(EmptyTable) = {} /\ Cardinality(Valid(EmptyTable)) = 0
  <1>1. Valid(EmptyTable) = {}
    BY DEF Valid, EmptyTable, Unused, Metadata
  <1> QED
    BY <1>1, FS_EmptySet

\* A slot that becomes NON_EMPTY counts for one, unless it was already.
LEMMA CountTake ==
    ASSUME NEW table \in [Slots -> Slot], NEW i \in Slots,
           NEW slot \in Slot, slot.is_valid
    PROVE  Cardinality(Valid([table EXCEPT ![i] = slot])) =
             IF i \in Valid(table) THEN Cardinality(Valid(table))
             ELSE Cardinality(Valid(table)) + 1
  <1>1. Valid([table EXCEPT ![i] = slot]) = Valid(table) \cup {i}
    BY DEF Valid
  <1> QED
    BY <1>1, ValidFinite, FS_AddElement

\* A slot that becomes EMPTY counts for one less, unless it was already.
LEMMA CountEmpty ==
    ASSUME NEW table \in [Slots -> Slot], NEW i \in Slots,
           NEW slot \in Slot, ~slot.is_valid
    PROVE  Cardinality(Valid([table EXCEPT ![i] = slot])) =
             IF i \in Valid(table) THEN Cardinality(Valid(table)) - 1
             ELSE Cardinality(Valid(table))
  <1>1. Valid([table EXCEPT ![i] = slot]) = Valid(table) \ {i}
    BY DEF Valid
  <1> QED
    BY <1>1, ValidFinite, FS_RemoveElement

\* One slot changes the count by one at most, and in its own direction.
LEMMA CountMoves ==
    ASSUME NEW table \in [Slots -> Slot], NEW i \in Slots, NEW slot \in Slot
    PROVE  /\ slot.is_valid => Cardinality(Valid([table EXCEPT ![i] = slot]))
                                 >= Cardinality(Valid(table))
           /\ ~slot.is_valid => Cardinality(Valid([table EXCEPT ![i] = slot]))
                                 >= Cardinality(Valid(table)) - 1
  <1>1. Cardinality(Valid(table)) \in Nat
    BY ValidFinite
  <1>2. CASE slot.is_valid
    <2>1. \/ Cardinality(Valid([table EXCEPT ![i] = slot])) = Cardinality(Valid(table))
          \/ Cardinality(Valid([table EXCEPT ![i] = slot])) =
               Cardinality(Valid(table)) + 1
      BY <1>2, CountTake
    <2> QED
      BY <1>1, <1>2, <2>1
  <1>3. CASE ~slot.is_valid
    <2>1. \/ Cardinality(Valid([table EXCEPT ![i] = slot])) = Cardinality(Valid(table))
          \/ Cardinality(Valid([table EXCEPT ![i] = slot])) =
               Cardinality(Valid(table)) - 1
      BY <1>3, CountEmpty
    <2> QED
      BY <1>1, <1>3, <2>1
  <1> QED
    BY <1>2, <1>3

\* No image is counted at first.
LEMMA BoundedInit == Init => CountBounded
  BY CountNone DEF Init, CountBounded, EmptyHeader

\* No step counts an image that has no valid slot, in memory or in the file:
\* a refused insert only adds valid slots.
LEMMA BoundedStep ==
    ASSUME TypeOK, NothingUnsaved, CountBounded, [Next]_vars
    PROVE  CountBounded'
  <1> USE DEF TypeOK, Header
  <1>0. /\ Cardinality(Valid(metadata)) \in Nat
        /\ Cardinality(Valid(disk_metadata)) \in Nat
        /\ Cardinality(Valid(metadata')) \in Nat
        /\ Cardinality(Valid(disk_metadata')) \in Nat
        /\ header.nb_files \in Nat /\ disk_header.nb_files \in Nat
    BY ValidFinite, MaxFilesAssumption
  <1>1. CASE Create
    BY <1>1, CountNone DEF Create, CountBounded, EmptyHeader
  <1>2. CASE Open
    BY <1>2 DEF Open, CountBounded, file
  <1>3. CASE Forget
    BY <1>3, CountNone DEF Forget, CountBounded, EmptyHeader, file
  <1>4. CASE Quiet
    BY <1>4 DEF Quiet, CountBounded, memory, file
  <1>5. CASE Refused
    <2>1. PICK i \in Slots, slot \in Slot : slot.is_valid /\ LeaveInMemory(i, slot)
      BY <1>5 DEF Refused
    <2>2. Cardinality(Valid(metadata')) >= Cardinality(Valid(metadata))
      BY <2>1, CountMoves DEF LeaveInMemory
    <2> QED
      BY <1>0, <2>1, <2>2 DEF LeaveInMemory, CountBounded, file
  <1>6. CASE \E id \in Ids, c \in Contents : InsertShared(id, c) \/ InsertNew(id, c)
    <2>1. PICK i \in Slots, slot \in Slot :
            LowestFree(i) /\ slot.is_valid /\ SaveSlot(i, slot)
      BY <1>6, InsertFacts
    <2>2. SaveHeader(header.nb_files + 1) /\ handle # "closed"
      BY <1>6, InsertFacts DEF Calling
    <2>3. i \notin Valid(metadata) /\ i \notin Valid(disk_metadata)
      BY <2>1, <2>2 DEF LowestFree, NothingUnsaved, Valid
    <2>4. /\ Cardinality(Valid(metadata')) = Cardinality(Valid(metadata)) + 1
          /\ Cardinality(Valid(disk_metadata')) = Cardinality(Valid(disk_metadata)) + 1
      BY <2>1, <2>3, CountTake DEF SaveSlot
    <2>5. /\ header'.nb_files = header.nb_files + 1
          /\ disk_header'.nb_files = disk_header.nb_files + 1
      BY <2>2 DEF SaveHeader, NothingUnsaved
    <2> QED
      BY <1>0, <2>4, <2>5 DEF CountBounded
  <1>7. CASE \E id \in Ids : Delete(id)
    <2>1. PICK i \in Slots, slot \in Slot :
            metadata[i].is_valid /\ ~slot.is_valid /\ SaveSlot(i, slot)
      BY <1>7, DeleteFacts
    <2>2. SaveHeader(header.nb_files - 1) /\ handle # "closed"
      BY <1>7, DeleteFacts DEF Calling
    <2>3. /\ Cardinality(Valid(metadata')) >= Cardinality(Valid(metadata)) - 1
          /\ Cardinality(Valid(disk_metadata')) >= Cardinality(Valid(disk_metadata)) - 1
      BY <2>1, CountMoves DEF SaveSlot
    <2>4. /\ header'.nb_files = header.nb_files - 1
          /\ disk_header'.nb_files = disk_header.nb_files - 1
      BY <2>2 DEF SaveHeader, NothingUnsaved
    <2> QED
      BY <1>0, <2>3, <2>4 DEF CountBounded
  <1>8. CASE \E id \in Ids, r \in Resolutions : ReadResize(id, r)
    <2>1. PICK i \in Slots, slot \in Slot : slot.is_valid /\ SaveSlot(i, slot)
      BY <1>8, ResizeFacts
    <2>2. UNCHANGED <<header, disk_header>>
      BY <1>8, ResizeFacts
    <2>3. /\ Cardinality(Valid(metadata')) >= Cardinality(Valid(metadata))
          /\ Cardinality(Valid(disk_metadata')) >= Cardinality(Valid(disk_metadata))
      BY <2>1, CountMoves DEF SaveSlot
    <2> QED
      BY <1>0, <2>2, <2>3 DEF CountBounded
  <1> QED
    BY <1>1, <1>2, <1>3, <1>4, <1>5, <1>6, <1>7, <1>8, Shapes

\* nb_files never exceeds the NON_EMPTY slots, in memory or in the file, with
\* any number of refused inserts, deletions and restarts in between.
THEOREM CountStaysBounded == Spec => []CountBounded
  <1>1. TypeOK /\ NothingUnsaved /\ CountBounded /\ [Next]_vars => CountBounded'
    BY BoundedStep
  <1> QED
    BY <1>1, BoundedInit, TypeCorrect, AcknowledgedIsSaved, PTL DEF Spec

\* A command counts exactly the slot it takes or empties.
LEMMA ExactStep ==
    ASSUME TypeOK, NothingUnsaved, Fresh, CountExact, [Next]_vars
    PROVE  CountExact'
  <1> USE DEF TypeOK, Header
  <1>0. Cardinality(Valid(disk_metadata)) \in Nat /\ disk_header.nb_files \in Nat
    BY ValidFinite, MaxFilesAssumption
  <1>1. CASE Create
    BY <1>1, CountNone DEF Create, CountExact, EmptyHeader
  <1>2. CASE UNCHANGED file
    BY <1>2 DEF file, CountExact
  <1>3. Open \/ Forget \/ Quiet \/ Refused => UNCHANGED file
    BY DEF Open, Forget, Quiet, Refused, LeaveInMemory, file
  <1>4. CASE \E id \in Ids, c \in Contents : InsertShared(id, c) \/ InsertNew(id, c)
    <2>1. PICK i \in Slots, slot \in Slot :
            LowestFree(i) /\ slot.is_valid /\ SaveSlot(i, slot)
      BY <1>4, InsertFacts
    <2>2. /\ SaveHeader(header.nb_files + 1) /\ header = disk_header
          /\ metadata = disk_metadata
      BY <1>4, InsertFacts DEF Calling, NothingUnsaved, Fresh
    <2>3. i \notin Valid(disk_metadata)
      BY <2>1, <2>2 DEF LowestFree
    <2>4. Cardinality(Valid(disk_metadata')) = Cardinality(Valid(disk_metadata)) + 1
      BY <2>1, <2>3, CountTake DEF SaveSlot
    <2> QED
      BY <2>2, <2>4 DEF SaveHeader, CountExact
  <1>5. CASE \E id \in Ids : Delete(id)
    <2>1. PICK i \in Slots, slot \in Slot :
            metadata[i].is_valid /\ ~slot.is_valid /\ SaveSlot(i, slot)
      BY <1>5, DeleteFacts
    <2>2. /\ SaveHeader(header.nb_files - 1) /\ header = disk_header
          /\ metadata = disk_metadata
      BY <1>5, DeleteFacts DEF Calling, NothingUnsaved, Fresh
    <2>3. i \in Valid(disk_metadata)
      BY <2>1, <2>2 DEF Valid
    <2>4. Cardinality(Valid(disk_metadata')) = Cardinality(Valid(disk_metadata)) - 1
      BY <2>1, <2>3, CountEmpty DEF SaveSlot
    <2> QED
      BY <2>2, <2>4 DEF SaveHeader, CountExact
  <1>6. CASE \E id \in Ids, r \in Resolutions : ReadResize(id, r)
    <2>1. PICK i \in Slots, slot \in Slot :
            metadata[i].is_valid /\ slot.is_valid /\ SaveSlot(i, slot)
      BY <1>6, ResizeFacts
    <2>2. UNCHANGED disk_header /\ metadata = disk_metadata
      BY <1>6, ResizeFacts DEF Calling, Fresh
    <2>3. i \in Valid(disk_metadata)
      BY <2>1, <2>2 DEF Valid
    <2>4. Cardinality(Valid(disk_metadata')) = Cardinality(Valid(disk_metadata))
      BY <2>1, <2>3, CountTake DEF SaveSlot
    <2> QED
      BY <2>2, <2>4 DEF CountExact
  <1> QED
    BY <1>1, <1>2, <1>3, <1>4, <1>5, <1>6, Shapes

\* nb_files in the file is the number of images in the file, whatever commands
\* have run and whichever of them were refused.
THEOREM CountIsExact ==
    ASSUME ~Resident
    PROVE  Spec => []CountExact
  <1>1. Init => Fresh /\ CountExact
    <2>1. Init => Fresh
      BY DEF Init, Fresh
    <2>2. ASSUME Init PROVE CountExact
      <3>1. disk_header.nb_files = 0
        BY <2>2 DEF Init, EmptyHeader
      <3>2. Cardinality(Valid(disk_metadata)) = 0
        BY <2>2, CountNone DEF Init
      <3> QED
        BY <3>1, <3>2 DEF CountExact
    <2> QED
      BY <2>1, <2>2
  <1>2. TypeOK /\ Fresh /\ [Next]_vars => Fresh'
    BY FreshStep
  <1>3. TypeOK /\ NothingUnsaved /\ Fresh /\ CountExact /\ [Next]_vars
          => CountExact'
    BY ExactStep
  <1> QED
    BY <1>1, <1>2, <1>3, TypeCorrect, AcknowledgedIsSaved, PTL DEF Spec

-----------------------------------------------------------------------------
(* Content: which blob a slot points to.                                    *)

\* An insert that shares takes place and sizes from a valid slot of the same
\* content.
LEMMA SharedFrom ==
    ASSUME TypeOK, NEW id \in Ids, NEW c \in Contents, InsertShared(id, c)
    PROVE  \E i \in Slots : \E j \in Valid(metadata) : \E slot \in Slot :
              /\ LowestFree(i)
              /\ metadata[j].SHA = c
              /\ slot.SHA = c
              /\ slot.offset = metadata[j].offset /\ slot.size = metadata[j].size
              /\ SaveSlot(i, slot)
  <1>1. PICK i \in Slots : \E slot \in Deduped(i, id, c) :
          LowestFree(i) /\ slot.offset[Orig] # 0 /\ SaveSlot(i, slot)
    BY DEF InsertShared
  <1>2. PICK slot \in Deduped(i, id, c) :
          LowestFree(i) /\ slot.offset[Orig] # 0 /\ SaveSlot(i, slot)
    BY <1>1
  <1>3. Claimed(i, id, c) \in Slot /\ Claimed(i, id, c).SHA = c
    BY ClaimedType DEF TypeOK
  <1>4. slot # Unplaced(Claimed(i, id, c))
    BY <1>2, <1>3, UpdateFacts DEF TypeOK
  <1>5. PICK j \in Slots :
          /\ FirstRival(i, id, c, j) /\ metadata[j].img_id # id
          /\ slot = Shared(Claimed(i, id, c), metadata[j])
    BY <1>4 DEF Deduped
  <1>6. j \in Valid(metadata) /\ metadata[j].SHA = c /\ metadata[j] \in Slot
    BY <1>5 DEF FirstRival, Rivals, TypeOK
  <1>7. /\ slot \in Slot /\ slot.SHA = c
        /\ slot.offset = metadata[j].offset /\ slot.size = metadata[j].size
    BY <1>3, <1>5, <1>6, SharedFacts
  <1> QED
    BY <1>2, <1>6, <1>7

\* An insert that appends does so for a content no valid slot has, as long as
\* every valid slot has a place.
LEMMA NewFrom ==
    ASSUME TypeOK, NEW id \in Ids, NEW c \in Contents, InsertNew(id, c),
           \A k \in Valid(metadata) : metadata[k].offset[Orig] # 0
    PROVE  \E i \in Slots : \E slot \in Slot :
              /\ LowestFree(i)
              /\ \A k \in Valid(metadata) : metadata[k].SHA # c
              /\ slot.SHA = c /\ slot.size = OnlyOrig(1)
              /\ slot.offset[Orig] = Len(data) + 1
              /\ SaveSlot(i, slot)
  <1>1. PICK i \in Slots : \E old \in Deduped(i, id, c) :
          LowestFree(i) /\ old.offset[Orig] = 0 /\ SaveSlot(i, Placed(old))
    BY DEF InsertNew
  <1>2. PICK old \in Deduped(i, id, c) :
          LowestFree(i) /\ old.offset[Orig] = 0 /\ SaveSlot(i, Placed(old))
    BY <1>1
  <1>3. /\ Claimed(i, id, c) \in Slot /\ Claimed(i, id, c).SHA = c
        /\ Claimed(i, id, c).size = OnlyOrig(1)
    BY ClaimedType DEF TypeOK
  <1>4. ASSUME NEW j \in Slots, FirstRival(i, id, c, j),
               old = Shared(Claimed(i, id, c), metadata[j])
        PROVE  FALSE
    <2>1. j \in Valid(metadata) /\ metadata[j] \in Slot
      BY <1>4 DEF FirstRival, Rivals, TypeOK
    <2>2. old.offset = metadata[j].offset
      BY <1>3, <1>4, <2>1, SharedFacts
    <2> QED
      BY <1>2, <2>1, <2>2
  <1>5. old = Unplaced(Claimed(i, id, c)) /\ Rivals(i, id, c) = {}
    BY <1>4 DEF Deduped
  <1>6. \A k \in Valid(metadata) : metadata[k].SHA # c
    BY <1>2, <1>5 DEF Rivals, LowestFree
  <1>7. old \in Slot /\ old.SHA = c /\ old.size = OnlyOrig(1)
    BY <1>3, <1>5, UpdateFacts DEF TypeOK
  <1>8. /\ Placed(old) \in Slot /\ Placed(old).SHA = c
        /\ Placed(old).size = OnlyOrig(1)
        /\ Placed(old).offset[Orig] = Len(data) + 1
    BY <1>7, UpdateFacts DEF TypeOK
  <1> QED
    BY <1>2, <1>6, <1>8

\* The file only grows: what a slot pointed to, it still points to.
LEMMA WholeKept ==
    ASSUME TypeOK, NEW blob \in Blob,
           data' = data \/ data' = Append(data, blob),
           NEW k \in Slots, Whole(disk_metadata, k),
           disk_metadata'[k] = disk_metadata[k]
    PROVE  Whole(disk_metadata, k)'
  <1>1. \A o \in DOMAIN data : o \in DOMAIN data' /\ data'[o] = data[o]
    BY DEF TypeOK, Blob
  <1> QED
    BY <1>1 DEF Whole

\* The original of a whole slot is in the file.
LEMMA WholePlaced ==
    ASSUME TypeOK, NEW k \in Slots, Whole(disk_metadata, k)
    PROVE  /\ disk_metadata[k].offset[Orig] \in DOMAIN data
           /\ disk_metadata[k].offset[Orig] # 0
           /\ data[disk_metadata[k].offset[Orig]] =
                [content |-> disk_metadata[k].SHA, res |-> Orig]
  <1>1. Orig \in Resolutions
    BY DEF Resolutions
  <1>2. /\ disk_metadata[k].offset[Orig] \in DOMAIN data
        /\ data[disk_metadata[k].offset[Orig]] =
             [content |-> disk_metadata[k].SHA, res |-> Orig]
    BY <1>1 DEF Whole
  <1>3. 0 \notin DOMAIN data
    BY DEF TypeOK
  <1> QED
    BY <1>2, <1>3

ContentSound == SoundContent /\ SharedOriginal

\* An insert keeps every image whole and every original shared: the new slot
\* takes the place of a whole slot of its content, or the place appended.
LEMMA ContentInsert ==
    ASSUME TypeOK, Fresh, ContentSound,
           NEW id \in Ids, NEW c \in Contents,
           InsertShared(id, c) \/ InsertNew(id, c)
    PROVE  ContentSound'
  <1> USE DEF ContentSound
  <1>0. /\ metadata = disk_metadata
        /\ disk_metadata \in [Slots -> Slot] /\ data \in Seq(Blob)
        /\ Valid(disk_metadata) \subseteq Slots
        /\ Orig \in Resolutions
    BY DEF InsertShared, InsertNew, Calling, Fresh, TypeOK, Valid, Resolutions
  <1>1. CASE InsertShared(id, c)
    <2>1. PICK i \in Slots, j \in Valid(metadata), slot \in Slot :
            /\ LowestFree(i)
            /\ metadata[j].SHA = c
            /\ slot.SHA = c
            /\ slot.offset = metadata[j].offset /\ slot.size = metadata[j].size
            /\ SaveSlot(i, slot)
      BY <1>1, SharedFrom
    <2>2. data' = data
      BY <1>1 DEF InsertShared
    <2>3. disk_metadata' = [disk_metadata EXCEPT ![i] = slot]
      BY <2>1 DEF SaveSlot
    <2>4. /\ disk_metadata'[i] = slot
          /\ \A k \in Slots \ {i} : disk_metadata'[k] = disk_metadata[k]
      BY <1>0, <2>3
    <2>5. \A k \in Valid(disk_metadata)' : k = i \/ k \in Valid(disk_metadata)
      BY <2>4 DEF Valid
    <2>6. j \in Valid(disk_metadata) /\ disk_metadata[j].SHA = c
      BY <1>0, <2>1
    <2>7. Whole(disk_metadata, i)'
      <3>1. Whole(disk_metadata, j)
        BY <2>6 DEF SoundContent
      <3> QED
        BY <1>0, <2>1, <2>2, <2>4, <2>6, <3>1 DEF Whole
    <2>8. SoundContent'
      <3>1. ASSUME NEW k \in Valid(disk_metadata), k # i
            PROVE  Whole(disk_metadata, k)'
        <4>1. Whole(disk_metadata, k) /\ disk_metadata'[k] = disk_metadata[k]
          BY <1>0, <2>4, <3>1 DEF SoundContent
        <4> QED
          BY <1>0, <2>2, <4>1 DEF Whole
      <3> QED
        BY <2>5, <2>7, <3>1 DEF SoundContent
    <2>9. SharedOriginal'
      BY <1>0, <2>1, <2>4, <2>5, <2>6 DEF SharedOriginal
    <2> QED
      BY <2>8, <2>9
  <1>2. CASE InsertNew(id, c)
    <2>0. \A k \in Valid(metadata) : metadata[k].offset[Orig] # 0
      BY <1>0, WholePlaced DEF SoundContent
    <2>1. PICK i \in Slots, slot \in Slot :
            /\ LowestFree(i)
            /\ \A k \in Valid(metadata) : metadata[k].SHA # c
            /\ slot.SHA = c /\ slot.size = OnlyOrig(1)
            /\ slot.offset[Orig] = Len(data) + 1
            /\ SaveSlot(i, slot)
      BY <1>2, <2>0, NewFrom
    <2>2. /\ data' = Append(data, [content |-> c, res |-> Orig])
          /\ [content |-> c, res |-> Orig] \in Blob
      BY <1>2 DEF InsertNew, Blob, Resolutions
    <2>3. disk_metadata' = [disk_metadata EXCEPT ![i] = slot]
      BY <2>1 DEF SaveSlot
    <2>4. /\ disk_metadata'[i] = slot
          /\ \A k \in Slots \ {i} : disk_metadata'[k] = disk_metadata[k]
      BY <1>0, <2>3
    <2>5. \A k \in Valid(disk_metadata)' : k = i \/ k \in Valid(disk_metadata)
      BY <2>4 DEF Valid
    <2>6. Whole(disk_metadata, i)'
      <3>1. /\ Len(data) + 1 \in DOMAIN data'
            /\ data'[Len(data) + 1] = [content |-> c, res |-> Orig]
        BY <1>0, <2>2
      <3>2. \A r \in Resolutions : slot.size[r] # 0 => r = Orig
        BY <2>1 DEF OnlyOrig
      <3>3. slot.size[Orig] # 0
        BY <1>0, <2>1 DEF OnlyOrig
      <3> QED
        BY <2>1, <2>4, <3>1, <3>2, <3>3 DEF Whole
    <2>7. SoundContent'
      <3>1. ASSUME NEW k \in Valid(disk_metadata), k # i
            PROVE  Whole(disk_metadata, k)'
        <4>1. Whole(disk_metadata, k) /\ disk_metadata'[k] = disk_metadata[k]
          BY <1>0, <2>4, <3>1 DEF SoundContent
        <4> QED
          BY <1>0, <2>2, <4>1, WholeKept
      <3> QED
        BY <2>5, <2>6, <3>1 DEF SoundContent
    <2>8. SharedOriginal'
      BY <1>0, <2>1, <2>4, <2>5 DEF SharedOriginal
    <2> QED
      BY <2>7, <2>8
  <1> QED
    BY <1>1, <1>2

\* A resize keeps every image whole: it appends a thumbnail of the original
\* its own slot points to.
LEMMA ContentResize ==
    ASSUME TypeOK, Fresh, ContentSound,
           NEW id \in Ids, NEW r \in Resolutions, ReadResize(id, r)
    PROVE  ContentSound'
  <1> USE DEF ContentSound
  <1>0. /\ metadata = disk_metadata
        /\ disk_metadata \in [Slots -> Slot] /\ data \in Seq(Blob)
        /\ Valid(disk_metadata) \subseteq Slots
        /\ Orig \in Resolutions
    BY DEF ReadResize, Calling, Fresh, TypeOK, Valid, Resolutions
  <1>1. PICK i \in Slots : \E c \in Rendered(i) :
          /\ ToResize(i, r)
          /\ metadata[i].is_valid
          /\ data' = Append(data, [content |-> c, res |-> r])
          /\ SaveSlot(i, Resized(metadata[i], r))
    BY DEF ReadResize
  <1>2. PICK c \in Rendered(i) :
          /\ data' = Append(data, [content |-> c, res |-> r])
          /\ SaveSlot(i, Resized(metadata[i], r))
    BY <1>1
  <1>3. i \in Valid(disk_metadata) /\ Whole(disk_metadata, i)
    BY <1>0, <1>1 DEF Valid, SoundContent
  <1>4. c = disk_metadata[i].SHA
    BY <1>0, <1>2, <1>3, WholePlaced DEF Rendered, Exact
  <1>5. [content |-> c, res |-> r] \in Blob
    BY <1>2, RenderedType DEF Blob, TablesTyped, TypeOK
  <1>6. DEFINE slot == Resized(disk_metadata[i], r)
  <1>7. /\ slot.SHA = disk_metadata[i].SHA
        /\ slot.is_valid = disk_metadata[i].is_valid
        /\ slot.offset[r] = Len(data) + 1
        /\ \A q \in Resolutions \ {r} :
              /\ slot.offset[q] = disk_metadata[i].offset[q]
              /\ slot.size[q] = disk_metadata[i].size[q]
    <2>1. disk_metadata[i] \in Slot
      BY <1>0
    <2> QED
      BY <1>0, <2>1, ResizedFacts
  <1>8. /\ disk_metadata'[i] = slot
        /\ \A k \in Slots \ {i} : disk_metadata'[k] = disk_metadata[k]
    BY <1>0, <1>2 DEF SaveSlot
  <1> HIDE DEF slot
  <1>9. \A k \in Valid(disk_metadata)' : k \in Valid(disk_metadata)
    BY <1>3, <1>8 DEF Valid
  <1>10. r # Orig
    BY <1>1 DEF ToResize
  <1>11. Whole(disk_metadata, i)'
    <2>1. \A o \in DOMAIN data : o \in DOMAIN data' /\ data'[o] = data[o]
      BY <1>0, <1>2, <1>5
    <2>2. /\ Len(data) + 1 \in DOMAIN data'
          /\ data'[Len(data) + 1] = [content |-> c, res |-> r]
      BY <1>0, <1>2, <1>5
    <2>3. ASSUME NEW q \in Resolutions, slot.size[q] # 0
          PROVE  /\ slot.offset[q] \in DOMAIN data'
                 /\ data'[slot.offset[q]] = [content |-> slot.SHA, res |-> q]
      <3>1. CASE q = r
        BY <1>4, <1>7, <2>2, <3>1
      <3>2. CASE q # r
        BY <1>3, <1>7, <2>1, <2>3, <3>2 DEF Whole
      <3> QED
        BY <3>1, <3>2
    <2>4. slot.size[Orig] # 0
      BY <1>0, <1>3, <1>7, <1>10 DEF Whole
    <2> QED
      BY <1>8, <2>3, <2>4 DEF Whole
  <1>12. SoundContent'
    <2>1. ASSUME NEW k \in Valid(disk_metadata), k # i
          PROVE  Whole(disk_metadata, k)'
      <3>1. Whole(disk_metadata, k) /\ disk_metadata'[k] = disk_metadata[k]
        BY <1>0, <1>8, <2>1 DEF SoundContent
      <3> QED
        BY <1>0, <1>2, <1>5, <3>1, WholeKept
    <2> QED
      BY <1>9, <1>11, <2>1 DEF SoundContent
  <1>13. SharedOriginal'
    <2>1. slot.offset[Orig] = disk_metadata[i].offset[Orig]
      BY <1>0, <1>7, <1>10
    <2> QED
      BY <1>0, <1>7, <1>8, <1>9, <2>1 DEF SharedOriginal
  <1> QED
    BY <1>12, <1>13

\* Every step of a command keeps images whole and originals shared.
LEMMA ContentStep ==
    ASSUME TypeOK, Fresh, ContentSound, [Next]_vars
    PROVE  ContentSound'
  <1>1. CASE Create
    BY <1>1 DEF Create, ContentSound, SoundContent, SharedOriginal, Valid,
                EmptyTable, Unused, Metadata
  <1>2. CASE UNCHANGED file
    BY <1>2 DEF file, ContentSound, SoundContent, SharedOriginal, Valid, Whole
  <1>3. Open \/ Forget \/ Quiet \/ Refused => UNCHANGED file
    BY DEF Open, Forget, Quiet, Refused, LeaveInMemory, file
  <1>4. CASE \E id \in Ids : Delete(id)
    <2>1. PICK i \in Slots, slot \in Slot : ~slot.is_valid /\ SaveSlot(i, slot)
      BY <1>4, DeleteFacts
    <2>2. data' = data
      BY <1>4 DEF Delete
    <2>3. \A k \in Valid(disk_metadata)' :
             k \in Valid(disk_metadata) /\ disk_metadata'[k] = disk_metadata[k]
      BY <2>1 DEF Valid, SaveSlot, TypeOK
    <2> QED
      BY <2>2, <2>3 DEF ContentSound, SoundContent, SharedOriginal, Whole
  <1> QED
    BY <1>1, <1>2, <1>3, <1>4, ContentInsert, ContentResize, Shapes

\* What commands keep of the contents.
LEMMA ContentInvariant ==
    ASSUME ~Resident
    PROVE  Spec => []ContentSound
  <1>1. Init => Fresh /\ ContentSound
    BY DEF Init, Fresh, ContentSound, SoundContent, SharedOriginal, Valid,
           EmptyTable, Unused, Metadata
  <1>2. TypeOK /\ Fresh /\ [Next]_vars => Fresh'
    BY FreshStep
  <1>3. TypeOK /\ Fresh /\ ContentSound /\ [Next]_vars => ContentSound'
    BY ContentStep
  <1> QED
    BY <1>1, <1>2, <1>3, TypeCorrect, PTL DEF Spec

\* Commands keep every image its own: where a valid slot points lies the
\* original with the slot's SHA and, for each size that is not zero, a derived
\* image of it, whatever was inserted, shared, deleted, reused or resized.
THEOREM ContentIsSound ==
    ASSUME ~Resident
    PROVE  Spec => []SoundContent
  BY ContentInvariant, PTL DEF ContentSound

\* Commands never store the original of one content twice.
THEOREM OriginalsAreShared ==
    ASSUME ~Resident
    PROVE  Spec => []SharedOriginal
  BY ContentInvariant, PTL DEF ContentSound

-----------------------------------------------------------------------------
(* What a call may not do to images of other names.                         *)

\* A call touches no image that is in the file under another name than its own.
THEOREM OthersUntouched == Spec => Isolation
  <1>1. ASSUME TypeOK, NothingUnsaved, [Next]_vars,
               NEW i \in Valid(disk_metadata),
               disk_metadata'[i] # disk_metadata[i]
        PROVE  ret'.call = "create" \/ ret'.id = disk_metadata[i].img_id
    <2>0. i \in Slots /\ disk_metadata[i].is_valid
      BY DEF Valid
    <2>1. handle # "closed" => metadata[i] = disk_metadata[i]
      BY <1>1 DEF NothingUnsaved
    <2>2. CASE Create
      BY <2>2 DEF Create, Returns, Answer
    <2>3. ~(Open \/ Forget \/ Quiet \/ Refused)
      BY <1>1 DEF Open, Forget, Quiet, Refused, LeaveInMemory, file
    <2>4. CASE \E id \in Ids, c \in Contents : InsertShared(id, c) \/ InsertNew(id, c)
      <3>1. PICK k \in Slots, slot \in Slot : LowestFree(k) /\ SaveSlot(k, slot)
        BY <1>1, <2>4, InsertFacts
      <3>2. handle # "closed"
        BY <1>1, <2>4, InsertFacts DEF Calling
      <3>3. i # k
        BY <2>0, <2>1, <3>1, <3>2 DEF LowestFree, Valid
      <3> QED
        BY <1>1, <2>0, <3>1, <3>3 DEF SaveSlot, TypeOK
    <2>5. CASE \E id \in Ids : Delete(id)
      <3>1. PICK id \in Ids : Delete(id)
        BY <2>5
      <3>2. PICK k \in Slots, slot \in Slot : LastNamed(id, k) /\ SaveSlot(k, slot)
        BY <1>1, <3>1, DeleteFacts
      <3>3. i = k /\ handle # "closed"
        BY <1>1, <2>0, <3>1, <3>2 DEF SaveSlot, TypeOK, Delete, Calling
      <3>4. ret'.id = id
        BY <3>1 DEF Delete, Returns, Answer
      <3> QED
        BY <2>1, <3>2, <3>3, <3>4 DEF LastNamed, Named
    <2>6. CASE \E id \in Ids, r \in Resolutions : ReadResize(id, r)
      <3>1. PICK id \in Ids, r \in Resolutions : ReadResize(id, r)
        BY <2>6
      <3>2. PICK k \in Slots, slot \in Slot : FirstNamed(id, k) /\ SaveSlot(k, slot)
        BY <1>1, <3>1, ResizeFacts
      <3>3. i = k /\ handle # "closed"
        BY <1>1, <2>0, <3>1, <3>2 DEF SaveSlot, TypeOK, ReadResize, Calling
      <3>4. ret'.id = id
        BY <3>1 DEF ReadResize, ReadBack, Answer
      <3> QED
        BY <2>1, <3>2, <3>3, <3>4 DEF FirstNamed, Named
    <2> QED
      BY <1>1, <2>2, <2>3, <2>4, <2>5, <2>6, Shapes
  <1>2. TypeOK /\ NothingUnsaved /\ [Next]_vars =>
          [\A i \in Valid(disk_metadata) :
              disk_metadata'[i] # disk_metadata[i] =>
                 ret'.call = "create" \/ ret'.id = disk_metadata[i].img_id]_vars
    BY <1>1
  <1> QED
    BY <1>2, TypeCorrect, AcknowledgedIsSaved, PTL DEF Spec, Isolation

-----------------------------------------------------------------------------
(* Offsets, in whatever table.                                              *)

\* The third conjunct is what makes the second one inductive: an image without
\* an original has no derived ones whose size an insert could inherit.
SlotPlaced(slot, blobs) ==
    \A r \in Resolutions :
        /\ slot.offset[r] <= Len(blobs)
        /\ r # Orig /\ slot.size[r] # 0 =>
              slot.offset[r] # 0 /\ blobs[slot.offset[r]].res = r
        /\ r # Orig /\ slot.size[r] # 0 => slot.offset[Orig] # 0

TablesPlaced ==
    \A i \in Slots :
        SlotPlaced(metadata[i], data) /\ SlotPlaced(disk_metadata[i], data)

\* do_create truncates the file: nothing in memory may then point into it.
ClosedIsEmpty == handle = "closed" => metadata = EmptyTable

\* What is in the file stays where it is when the file grows.
LEMMA PlacedKept ==
    ASSUME data \in Seq(Blob), NEW blob \in Blob,
           NEW slot \in Slot, SlotPlaced(slot, data)
    PROVE  SlotPlaced(slot, Append(data, blob))
  <1>1. /\ Len(data) \in Nat
        /\ Len(Append(data, blob)) = Len(data) + 1
        /\ \A o \in 1 .. Len(data) : Append(data, blob)[o] = data[o]
    OBVIOUS
  <1>2. slot.offset \in [Resolutions -> Nat]
    BY DEF Slot
  <1> QED
    BY <1>1, <1>2 DEF SlotPlaced

\* What an insert first writes in a slot, and what the scan makes of it,
\* points into the file: offsets are kept or copied, sizes reset or copied.
LEMMA DedupedPlaced ==
    ASSUME TypeOK, TablesPlaced,
           NEW i \in Slots, NEW id \in Ids, NEW c \in Contents
    PROVE  /\ SlotPlaced(Claimed(i, id, c), data)
           /\ \A slot \in Deduped(i, id, c) : SlotPlaced(slot, data)
  <1>1. /\ Claimed(i, id, c) \in Slot
        /\ Claimed(i, id, c).size = OnlyOrig(1)
        /\ Claimed(i, id, c).offset = metadata[i].offset
    BY ClaimedType DEF TypeOK
  <1>2. SlotPlaced(Claimed(i, id, c), data)
    BY <1>1 DEF TablesPlaced, SlotPlaced, OnlyOrig
  <1>3. \A j \in Slots : SlotPlaced(Shared(Claimed(i, id, c), metadata[j]), data)
    <2>1. ASSUME NEW j \in Slots
          PROVE  SlotPlaced(Shared(Claimed(i, id, c), metadata[j]), data)
      <3>1. metadata[j] \in Slot
        BY DEF TypeOK
      <3> QED
        BY <1>1, <3>1, SharedFacts DEF TablesPlaced, SlotPlaced
    <2> QED
      BY <2>1
  <1>4. SlotPlaced(Unplaced(Claimed(i, id, c)), data)
    <2>1. Unplaced(Claimed(i, id, c)).size = OnlyOrig(1)
      BY <1>1, UpdateFacts DEF TypeOK
    <2>2. Unplaced(Claimed(i, id, c)).offset =
            [metadata[i].offset EXCEPT ![Orig] = 0]
      BY <1>1 DEF Unplaced, Metadata
    <2>3. metadata[i].offset \in [Resolutions -> Nat] /\ Len(data) \in Nat
      BY DEF TypeOK, Slot
    <2>4. \A r \in Resolutions : metadata[i].offset[r] <= Len(data)
      BY DEF TablesPlaced, SlotPlaced
    <2> QED
      BY <2>1, <2>2, <2>3, <2>4 DEF SlotPlaced, OnlyOrig
  <1> QED
    BY <1>1, <1>2, <1>3, <1>4, UpdateFacts DEF Deduped, TypeOK

\* A slot saved in both tables, the file growing or not.
LEMMA SavePlaced ==
    ASSUME TypeOK, TablesPlaced, NEW blob \in Blob,
           data' = data \/ data' = Append(data, blob),
           NEW i \in Slots, NEW slot \in Slot, SaveSlot(i, slot),
           SlotPlaced(slot, data')
    PROVE  TablesPlaced'
  <1>1. ASSUME NEW k \in Slots
        PROVE  /\ SlotPlaced(metadata[k], data')
               /\ SlotPlaced(disk_metadata[k], data')
    BY <1>1, PlacedKept DEF TablesPlaced, TypeOK
  <1> QED
    BY <1>1 DEF TablesPlaced, SaveSlot, TypeOK

\* A closed file leaves no table in memory.
LEMMA ClosedStep ==
    ASSUME TypeOK, ClosedIsEmpty, [Next]_vars
    PROVE  ClosedIsEmpty'
  <1>1. Calling => handle' # "closed"
    BY DEF Calling
  <1>2. CASE Create \/ Open \/ Forget
    BY <1>2 DEF Create, Open, Forget, ClosedIsEmpty
  <1>3. CASE Quiet
    BY <1>1, <1>3 DEF Quiet, ClosedIsEmpty, memory
  <1>4. CASE Calling
    BY <1>1, <1>4 DEF ClosedIsEmpty
  <1> QED
    BY <1>2, <1>3, <1>4, Shapes DEF Refused, InsertShared, InsertNew, Delete,
                                    ReadResize

\* Every step keeps every slot of both tables pointing into the file.
LEMMA PlacedStep ==
    ASSUME TypeOK, TablesPlaced, ClosedIsEmpty, [Next]_vars
    PROVE  TablesPlaced'
  <1>0. SlotPlaced(Unused, <<>>) /\ SlotPlaced(Unused, data)
    <2>1. Len(data) \in Nat
      BY DEF TypeOK
    <2> QED
      BY <2>1 DEF SlotPlaced, Unused, Metadata, Zeros
  <1>1. CASE Create
    BY <1>0, <1>1 DEF Create, TablesPlaced, EmptyTable, ClosedIsEmpty
  <1>2. CASE Open
    BY <1>2 DEF Open, TablesPlaced, file
  <1>3. CASE Forget
    BY <1>0, <1>3 DEF Forget, TablesPlaced, file, EmptyTable
  <1>4. CASE Quiet
    BY <1>4 DEF Quiet, TablesPlaced, memory, file
  <1>5. CASE Refused
    <2>1. PICK id \in Ids, c \in Contents, i \in Slots, slot \in Slot :
            /\ slot \in {Claimed(i, id, c)} \cup Deduped(i, id, c)
            /\ LeaveInMemory(i, slot)
      BY <1>5 DEF Refused
    <2>2. SlotPlaced(slot, data)
      BY <2>1, DedupedPlaced
    <2> QED
      BY <2>1, <2>2 DEF LeaveInMemory, file, TablesPlaced, TypeOK
  <1>6. CASE \E id \in Ids, c \in Contents : InsertShared(id, c)
    <2>1. PICK id \in Ids, c \in Contents : InsertShared(id, c)
      BY <1>6
    <2>2. PICK i \in Slots : \E slot \in Deduped(i, id, c) : SaveSlot(i, slot)
      BY <2>1 DEF InsertShared
    <2>3. PICK slot \in Deduped(i, id, c) : SaveSlot(i, slot)
      BY <2>2
    <2>4. SlotPlaced(slot, data) /\ slot \in Slot
      BY DedupedPlaced, DedupedType DEF TypeOK
    <2>5. data' = data /\ NoBlob \in Blob
      BY <2>1 DEF InsertShared, NoBlob, Blob, Resolutions
    <2> QED
      BY <2>3, <2>4, <2>5, SavePlaced
  <1>7. CASE \E id \in Ids, c \in Contents : InsertNew(id, c)
    <2>1. PICK id \in Ids, c \in Contents : InsertNew(id, c)
      BY <1>7
    <2>2. PICK i \in Slots : \E old \in Deduped(i, id, c) :
            old.offset[Orig] = 0 /\ SaveSlot(i, Placed(old))
      BY <2>1 DEF InsertNew
    <2>3. PICK old \in Deduped(i, id, c) :
            old.offset[Orig] = 0 /\ SaveSlot(i, Placed(old))
      BY <2>2
    <2>4. SlotPlaced(old, data) /\ old \in Slot
      BY DedupedPlaced, DedupedType DEF TypeOK
    <2>5. /\ data' = Append(data, [content |-> c, res |-> Orig])
          /\ [content |-> c, res |-> Orig] \in Blob
          /\ Len(data') = Len(data) + 1 /\ Len(data) \in Nat
      BY <2>1 DEF InsertNew, Blob, Resolutions, TypeOK
    <2>6. /\ Placed(old) \in Slot
          /\ Placed(old).size = old.size
          /\ Placed(old).offset = OnlyOrig(Len(data) + 1)
      BY <2>4, UpdateFacts DEF TypeOK, Placed, Metadata
    <2>7. \A r \in Derived : old.size[r] = 0
      BY <2>3, <2>4, ResolutionAssumption DEF SlotPlaced, Resolutions
    <2>8. SlotPlaced(Placed(old), data')
      BY <2>5, <2>6, <2>7 DEF SlotPlaced, OnlyOrig, Resolutions
    <2> QED
      BY <2>3, <2>5, <2>6, <2>8, SavePlaced
  <1>8. CASE \E id \in Ids : Delete(id)
    <2>1. PICK i \in Slots : SaveSlot(i, Emptied(metadata[i]))
      BY <1>8 DEF Delete
    <2>2. metadata[i] \in Slot /\ SlotPlaced(metadata[i], data)
      BY DEF TypeOK, TablesPlaced
    <2>3. Emptied(metadata[i]) \in Slot /\ SlotPlaced(Emptied(metadata[i]), data)
      BY <2>2, UpdateFacts DEF SlotPlaced, Emptied, Metadata, TypeOK
    <2>4. data' = data /\ NoBlob \in Blob
      BY <1>8 DEF Delete, NoBlob, Blob, Resolutions
    <2> QED
      BY <2>1, <2>3, <2>4, SavePlaced
  <1>9. CASE \E id \in Ids, r \in Resolutions : ReadResize(id, r)
    <2>1. PICK id \in Ids, r \in Resolutions, i \in Slots :
            \E c \in Rendered(i) :
              /\ ToResize(i, r)
              /\ data' = Append(data, [content |-> c, res |-> r])
              /\ SaveSlot(i, Resized(metadata[i], r))
      BY <1>9 DEF ReadResize
    <2>2. PICK c \in Rendered(i) : data' = Append(data, [content |-> c, res |-> r])
      BY <2>1
    <2>3. [content |-> c, res |-> r] \in Blob
      BY RenderedType DEF Blob, TablesTyped, TypeOK
    <2>4. /\ metadata[i] \in Slot /\ SlotPlaced(metadata[i], data)
          /\ data \in Seq(Blob)
      BY DEF TypeOK, TablesPlaced
    <2>5. metadata[i].offset[Orig] # 0
      BY <2>2, <2>4 DEF Rendered, Exact
    <2>6. /\ Len(data) \in Nat
          /\ Len(data') = Len(data) + 1
          /\ data'[Len(data) + 1] = [content |-> c, res |-> r]
      BY <2>2, <2>3, <2>4
    <2>7. SlotPlaced(metadata[i], data')
      BY <2>2, <2>3, <2>4, PlacedKept
    <2>8. /\ Resized(metadata[i], r) \in Slot
          /\ Resized(metadata[i], r).offset[r] = Len(data) + 1
          /\ \A q \in Resolutions \ {r} :
                /\ Resized(metadata[i], r).offset[q] = metadata[i].offset[q]
                /\ Resized(metadata[i], r).size[q] = metadata[i].size[q]
      BY <2>4, ResizedFacts
    <2>9. SlotPlaced(Resized(metadata[i], r), data')
      <3>1. r # Orig /\ Orig \in Resolutions
        BY <2>1 DEF ToResize, Resolutions
      <3> QED
        BY <2>5, <2>6, <2>7, <2>8, <3>1 DEF SlotPlaced
    <2> QED
      BY <2>1, <2>2, <2>3, <2>8, <2>9, SavePlaced
  <1> QED
    BY <1>1, <1>2, <1>3, <1>4, <1>5, <1>6, <1>7, <1>8, <1>9, Shapes

\* Whatever deletion, reuse, deduplication and refused inserts leave in a slot,
\* valid or not, points into the file, and a derived image with a size has a
\* place: do_read never asks lazily_resize for an image it takes for there.
THEOREM OffsetsStaySound == Spec => []OffsetsSound
  <1>1. Init => TablesPlaced /\ ClosedIsEmpty
    BY DEF Init, TablesPlaced, ClosedIsEmpty, EmptyTable, SlotPlaced, Unused,
           Metadata, Zeros
  <1>2. TypeOK /\ TablesPlaced /\ ClosedIsEmpty /\ [Next]_vars
          => TablesPlaced' /\ ClosedIsEmpty'
    BY PlacedStep, ClosedStep
  <1>3. TablesPlaced => OffsetsSound
    BY DEF TablesPlaced, SlotPlaced, OffsetsSound
  <1> QED
    BY <1>1, <1>2, <1>3, TypeCorrect, PTL DEF Spec

=============================================================================
