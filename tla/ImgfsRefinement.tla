-------------------------- MODULE ImgfsRefinement ---------------------------
(***************************************************************************)
(* Run as commands, the library implements the catalogue of ImgfsCatalog:  *)
(* the table, the offsets, the shared originals and the slots of deleted   *)
(* images cannot be told from one entry per place.                         *)
(***************************************************************************)
EXTENDS ImgfsProofs

Entries == [i \in Slots |-> Entry(disk_metadata[i])]

\* What the invariants of ImgfsProofs say of the state a command finds.
Sound ==
    /\ TypeOK /\ NothingUnsaved /\ Fresh
    /\ LowerTwinValid /\ ContentSound /\ CountExact

\* The places taken are the valid slots, under the names they have.
LEMMA TakenPlaces ==
    ASSUME TypeOK
    PROVE  /\ Catalog!Places = Slots
           /\ Catalog!Taken = Valid(disk_metadata)
           /\ \A id : Catalog!Holding(id) =
                 {i \in Valid(disk_metadata) : disk_metadata[i].img_id = id}
           /\ \A i \in Valid(disk_metadata) :
                 Entries[i] = [id |-> disk_metadata[i].img_id,
                               contents |-> {disk_metadata[i].SHA}]
  <1>1. Catalog!Places = Slots
    BY DEF Catalog!Places, Slots
  <1>2. \A i \in Slots : Entries[i] = Entry(disk_metadata[i])
    BY DEF Entries
  <1>3. \A i \in Slots : disk_metadata[i].is_valid =>
           Entries[i] = [id |-> disk_metadata[i].img_id,
                         contents |-> {disk_metadata[i].SHA}]
    BY <1>2 DEF Entry
  <1>4. \A i \in Slots : ~disk_metadata[i].is_valid =>
           Entries[i] = Catalog!Nothing
    BY <1>2 DEF Entry, Catalog!Nothing
  <1>5. ASSUME NEW i \in Slots, disk_metadata[i].is_valid
        PROVE  Entries[i] # Catalog!Nothing /\ Entries[i].id = disk_metadata[i].img_id
    <2>0. Entries[i] = [id |-> disk_metadata[i].img_id,
                        contents |-> {disk_metadata[i].SHA}]
      BY <1>3, <1>5
    <2>1. Entries[i].id = disk_metadata[i].img_id
      BY <2>0
    <2>2. Entries[i].contents = {disk_metadata[i].SHA}
      BY <2>0
    <2>3. Entries[i].contents # {}
      BY <2>2
    <2>4. Catalog!Nothing.contents = {}
      BY DEF Catalog!Nothing
    <2> QED
      BY <2>1, <2>3, <2>4
  <1>6. Catalog!Taken = Valid(disk_metadata)
    BY <1>1, <1>4, <1>5 DEF Catalog!Taken, Valid, Entries
  <1>7. ASSUME NEW id
        PROVE  Catalog!Holding(id) =
                 {i \in Valid(disk_metadata) : disk_metadata[i].img_id = id}
    <2>1. Catalog!Holding(id) = {i \in Valid(disk_metadata) : Entries[i].id = id}
      BY <1>6 DEF Catalog!Holding, Entries
    <2>2. \A i \in Valid(disk_metadata) : Entries[i].id = disk_metadata[i].img_id
      BY <1>5 DEF Valid
    <2> QED
      BY <2>1, <2>2
  <1> QED
    BY <1>1, <1>3, <1>6, <1>7 DEF Valid

\* A file just created is an empty catalogue.
LEMMA CatalogInit == Init => Catalog!Init
  <1> SUFFICES ASSUME Init PROVE Catalog!Init
    OBVIOUS
  <1>1. \A i \in Slots : Entry(disk_metadata[i]) = Catalog!Nothing
    BY DEF Init, EmptyTable, Unused, Metadata, Entry, Catalog!Nothing
  <1>2. Entries = [p \in Catalog!Places |-> Catalog!Nothing]
    BY <1>1 DEF Entries, Catalog!Places, Slots
  <1>3. ret.call = "create" /\ disk_header.version = 0
    BY DEF Init, Answer, EmptyHeader
  <1> QED
    BY <1>2, <1>3 DEF Catalog!Init, Entries

-----------------------------------------------------------------------------
(* What a step does to the catalogue.                                       *)

\* A call finds in memory what is in the file.
LEMMA Found ==
    ASSUME Sound, handle = "open"
    PROVE  metadata = disk_metadata /\ header = disk_header
  BY DEF Sound, Fresh, NothingUnsaved

\* An answer without image is the answer the catalogue gives.
LEMMA ReturnsAnswered ==
    ASSUME NEW call, NEW id, NEW err, Returns(call, id, err)
    PROVE  Catalog!Answered(call, id, err)
  BY DEF Returns, Answer, Catalog!Answered

\* As long as the file is the same, so is the catalogue.
LEMMA Unmoved ==
    ASSUME UNCHANGED file
    PROVE  UNCHANGED <<Entries, disk_header.version>>
  BY DEF file, Entries

\* A slot and the header saved are one change of the catalogue.
LEMMA Moved ==
    ASSUME TypeOK, header = disk_header, NEW i \in Slots, NEW slot \in Slot,
           NEW count, SaveSlot(i, slot), SaveHeader(count)
    PROVE  Catalog!Changed(i, Entry(slot))
  <1>1. disk_metadata' = [disk_metadata EXCEPT ![i] = slot]
    BY DEF SaveSlot
  <1>2. disk_metadata \in [Slots -> Slot]
    BY DEF TypeOK
  <1>3. \A k \in Slots :
          Entry(disk_metadata'[k]) =
            IF k = i THEN Entry(slot) ELSE Entry(disk_metadata[k])
    BY <1>1, <1>2
  <1>4. Entries' = [Entries EXCEPT ![i] = Entry(slot)]
    BY <1>3 DEF Entries
  <1>5. disk_header'.version = (disk_header.version + 1) % VersionMod
    BY DEF SaveHeader
  <1> QED
    BY <1>4, <1>5 DEF Catalog!Changed, Entries

\* An insert that answers ERR_NONE stores the image in a free place.
LEMMA InsertStep ==
    ASSUME Sound, NEW id \in Ids, NEW c \in Contents,
           InsertShared(id, c) \/ InsertNew(id, c)
    PROVE  Catalog!Insert(id, c)
  <1>1. TypeOK /\ handle = "open"
    BY DEF Sound, InsertShared, InsertNew, Calling
  <1>2. metadata = disk_metadata /\ header = disk_header
    BY <1>1, Found
  <1>3. PICK i \in Slots : \E slot \in Slot :
          /\ LowestFree(i)
          /\ slot.img_id = id /\ slot.SHA = c /\ slot.is_valid
          /\ SaveSlot(i, slot)
    BY <1>1, InsertFacts
  <1>4. PICK slot \in Slot :
          /\ slot.img_id = id /\ slot.SHA = c /\ slot.is_valid
          /\ SaveSlot(i, slot)
    BY <1>3
  <1>5. Catalog!Changed(i, Entry(slot))
    BY <1>1, <1>2, <1>4, InsertFacts, Moved
  <1>6. Entry(slot) = Catalog!Image(id, c)
    BY <1>4 DEF Entry, Catalog!Image
  <1>7. i \in Catalog!Places \ Catalog!Taken
    BY <1>1, <1>2, <1>3, TakenPlaces DEF LowestFree
  <1>8. Catalog!Answered("insert", id, "NONE")
    BY ReturnsAnswered DEF InsertShared, InsertNew
  <1>9. c \in Decodable
    BY DEF InsertShared, InsertNew
  <1> QED
    BY <1>5, <1>6, <1>7, <1>8, <1>9 DEF Catalog!Insert

\* A table whose count says full has no free place.
LEMMA FullTaken ==
    ASSUME Sound, handle = "open",
           header.nb_files = MaxFiles \/ Slots \subseteq Valid(metadata)
    PROVE  Catalog!Taken = Catalog!Places
  <1>1. TypeOK /\ metadata = disk_metadata /\ header = disk_header
    BY Found DEF Sound
  <1>2. Valid(disk_metadata) \subseteq Slots
    BY DEF Valid
  <1>3. IsFiniteSet(Slots) /\ Cardinality(Slots) = MaxFiles
    BY MaxFilesAssumption, FS_Interval DEF Slots
  <1>4. CASE header.nb_files = MaxFiles
    <2>1. Cardinality(Valid(disk_metadata)) = Cardinality(Slots)
      BY <1>1, <1>3, <1>4 DEF Sound, CountExact
    <2>2. Valid(disk_metadata) = Slots
      BY <1>2, <1>3, <2>1, FS_Subset
    <2> QED
      BY <1>1, <2>2, TakenPlaces
  <1>5. CASE Slots \subseteq Valid(metadata)
    BY <1>1, <1>2, <1>5, TakenPlaces
  <1> QED
    BY <1>4, <1>5

\* A refusal to insert has one of the catalogue's reasons.
LEMMA InsertRefusedStep ==
    ASSUME Sound, NEW id \in Ids, NEW c \in Contents,
           \/ InsertFull(id)
           \/ InsertDuplicate(id, c)
           \/ InsertUndecodable(id, c)
    PROVE  Catalog!InsertRefused(id, c)
  <1>1. TypeOK /\ handle = "open"
    BY DEF Sound, InsertFull, InsertDuplicate, InsertUndecodable, Calling
  <1>2. metadata = disk_metadata
    BY <1>1, Found
  <1>3. UNCHANGED <<Entries, disk_header.version>>
    BY Unmoved DEF InsertFull, InsertDuplicate, InsertUndecodable, LeaveInMemory
  <1>4. CASE InsertFull(id)
    <2>1. Catalog!Taken = Catalog!Places
      BY <1>1, <1>4, FullTaken DEF InsertFull
    <2>2. Catalog!Answered("insert", id, "IMGFS_FULL")
      BY <1>4, ReturnsAnswered DEF InsertFull
    <2> QED
      BY <1>3, <2>1, <2>2 DEF Catalog!InsertRefused, Entries
  <1>5. CASE InsertDuplicate(id, c)
    <2>1. PICK i \in Slots, j \in Slots :
            FirstRival(i, id, c, j) /\ metadata[j].img_id = id
      BY <1>5 DEF InsertDuplicate
    <2>2. j \in Valid(disk_metadata) /\ disk_metadata[j].img_id = id
      BY <1>2, <2>1 DEF FirstRival, Rivals
    <2>3. Catalog!Holding(id) # {}
      BY <1>1, <2>2, TakenPlaces
    <2>4. Catalog!Answered("insert", id, "DUPLICATE_ID")
      BY <1>5, ReturnsAnswered DEF InsertDuplicate
    <2> QED
      BY <1>3, <2>3, <2>4 DEF Catalog!InsertRefused, Entries
  <1>6. CASE InsertUndecodable(id, c)
    <2>1. Catalog!Answered("insert", id, "IMGLIB")
      BY <1>6, ReturnsAnswered DEF InsertUndecodable
    <2> QED
      BY <1>3, <1>6, <2>1 DEF Catalog!InsertRefused, InsertUndecodable, Entries
  <1> QED
    BY <1>4, <1>5, <1>6

\* A delete empties a place of that name, or is refused.
LEMMA RemoveStep ==
    ASSUME Sound, NEW id \in Ids, Remove(id)
    PROVE  Catalog!Delete(id) \/ Catalog!DeleteRefused(id)
  <1>1. CASE Delete(id)
    <2>1. TypeOK /\ handle = "open"
      BY <1>1 DEF Sound, Delete, Calling
    <2>2. metadata = disk_metadata /\ header = disk_header
      BY <2>1, Found
    <2>3. PICK i \in Slots : \E slot \in Slot :
            /\ LastNamed(id, i)
            /\ metadata[i].is_valid
            /\ slot.img_id = id /\ ~slot.is_valid
            /\ SaveSlot(i, slot)
      BY <1>1, <2>1, DeleteFacts
    <2>4. PICK slot \in Slot : ~slot.is_valid /\ SaveSlot(i, slot)
      BY <2>3
    <2>5. Catalog!Changed(i, Entry(slot))
      BY <1>1, <2>1, <2>2, <2>4, DeleteFacts, Moved
    <2>6. Entry(slot) = Catalog!Nothing
      BY <2>4 DEF Entry, Catalog!Nothing
    <2>7. i \in Catalog!Holding(id)
      BY <2>1, <2>2, <2>3, TakenPlaces DEF LastNamed, Named, Valid
    <2>8. Catalog!Answered("delete", id, "NONE")
      BY <1>1, ReturnsAnswered DEF Delete
    <2> QED
      BY <2>5, <2>6, <2>7, <2>8 DEF Catalog!Delete
  <1>2. CASE DeleteRefused(id) \/ DeleteMissing(id)
    <2>1. UNCHANGED <<Entries, disk_header.version>>
      BY <1>2, Unmoved DEF DeleteRefused, DeleteMissing
    <2>2. \E err \in {"IMAGE_NOT_FOUND", "INVALID_IMGID"} :
            Catalog!Answered("delete", id, err)
      BY <1>2, ReturnsAnswered DEF DeleteRefused, DeleteMissing
    <2> QED
      BY <2>1, <2>2 DEF Catalog!DeleteRefused, Entries
  <1> QED
    BY <1>1, <1>2 DEF Remove

\* The name of a slot that is first of its name and EMPTY is not stored.
LEMMA HoldingNone ==
    ASSUME TypeOK, LowerTwinValid, metadata = disk_metadata,
           NEW id, NEW i \in Slots, FirstNamed(id, i), ~metadata[i].is_valid
    PROVE  Catalog!Holding(id) = {}
  <1>1. SUFFICES ASSUME NEW j \in Valid(disk_metadata), disk_metadata[j].img_id = id
                 PROVE  FALSE
    BY TakenPlaces
  <1>2. j \in Slots /\ j \in Named(id) /\ i # j
    BY <1>1 DEF Valid, Named
  <1>3. i < j
    BY <1>2 DEF FirstNamed, Slots
  <1>4. disk_metadata[i].img_id = disk_metadata[j].img_id
    BY <1>1 DEF FirstNamed, Named
  <1> QED
    BY <1>1, <1>2, <1>3, <1>4 DEF LowerTwinValid, LowerTwinValidIn, Valid

\* A slot that is first of its name and valid is a place of that name, whose
\* original is where the slot says.
LEMMA HoldingFirst ==
    ASSUME TypeOK, SoundContent, metadata = disk_metadata,
           NEW id, NEW i \in Slots, FirstNamed(id, i), metadata[i].is_valid
    PROVE  /\ i \in Catalog!Holding(id)
           /\ metadata[i].SHA \in Entries[i].contents
           /\ Whole(disk_metadata, i)
           /\ Exact(i, Orig)
  <1>1. i \in Valid(disk_metadata) /\ disk_metadata[i].img_id = id
    BY DEF FirstNamed, Named, Valid
  <1>2. i \in Catalog!Holding(id)
    BY <1>1, TakenPlaces
  <1>3. Entries[i] = [id |-> disk_metadata[i].img_id,
                      contents |-> {disk_metadata[i].SHA}]
    BY <1>1, TakenPlaces
  <1>4. metadata[i].SHA \in Entries[i].contents
    BY <1>3
  <1>5. Whole(disk_metadata, i)
    BY <1>1 DEF SoundContent
  <1>6. Exact(i, Orig)
    BY <1>5, WholePlaced DEF Exact
  <1> QED
    BY <1>2, <1>4, <1>5, <1>6

\* A read of what is in the file answers with an image stored under the name,
\* if there is one.
LEMMA ReadStoredStep ==
    ASSUME Sound, NEW id \in Ids, NEW r \in Resolutions, ReadStored(id, r)
    PROVE  Catalog!Read(id)
  <1>1. TypeOK /\ SoundContent /\ LowerTwinValid /\ handle = "open"
    BY DEF Sound, ContentSound, ReadStored, Calling
  <1>2. metadata = disk_metadata
    BY <1>1, Found
  <1>3. UNCHANGED <<Entries, disk_header.version>>
    BY Unmoved DEF ReadStored
  <1>4. PICK i \in Slots :
          /\ FirstNamed(id, i)
          /\ ToResize(i, r) => metadata[i].is_valid /\ metadata[i].size[r] # 0
          /\ \/ /\ metadata[i].size[r] # 0
                /\ ret' = Answer("read", id, "NONE",
                             IF Exact(i, r) THEN data[metadata[i].offset[r]]
                                            ELSE NoBlob, {})
             \/ /\ metadata[i].size[r] = 0 \/ ~Exact(i, r)
                /\ Returns("read", id, "IO")
    BY DEF ReadStored
  <1>5. CASE ~metadata[i].is_valid
    <2>1. Catalog!Holding(id) = {}
      BY <1>1, <1>2, <1>4, <1>5, HoldingNone
    <2>2. \E err \in {"NONE", "IO"} : Catalog!Answered("read", id, err)
      BY <1>4, ReturnsAnswered DEF Answer, Catalog!Answered
    <2> QED
      BY <1>3, <2>1, <2>2 DEF Catalog!Read, Entries
  <1>6. CASE metadata[i].is_valid
    <2>1. /\ i \in Catalog!Holding(id)
          /\ metadata[i].SHA \in Entries[i].contents
          /\ Whole(disk_metadata, i)
      BY <1>1, <1>2, <1>4, <1>6, HoldingFirst
    <2>2. metadata[i].size[r] # 0
      BY <1>2, <1>4, <2>1 DEF Whole, ToResize
    <2>3. /\ metadata[i].offset[r] \in DOMAIN data
          /\ data[metadata[i].offset[r]] = [content |-> metadata[i].SHA, res |-> r]
      BY <1>2, <2>1, <2>2 DEF Whole
    <2>4. Exact(i, r)
      BY <2>3 DEF Exact
    <2>5. ret' = Answer("read", id, "NONE", data[metadata[i].offset[r]], {})
      BY <1>4, <2>2, <2>4
    <2>6. Catalog!Answered("read", id, "NONE") /\ ret'.image.content = metadata[i].SHA
      BY <2>3, <2>5 DEF Answer, Catalog!Answered
    <2> QED
      BY <1>3, <2>1, <2>6 DEF Catalog!Read, Entries
  <1> QED
    BY <1>5, <1>6

\* A thumbnail made on demand shows the image stored under the name, and is no
\* change of the catalogue.
LEMMA ReadResizeStep ==
    ASSUME Sound, NEW id \in Ids, NEW r \in Resolutions, ReadResize(id, r)
    PROVE  Catalog!Read(id)
  <1>1. TypeOK /\ SoundContent /\ handle = "open"
    BY DEF Sound, ContentSound, ReadResize, Calling
  <1>2. metadata = disk_metadata
    BY <1>1, Found
  <1>3. PICK i \in Slots : \E c \in Rendered(i) :
          /\ FirstNamed(id, i)
          /\ metadata[i].is_valid
          /\ SaveSlot(i, Resized(metadata[i], r))
          /\ ret' \in ReadBack(id, [content |-> c, res |-> r])
    BY DEF ReadResize
  <1>4. /\ i \in Catalog!Holding(id)
        /\ metadata[i].SHA \in Entries[i].contents
        /\ Exact(i, Orig)
    BY <1>1, <1>2, <1>3, HoldingFirst
  <1>5. Rendered(i) = {metadata[i].SHA}
    BY <1>4 DEF Rendered
  <1>6. \/ /\ Catalog!Answered("read", id, "NONE")
           /\ ret'.image.content = metadata[i].SHA
        \/ Catalog!Answered("read", id, "OUT_OF_MEMORY")
    BY <1>3, <1>5 DEF ReadBack, Answer, Catalog!Answered
  <1>7. metadata[i] \in Slot /\ disk_metadata \in [Slots -> Slot]
    BY <1>1 DEF TypeOK
  <1>8. /\ Resized(metadata[i], r).img_id = metadata[i].img_id
        /\ Resized(metadata[i], r).SHA = metadata[i].SHA
        /\ Resized(metadata[i], r).is_valid = metadata[i].is_valid
    BY <1>1, <1>7, ResizedFacts DEF TypeOK
  <1>9. Entry(Resized(metadata[i], r)) = Entry(disk_metadata[i])
    BY <1>2, <1>8 DEF Entry
  <1>10. \A k \in Slots : Entry(disk_metadata'[k]) = Entry(disk_metadata[k])
    BY <1>3, <1>7, <1>9 DEF SaveSlot
  <1>11. UNCHANGED <<Entries, disk_header.version>>
    BY <1>10 DEF Entries, ReadResize
  <1> QED
    BY <1>4, <1>6, <1>11 DEF Catalog!Read, Entries

\* A read, however it ends, is a read of the catalogue.
LEMMA ReadStep ==
    ASSUME Sound, NEW id \in Ids, NEW r \in Resolutions, Read(id, r)
    PROVE  Catalog!Read(id)
  <1>1. TypeOK /\ SoundContent /\ LowerTwinValid
    BY DEF Sound, ContentSound
  <1>2. CASE ReadMissing(id)
    <2>1. metadata = disk_metadata
      BY <1>2, Found DEF ReadMissing, Calling
    <2>2. Catalog!Holding(id) = {}
      BY <1>1, <1>2, <2>1, TakenPlaces DEF ReadMissing, Named, Valid
    <2>3. Catalog!Answered("read", id, "IMAGE_NOT_FOUND")
      BY <1>2, ReturnsAnswered DEF ReadMissing
    <2>4. UNCHANGED <<Entries, disk_header.version>>
      BY <1>2, Unmoved DEF ReadMissing
    <2> QED
      BY <2>2, <2>3, <2>4 DEF Catalog!Read, Entries
  <1>3. CASE ReadInvalid(id, r)
    <2>1. metadata = disk_metadata
      BY <1>3, Found DEF ReadInvalid, Calling
    <2>2. Catalog!Holding(id) = {}
      BY <1>1, <1>3, <2>1, HoldingNone DEF ReadInvalid
    <2>3. Catalog!Answered("read", id, "INVALID_IMGID")
      BY <1>3, ReturnsAnswered DEF ReadInvalid
    <2>4. UNCHANGED <<Entries, disk_header.version>>
      BY <1>3, Unmoved DEF ReadInvalid
    <2> QED
      BY <2>2, <2>3, <2>4 DEF Catalog!Read, Entries
  <1>4. CASE ReadResizeFails(id, r)
    <2>1. metadata = disk_metadata
      BY <1>4, Found DEF ReadResizeFails
    <2>2. UNCHANGED <<Entries, disk_header.version>>
      BY <1>4, Unmoved DEF ReadResizeFails, Forget
    <2>3. PICK i \in Slots :
            /\ FirstNamed(id, i) /\ metadata[i].is_valid
            /\ \/ \E err \in {"IMGLIB"} \cup {e \in {"IO"} : ~Exact(i, Orig)} :
                      Returns("read", id, err)
               \/ Returns("read", id, "CRASH")
      BY <1>4 DEF ReadResizeFails
    <2>4. Exact(i, Orig)
      BY <1>1, <2>1, <2>3, HoldingFirst
    <2>5. Returns("read", id, "IMGLIB") \/ Returns("read", id, "CRASH")
      BY <2>3, <2>4
    <2>6. \E err \in {"IMGLIB", "CRASH"} : Catalog!Answered("read", id, err)
      BY <2>5, ReturnsAnswered
    <2> QED
      BY <2>2, <2>6 DEF Catalog!Read, Entries
  <1>5. CASE ReadNoMemory(id, r)
    <2>1. Catalog!Answered("read", id, "OUT_OF_MEMORY")
      BY <1>5, ReturnsAnswered DEF ReadNoMemory
    <2>2. UNCHANGED <<Entries, disk_header.version>>
      BY <1>5, Unmoved DEF ReadNoMemory
    <2> QED
      BY <2>1, <2>2 DEF Catalog!Read, Entries
  <1> QED
    BY <1>2, <1>3, <1>4, <1>5, ReadStoredStep, ReadResizeStep DEF Read

\* The list leaves nothing out, since the count is exact.
LEMMA ListStep ==
    ASSUME Sound, List
    PROVE  Catalog!List
  <1>1. TypeOK /\ metadata = disk_metadata /\ header = disk_header
    BY Found DEF Sound, List, Calling
  <1>2. ASSUME NEW i \in Valid(metadata)
        PROVE  Cardinality({k \in Valid(metadata) : k <= i}) <= header.nb_files
    <2>1. Cardinality({k \in Valid(metadata) : k <= i}) <= Cardinality(Valid(metadata))
      BY ValidFinite, FS_Subset
    <2> QED
      BY <1>1, <2>1 DEF Sound, CountExact
  <1>3. Listed = Valid(disk_metadata)
    BY <1>1, <1>2 DEF Listed
  <1>4. Catalog!Taken = Valid(disk_metadata)
    BY <1>1, TakenPlaces
  <1>5. ASSUME NEW p \in Valid(disk_metadata)
        PROVE  Entries[p].id = disk_metadata[p].img_id
    <2>1. Entries[p] = [id |-> disk_metadata[p].img_id,
                        contents |-> {disk_metadata[p].SHA}]
      BY <1>1, TakenPlaces
    <2> QED
      BY <2>1
  <1>6. ret'.call = "list" /\ ret'.listed = {metadata[i].img_id : i \in Listed}
    BY DEF List, Answer
  <1>7. ret'.listed = {Entries[p].id : p \in Catalog!Taken}
    BY <1>1, <1>3, <1>4, <1>6, <1>5
  <1>8. UNCHANGED <<Entries, disk_header.version>>
    BY Unmoved DEF List
  <1> QED
    BY <1>6, <1>7, <1>8 DEF Catalog!List, Entries

\* A step of a command is a step of the catalogue.
LEMMA CatalogStep ==
    ASSUME Sound, [Next]_vars
    PROVE  [Catalog!Next]_(Catalog!vars)
  <1>1. CASE UNCHANGED vars
    BY <1>1 DEF vars, Catalog!vars
  <1>2. CASE Create
    <2>1. \A i \in Slots : Entry(disk_metadata'[i]) = Catalog!Nothing
      BY <1>2 DEF Create, EmptyTable, Unused, Metadata, Entry, Catalog!Nothing
    <2>2. Entries' = [p \in Catalog!Places |-> Catalog!Nothing]
      BY <2>1 DEF Entries, Catalog!Places, Slots
    <2>3. ret'.call = "create" /\ disk_header'.version = 0
      BY <1>2 DEF Create, EmptyHeader, Returns, Answer
    <2> QED
      BY <2>2, <2>3 DEF Catalog!Next, Catalog!Create, Entries
  <1>3. CASE Open \/ Close
    <2>1. UNCHANGED <<Entries, disk_header.version>>
      BY <1>3, Unmoved DEF Open, Close, Forget
    <2>2. ret'.call \in {"open", "close"}
      BY <1>3 DEF Open, Close, Returns, Answer
    <2> QED
      BY <2>1, <2>2 DEF Catalog!Next, Catalog!Silent, Entries
  <1>4. ASSUME NEW id \in Ids, NEW c \in Contents, Insert(id, c)
        PROVE  Catalog!Next
    BY <1>4, InsertStep, InsertRefusedStep DEF Insert, Catalog!Next
  <1>5. ASSUME NEW id \in Ids, Remove(id)
        PROVE  Catalog!Next
    BY <1>5, RemoveStep DEF Catalog!Next
  <1>6. ASSUME NEW id \in Ids, NEW r \in Resolutions, Read(id, r)
        PROVE  Catalog!Next
    BY <1>6, ReadStep DEF Catalog!Next
  <1>7. CASE List
    BY <1>7, ListStep DEF Catalog!Next
  <1> QED
    BY <1>1, <1>2, <1>3, <1>4, <1>5, <1>6, <1>7 DEF Next

\* Run as commands, the library implements the catalogue: an insert or a delete
\* that answers ERR_NONE changes one entry and moves the version by one, every
\* other call changes nothing, each refusal to insert has its reason, a stored
\* name reads as an image stored under it, and the list is complete.
THEOREM CommandsImplementCatalog ==
    ASSUME ~Resident
    PROVE  Spec => ImplementsCatalog
  <1>1. TypeOK /\ NothingUnsaved /\ Fresh /\ LowerTwinValid /\ ContentSound /\ CountExact
          /\ [Next]_vars => [Catalog!Next]_(Catalog!vars)
    BY CatalogStep DEF Sound
  <1>2. Init => Fresh
    BY DEF Init, Fresh
  <1>3. TypeOK /\ Fresh /\ [Next]_vars => Fresh'
    BY FreshStep
  <1> QED
    BY <1>1, <1>2, <1>3, CatalogInit, TypeCorrect, AcknowledgedIsSaved, StoredIsFound,
       ContentInvariant, CountIsExact, PTL DEF Spec, ImplementsCatalog, Catalog!Spec

=============================================================================
