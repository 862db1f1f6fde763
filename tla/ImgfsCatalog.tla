---------------------------- MODULE ImgfsCatalog ----------------------------
(***************************************************************************)
(* What a user of imgfscmd is promised of one .imgfs file: a catalogue of  *)
(* at most MaxFiles images under their names, and a version that counts    *)
(* its changes. No table in memory, no offsets, no shared originals, no    *)
(* EMPTY slot that still carries a name.                                   *)
(***************************************************************************)
EXTENDS Integers

CONSTANTS MaxFiles, Ids, Blank, Contents, Decodable, VersionMod

VARIABLES
    stored,    \* the image in each place, or Nothing
    version,   \* how often the catalogue changed, modulo VersionMod
    answer     \* the last call and its outcome

vars == <<stored, version, answer>>

Places == 0 .. MaxFiles - 1
Nothing == [id |-> Blank, contents |-> {}]
Image(id, c) == [id |-> id, contents |-> {c}]

Taken == {p \in Places : stored[p] # Nothing}
Holding(id) == {p \in Taken : stored[p].id = id}

Init ==
    /\ stored = [p \in Places |-> Nothing]
    /\ version = 0
    /\ answer.call = "create"

Changed(p, entry) ==
    /\ stored' = [stored EXCEPT ![p] = entry]
    /\ version' = (version + 1) % VersionMod

Answered(call, id, err) ==
    answer'.call = call /\ answer'.id = id /\ answer'.err = err

Create ==
    /\ stored' = [p \in Places |-> Nothing]
    /\ version' = 0
    /\ answer'.call = "create"

\* An image file that decodes is stored in a place that was free.
Insert(id, c) ==
    /\ c \in Decodable
    /\ \E p \in Places \ Taken : Changed(p, Image(id, c))
    /\ Answered("insert", id, "NONE")

\* A refusal has its reason and changes nothing.
InsertRefused(id, c) ==
    /\ \/ Taken = Places /\ Answered("insert", id, "IMGFS_FULL")
       \/ Holding(id) # {} /\ Answered("insert", id, "DUPLICATE_ID")
       \/ c \notin Decodable /\ Answered("insert", id, "IMGLIB")
    /\ UNCHANGED <<stored, version>>

Delete(id) ==
    /\ \E p \in Holding(id) : Changed(p, Nothing)
    /\ Answered("delete", id, "NONE")

\* The catalogue does not promise to find a name that is stored: do_delete
\* does not always.
DeleteRefused(id) ==
    /\ \E err \in {"IMAGE_NOT_FOUND", "INVALID_IMGID"} :
          Answered("delete", id, err)
    /\ UNCHANGED <<stored, version>>

\* The image read is one stored under that name, whatever the resolution. When
\* nothing is stored under it the catalogue promises nothing.
Read(id) ==
    /\ \/ \E p \in Holding(id) :
             /\ Answered("read", id, "NONE")
             /\ answer'.image.content \in stored[p].contents
       \/ \E err \in {"IMGLIB", "OUT_OF_MEMORY", "CRASH"} : Answered("read", id, err)
       \/ /\ Holding(id) = {}
          /\ \E err \in {"NONE", "IMAGE_NOT_FOUND", "INVALID_IMGID", "IO"} :
                Answered("read", id, err)
    /\ UNCHANGED <<stored, version>>

\* All the names, and no other.
List ==
    /\ answer'.call = "list"
    /\ answer'.listed = {stored[p].id : p \in Taken}
    /\ UNCHANGED <<stored, version>>

\* A process opens the file, or closes it.
Silent ==
    /\ answer'.call \in {"open", "close"}
    /\ UNCHANGED <<stored, version>>

Next ==
    \/ Create
    \/ \E id \in Ids, c \in Contents : Insert(id, c) \/ InsertRefused(id, c)
    \/ \E id \in Ids : Delete(id) \/ DeleteRefused(id) \/ Read(id)
    \/ List
    \/ Silent

Spec == Init /\ [][Next]_vars

=============================================================================
