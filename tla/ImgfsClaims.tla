----------------------------- MODULE ImgfsClaims ----------------------------
(***************************************************************************)
(* What a handout says of the library, and the code of ImgfsLib does not   *)
(* keep: the property of a run that TLC refutes.                           *)
(***************************************************************************)
EXTENDS ImgfsLib

Stored(id) == \E i \in Valid(disk_metadata) : disk_metadata[i].img_id = id

\* A delete finds "the image reference with the same name in the metadata" when
\* there is one. do_delete only looks at the last slot with that name, which
\* may be that of an image deleted earlier.
DeleteFindsStored ==
    ret.call = "delete" /\ ret.err = "IMAGE_NOT_FOUND" => ~Stored(ret.id)

=============================================================================
