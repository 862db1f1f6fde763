---------------------------- MODULE MCImgfsServer ---------------------------
(* Instances of ImgfsServer for TLC. *)
EXTENDS ImgfsServer

CONSTANTS c1, c2

=============================================================================
