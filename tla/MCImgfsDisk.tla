---------------------------- MODULE MCImgfsDisk -----------------------------
(* Instances of ImgfsDisk for TLC. *)
EXTENDS ImgfsDisk, TLC

CONSTANTS a, cat, red, blue, text, thumb

\* No call tells two contents that decode apart.
Symmetry == Permutations(Decodable)

\* The server is not followed past a write that fails: nothing tells the name in
\* the header from another.
ServerSymmetry == Symmetry \cup Permutations({a, cat})

=============================================================================
