----------------------------- MODULE MCImgfsLib -----------------------------
(* Instances of ImgfsLib for TLC. *)
EXTENDS ImgfsClaims, TLC

CONSTANTS a, b, red, blue, text, thumb

\* No call tells the two names apart, nor two contents that decode.
Symmetry == Permutations({a, b}) \cup Permutations(Decodable)

=============================================================================
