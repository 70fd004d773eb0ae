---------------------------- MODULE MCRedisPosts ----------------------------
(* Instantiates RedisPosts for TLC: clients w1, w2, a moderator m1, image  *)
(* files f1, f2 and one appended text "x".                                 *)
EXTENDS RedisPosts

CONSTANTS w1, w2, m1, r1, f1, f2

\* Thumbnail bounds for get_thumb_specs, small enough to enumerate every
\* source size up to IMAGE_WIDTH_MAX x IMAGE_HEIGHT_MAX, with sources both
\* inside and beyond them in each direction, and a non-square thumb bound
MCThumbDims == <<5, 4>>
MCPinkyDims == <<3, 3>>

\* Worker symmetry is sound: the actions never tell two Workers apart
WorkerSymmetry == Permutations({w1, w2})
=============================================================================
