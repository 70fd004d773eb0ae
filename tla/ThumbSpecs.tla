----------------------------- MODULE ThumbSpecs -----------------------------
(* get_thumb_specs of post_updates.go (pix.js): the thumbnail size that    *)
(* ImageUpload.process asks resize_image for, once the source dimensions *)
(* w, h have passed the checks 0 < w <= IMAGE_WIDTH_MAX and              *)
(* 0 < h <= IMAGE_HEIGHT_MAX.  JavaScript's float division is modelled   *)
(* by exact rationals [num, den], compared by cross-multiplication, and  *)
(* Math.round(x) by floor(x + 1/2).                                      *)
EXTENDS Integers

CONSTANTS
  THUMB_DIMENSIONS,   \* <<width, height>> bound of an ordinary thumbnail
  PINKY_DIMENSIONS,   \* <<width, height>> bound of a thread-reply thumbnail
  THUMB_QUALITY,
  PINKY_QUALITY,
  IMAGE_WIDTH_MAX,
  IMAGE_HEIGHT_MAX

\* The source sizes process lets through to get_thumb_specs
SourceDims == {<<w, h>> : w \in 1..IMAGE_WIDTH_MAX, h \in 1..IMAGE_HEIGHT_MAX}

Ratio(n, d) == [num |-> n, den |-> d]

\* p >= q for positive rationals
AtLeast(p, q) == p.num * q.den >= q.num * p.den

MaxRatio(p, q) == IF AtLeast(p, q) THEN p ELSE q

\* Math.round(n / d) for n >= 0, d > 0
Round(n, d) == (2 * n + d) \div (2 * d)

\* Math.max(w / bound[0], h / bound[1]), the 1 left out: a sizing that
\* enlarges images smaller than the bound
ScaleNoFloor(w, h, bound) ==
  MaxRatio(Ratio(w, bound[1]), Ratio(h, bound[2]))

\* r = Math.max(w / bound[0], h / bound[1], 1)
Scale(w, h, bound) ==
  MaxRatio(MaxRatio(Ratio(w, bound[1]), Ratio(h, bound[2])), Ratio(1, 1))

\* get_thumb_specs(w, h, pinky): the pinky flag chooses the config pair,
\* the dims are the source divided by r and rounded
get_thumb_specs(w, h, pinky) ==
  LET bound == IF pinky THEN PINKY_DIMENSIONS ELSE THUMB_DIMENSIONS
      r     == Scale(w, h, bound)
  IN [dims    |-> <<Round(w * r.den, r.num), Round(h * r.den, r.num)>>,
      quality |-> IF pinky THEN PINKY_QUALITY ELSE THUMB_QUALITY]

-----------------------------------------------------------------------------
(* Reference: the thumbnail is the source scaled by                       *)
(* s = min(bw / w, bh / h, 1), the largest factor at which it fits the     *)
(* bound without being enlarged, each side rounded to a nearest integer.  *)
(* Stated through s directly, not through r.                              *)

\* s is at most 1 and makes both sides fit
IsFitScale(w, h, bound, s) ==
  /\ s.num <= s.den
  /\ w * s.num <= bound[1] * s.den
  /\ h * s.num <= bound[2] * s.den

\* x is an integer nearest to the exact n / d
Nearest(x, n, d) == 2 * d * x - 2 * n \in -d..d

\* The candidate factors: 1, bw / w and bh / h; the one that fits is the least
Candidates(w, h, bound) ==
  {Ratio(1, 1), Ratio(bound[1], w), Ratio(bound[2], h)}

\* A factor is the fitting one if it fits and is a candidate
FitScale(w, h, bound) ==
  CHOOSE s \in Candidates(w, h, bound) : IsFitScale(w, h, bound, s)

\* get_thumb_specs returns, for every source size process accepts, the
\* source scaled by the fitting factor of the bound pinky chooses: never
\* wider or taller than the bound, never larger than the source, each side
\* within 1/2 of the exact scaled side
ThumbSpecsFor(pinky) ==
  \A wh \in SourceDims :
    LET w == wh[1]  h == wh[2]
        bound == IF pinky THEN PINKY_DIMENSIONS ELSE THUMB_DIMENSIONS
        s == FitScale(w, h, bound)
        spec == get_thumb_specs(w, h, pinky)
    IN /\ spec.dims[1] \in 0..bound[1]
       /\ spec.dims[2] \in 0..bound[2]
       /\ spec.dims[1] <= w /\ spec.dims[2] <= h
       /\ Nearest(spec.dims[1], w * s.num, s.den)
       /\ Nearest(spec.dims[2], h * s.num, s.den)

\* ThumbSpecsFor for both flags, a constant TLC computes once
ThumbFit == [pinky \in BOOLEAN |-> ThumbSpecsFor(pinky)]
=============================================================================
