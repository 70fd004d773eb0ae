------------------------------ MODULE TextBuffer ------------------------------
(***************************************************************************)
(* What the PostWriter promises about the text of a post (spec 4.5 and   *)
(* 8.6), with bytes, line counts, spam and broadcasting left out: a post *)
(* is opened empty, edited one rune at a time at the end or by splicing  *)
(* a text over a range of runes, cut to MaxLenBody from the right, and   *)
(* closed, when the board's filters may rewrite it once.  A close that   *)
(* fails may leave it open with the filters applied.                     *)
(***************************************************************************)
EXTENDS Integers, Sequences

CONSTANTS
  Posts,        \* post ids
  Printable,    \* runes a body may hold
  Texts,        \* texts a writer may splice in
  MaxLenBody,   \* the cap on a body, in runes
  Filter(_)     \* the board's filters applied at close

VARIABLES
  text,         \* text[p]: the runes of post p
  state         \* state[p]: "unused", "open" or "closed"

Init ==
  /\ text = [p \in Posts |-> <<>>]
  /\ state = [p \in Posts |-> "unused"]

Open(p) ==
  /\ state[p] = "unused"
  /\ state' = [state EXCEPT ![p] = "open"]
  /\ UNCHANGED text

AppendRune(p, r) ==
  /\ state[p] = "open" /\ r \in Printable /\ Len(text[p]) < MaxLenBody
  /\ text' = [text EXCEPT ![p] = Append(@, r)]
  /\ UNCHANGED state

Backspace(p) ==
  /\ state[p] = "open" /\ text[p] # <<>>
  /\ text' = [text EXCEPT ![p] = SubSeq(@, 1, Len(@) - 1)]
  /\ UNCHANGED state

\* body[0:s] + t + body[s+l:], then cut to the cap from the right
Spliced(b, s, l, t) ==
  LET whole == SubSeq(b, 1, s) \o t \o SubSeq(b, s + l + 1, Len(b))
  IN SubSeq(whole, 1, IF Len(whole) > MaxLenBody THEN MaxLenBody ELSE Len(whole))

SpliceText(p, s, l, t) ==
  /\ state[p] = "open" /\ s + l <= Len(text[p]) /\ ~(l = 0 /\ t = <<>>)
  /\ Len(t) <= MaxLenBody /\ \A i \in 1..Len(t) : t[i] \in Printable
  /\ text' = [text EXCEPT ![p] = Spliced(@, s, l, t)]
  /\ UNCHANGED state

Close(p) ==
  /\ state[p] = "open"
  /\ state' = [state EXCEPT ![p] = "closed"]
  /\ text' \in {text, [text EXCEPT ![p] = Filter(@)]}

\* A close whose persisting step fails: the post stays open, with the
\* filters' rewrite already made
CloseFailed(p) ==
  /\ state[p] = "open"
  /\ text' = [text EXCEPT ![p] = Filter(@)]
  /\ UNCHANGED state

Next ==
  \E p \in Posts :
    \/ Open(p) \/ Backspace(p) \/ Close(p) \/ CloseFailed(p)
    \/ \E r \in Printable : AppendRune(p, r)
    \/ \E s, l \in 0..Len(text[p]), t \in Texts : SpliceText(p, s, l, t)

Spec == Init /\ [][Next]_<<text, state>>
=============================================================================
