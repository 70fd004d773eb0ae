----------------------------- MODULE MCOpenPost -----------------------------
(***************************************************************************)
(* Model values and bounds for checking OpenPost with TLC.  The .cfg files *)
(* pick one definition of each kind below.                                 *)
(***************************************************************************)
EXTENDS OpenPost

CONSTANTS c1, c2, p1, p2, p3, t1, t2, i1, i2

\* Text runs: one writer, two posts in turn, every rune kind, splice texts
\* with a two-byte rune, a newline, an overlong text and forbidden runes
TextAppendInputs == {"a", "e", "nl", "nul", "ctl"}
TextSpliceTexts == {<<>>, <<"a">>, <<"e">>, <<"nl">>, <<"e", "a">>,
                    <<"nl", "nl">>, <<"a", "a", "a", "a">>, <<"nul">>, <<"ctl">>}

\* Runs about images or about appends alone: splices of one plain rune
PlainAppendInputs == {"a"}
PlainSpliceTexts == {<<"a">>}

OneThread == [p \in Posts |-> t1]
\* p1 and p3 in thread t1, p2 in thread t2
TwoThreads == [p \in Posts |-> IF p = p2 THEN t2 ELSE t1]
=============================================================================
