------------------------------ MODULE MCBacklog ------------------------------
EXTENDS Backlog

CONSTANTS y1, y2, s1, s2

\* Message kinds as numbered in common.js
KindInsert == 2
KindUpdate == 3
KindFinish == 4

\* append_post tails: plain text, and text a user may type with a colon
PlainTails == {<<"a">>}
ColonTails == {<<"x", ":", "2">>}
=============================================================================
