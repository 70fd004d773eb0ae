------------------------------ MODULE OpenPost ------------------------------
(***************************************************************************)
(* The open-post mutation protocol of src/websockets/post_updates.go: the  *)
(* handlers a websocket Client runs on the post it is still typing         *)
(* (appendRune, backspace, spliceText, closePost, insertImage,             *)
(* spoilerImage), the thread Feed they publish to, and the Store they      *)
(* write.  Each handler is one atomic step: the code serialises the        *)
(* handlers of one Client, and a Feed applies the messages it is handed in *)
(* the order they are handed over.                                         *)
(*                                                                         *)
(* The body is kept as the code keeps it, a UTF-8 byte buffer, while       *)
(* lengths and splice coordinates are counted in runes, so the model can   *)
(* tell bytes from runes where the code confuses them.                     *)
(***************************************************************************)
EXTENDS Integers, Sequences, SequencesExt, FiniteSets

CONSTANTS
  Clients,          \* websocket clients
  Posts,            \* post ids that can be allocated
  Threads,          \* thread ids (one Feed each)
  ThreadOf,         \* ThreadOf[p]: the thread post p is inserted into
  StealThreads,     \* threads of board "a", where #steal works
  TextOnlyThreads,  \* threads of text-only boards
  Tokens,           \* images staged by the thumbnailer
  NoPost,           \* c.post.id == 0
  NoToken,          \* no image
  MaxLenBody,       \* common.MaxLenBody, in runes
  MaxLinesBody,     \* common.MaxLinesBody
  CharScore,        \* config CharScore
  ImageScore,       \* config ImageScore
  AppendInputs,     \* runes a client may send in an append message
  SpliceTexts,      \* rune sequences a client may send in a splice request
  StoreMayFail      \* whether a Store call may return an error

ASSUME /\ ThreadOf \in [Posts -> Threads]
       /\ StealThreads \subseteq Threads /\ TextOnlyThreads \subseteq Threads
       /\ NoPost \notin Posts /\ NoToken \notin Tokens
       /\ MaxLenBody \in Nat \ {0} /\ MaxLinesBody \in Nat \ {0}
       /\ StoreMayFail \in BOOLEAN

-----------------------------------------------------------------------------
(***************************************************************************)
(* Runes and UTF-8.  "a" is an ASCII rune, "e" a two-byte rune (U+00E9),   *)
(* "nl" is '\n', "nul" is 0 and "ctl" a control character.  Bytes are      *)
(* named by their hex value.  "bad" is utf8.RuneError (U+FFFD), what Go    *)
(* decodes an invalid byte to.                                             *)
(***************************************************************************)
Printable == {"a", "e", "nl"}
Runes == Printable \cup {"nul", "ctl"}
UTF8 == [a |-> <<"61">>, e |-> <<"c3", "a9">>, nl |-> <<"0a">>,
         nul |-> <<"00">>, ctl |-> <<"01">>, bad |-> <<"ef", "bf", "bd">>]

\* utf8.RuneLen
RuneLen(r) == Len(UTF8[r])

\* string(runes): the UTF-8 encoding of a rune sequence
EncodeRunes(rs) == FlattenSeq([i \in 1..Len(rs) |-> UTF8[rs[i]]])

\* The rune whose encoding starts bs (or ends it, when fromEnd), and its
\* size; an invalid byte is RuneError of size 1.  UTF-8 is prefix-free, so
\* at most one rune matches.
EncodesAt(x, bs, fromEnd) ==
  IF fromEnd THEN IsSuffix(UTF8[x], bs) ELSE IsPrefix(UTF8[x], bs)
DecodeAt(bs, fromEnd) ==
  IF \E x \in DOMAIN UTF8 : EncodesAt(x, bs, fromEnd)
  THEN LET x == CHOOSE x \in DOMAIN UTF8 : EncodesAt(x, bs, fromEnd)
       IN [r |-> x, size |-> Len(UTF8[x])]
  ELSE [r |-> "bad", size |-> 1]

\* []rune(string(bytes))
RECURSIVE DecodeRunes(_)
DecodeRunes(bs) ==
  IF bs = <<>> THEN <<>>
  ELSE LET d == DecodeAt(bs, FALSE)
       IN <<d.r>> \o DecodeRunes(SubSeq(bs, d.size + 1, Len(bs)))

\* utf8.DecodeLastRune: the last rune and its size in bytes
DecodeLastRune(bs) == DecodeAt(bs, TRUE)

\* parser.IsPrintable(r, true): control characters and NUL are refused
IsPrintable(r) == r \in Printable

\* countLines: the number of '\n' bytes in the body
CountLines(bs) == Cardinality({i \in 1..Len(bs) : bs[i] = "0a"})

\* parser.ApplyFilters, for a board with a filter that rewrites "a" to "e"
FilterRunes(rs) == [i \in 1..Len(rs) |-> IF rs[i] = "a" THEN "e" ELSE rs[i]]
Filtered(bs) == EncodeRunes(FilterRunes(DecodeRunes(bs)))

-----------------------------------------------------------------------------
(***************************************************************************)
(* Messages broadcast by a Feed, and what a subscriber does with them.     *)
(***************************************************************************)
NoImage == [token |-> NoToken, spoiler |-> FALSE]
ImageVal == [token : Tokens \cup {NoToken}, spoiler : BOOLEAN]

AppendMsg(id, r) == [kind |-> "append", id |-> id, rune |-> r]
BackspaceMsg(id) == [kind |-> "backspace", id |-> id]
SpliceMsg(id, s, l, t) == [kind |-> "splice", id |-> id, start |-> s, len |-> l, text |-> t]
InsertImageMsg(id, img) == [kind |-> "insertImage", id |-> id, img |-> img]
SpoilerMsg(id) == [kind |-> "spoiler", id |-> id]
StoleFromMsg(id) == [kind |-> "stoleFrom", id |-> id]
StoleToMsg(id, img) == [kind |-> "stoleTo", id |-> id, img |-> img]

\* A subscriber's copy of one post, updated per the wire protocol
ApplyToPost(v, m) ==
  CASE m.kind = "append"      -> [v EXCEPT !.body = Append(@, m.rune)]
    [] m.kind = "backspace"   -> [v EXCEPT !.body = Front(@)]
    [] m.kind = "splice"      -> [v EXCEPT !.body = SubSeq(@, 1, m.start) \o m.text
                                                  \o SubSeq(@, m.start + m.len + 1, Len(@))]
    [] m.kind = "insertImage" -> [v EXCEPT !.img = m.img]
    [] m.kind = "spoiler"     -> [v EXCEPT !.img.spoiler = TRUE]
    [] m.kind = "stoleFrom"   -> [v EXCEPT !.img = NoImage]
    [] m.kind = "stoleTo"     -> [v EXCEPT !.img = m.img]

ApplyMsg(tv, m) == [tv EXCEPT ![m.id] = ApplyToPost(@, m)]

-----------------------------------------------------------------------------
VARIABLES
  post,        \* post[c]: the Client's openPost (id, body bytes, len, lines, isSpoilered)
  status,      \* status[p]: "unused", "open" or "closed"
  dbOpenBody,  \* Store: the open body of a post (db.SetOpenBody)
  dbBody,      \* Store: the final body of a closed post (db.ClosePost)
  image,       \* Store: the image of a post
  staged,      \* Store: thumbnailed images not yet claimed by a post
  mirror,      \* Feed: open body of each post (Feed.SetOpenBody)
  view,        \* view[t][p]: what a subscriber of thread t holds of post p
  last         \* the last handler run: its client, messages broadcast, spam charged

vars == <<post, status, dbOpenBody, dbBody, image, staged, mirror, view, last>>

NoOpenPost == [id |-> NoPost, body |-> <<>>, len |-> 0, lines |-> 0, isSpoilered |-> FALSE]

StoreOutcomes == IF StoreMayFail THEN BOOLEAN ELSE {TRUE}

Ops == {"init", "insertPost", "appendRune", "backspace", "spliceText",
        "closePost", "insertImage", "spoilerImage"}

Init ==
  /\ post = [c \in Clients |-> NoOpenPost]
  /\ status = [p \in Posts |-> "unused"]
  /\ dbOpenBody = [p \in Posts |-> <<>>]
  /\ dbBody = [p \in Posts |-> <<>>]
  /\ image = [p \in Posts |-> NoImage]
  /\ staged = Tokens
  /\ mirror = [p \in Posts |-> <<>>]
  /\ view = [t \in Threads |-> [p \in Posts |-> [body |-> <<>>, img |-> NoImage]]]
  /\ last = [op |-> "init", c |-> CHOOSE c \in Clients : TRUE, out |-> <<>>, charged |-> 0]

\* The Feed of thread t broadcasts msgs in order
Broadcast(t, msgs) ==
  view' = [view EXCEPT ![t] = FoldLeft(ApplyMsg, @, msgs)]

\* A handler that returns before changing anything but the spam score
Refuse(c, op, charge) ==
  /\ last' = [op |-> op, c |-> c, out |-> <<>>, charged |-> charge]
  /\ UNCHANGED <<post, status, dbOpenBody, dbBody, image, staged, mirror, view>>

\* A handler that returns an error after changing only the Client's openPost
SetPost(c, q, op, charge) ==
  /\ post' = [post EXCEPT ![c] = q]
  /\ last' = [op |-> op, c |-> c, out |-> <<>>, charged |-> charge]
  /\ UNCHANGED <<status, dbOpenBody, dbBody, image, staged, mirror, view>>

-----------------------------------------------------------------------------
(***************************************************************************)
(* Opening a post (websockets post creation, outside the modelled file):   *)
(* an unused id is allocated and the Client's openPost starts empty.       *)
(***************************************************************************)
insertPost(c) ==
  /\ post[c].id = NoPost
  /\ \E p \in Posts :
       /\ status[p] = "unused"
       /\ status' = [status EXCEPT ![p] = "open"]
       /\ post' = [post EXCEPT ![c] = [NoOpenPost EXCEPT !.id = p]]
  /\ last' = [op |-> "insertPost", c |-> c, out |-> <<>>, charged |-> 0]
  /\ UNCHANGED <<dbOpenBody, dbBody, image, staged, mirror, view>>

(***************************************************************************)
(* updateBody: Feed.SetOpenBody broadcasts msg, the spam score grows by    *)
(* n * CharScore, and only then db.SetOpenBody writes the Store; its error *)
(* is returned with the Feed already told and c.post already changed.      *)
(***************************************************************************)
updateBody(c, q, msg, n, op) ==
  /\ post' = [post EXCEPT ![c] = q]
  /\ mirror' = [mirror EXCEPT ![q.id] = q.body]
  /\ Broadcast(ThreadOf[q.id], <<msg>>)
  /\ \E ok \in StoreOutcomes :
       dbOpenBody' = IF ok THEN [dbOpenBody EXCEPT ![q.id] = q.body] ELSE dbOpenBody
  /\ last' = [op |-> op, c |-> c, out |-> <<msg>>, charged |-> n * CharScore]
  /\ UNCHANGED <<status, dbBody, image, staged>>

(***************************************************************************)
(* appendRune.  Note the order: for '\n' c.post.lines is incremented       *)
(* before the limit is checked, and the error return leaves it so.        *)
(***************************************************************************)
appendRune(c) ==
  LET p == post[c] IN
  /\ p.id # NoPost
  /\ \E char \in AppendInputs :
       LET lines == IF char = "nl" THEN p.lines + 1 ELSE p.lines IN
       \/ /\ p.len + 1 > MaxLenBody \/ char = "nul" \/ ~IsPrintable(char)
          /\ Refuse(c, "appendRune", 0)
       \/ /\ p.len + 1 <= MaxLenBody /\ char = "nl" /\ lines > MaxLinesBody
          /\ SetPost(c, [p EXCEPT !.lines = lines], "appendRune", 0)
       \/ /\ p.len + 1 <= MaxLenBody /\ IsPrintable(char)
          /\ char = "nl" => lines <= MaxLinesBody
          /\ updateBody(c, [p EXCEPT !.body = @ \o UTF8[char], !.len = @ + 1,
                                     !.lines = lines],
                        AppendMsg(p.id, char), 1, "appendRune")

\* Mutant: lines decremented whatever rune was cut off
backspaceAnyRuneLine(c) ==
  LET p == post[c] IN
  /\ p.id # NoPost
  /\ \/ p.len = 0 /\ Refuse(c, "backspace", 0)
     \/ /\ p.len > 0
        /\ LET d == DecodeLastRune(p.body) IN
           updateBody(c, [p EXCEPT !.body = SubSeq(@, 1, Len(@) - d.size),
                                   !.lines = @ - 1, !.len = @ - 1],
                      BackspaceMsg(p.id), 1, "backspace")

\* backspace: the last rune is decoded from the byte buffer and cut off
backspace(c) ==
  LET p == post[c] IN
  /\ p.id # NoPost
  /\ \/ p.len = 0 /\ Refuse(c, "backspace", 0)
     \/ /\ p.len > 0
        /\ LET d == DecodeLastRune(p.body) IN
           updateBody(c, [p EXCEPT !.body = SubSeq(@, 1, Len(@) - d.size),
                                   !.lines = IF d.r = "nl" THEN @ - 1 ELSE @,
                                   !.len = @ - 1],
                      BackspaceMsg(p.id), 1, "backspace")

\* spliceText's validation: printable runes, coordinates, NOOP, length, NUL
SpliceRejected(p, s, l, text) ==
  \/ \E i \in 1..Len(text) : ~IsPrintable(text[i])
  \/ s > MaxLenBody \/ l > MaxLenBody \/ s + l > p.len
  \/ l = 0 /\ text = <<>>
  \/ Len(text) > MaxLenBody
  \/ Contains(text, "nul")

\* Mutant: the byte offset of s taken as s, one byte per rune
SpliceByteIsRune(p, s, l, text) ==
  LET old == DecodeRunes(p.body)
      end0 == text \o SubSeq(old, s + l + 1, Len(old))
      newLen == p.len - l + Len(text)
      exceeding == newLen - MaxLenBody
      end == IF exceeding > 0 THEN SubSeq(end0, 1, Len(end0) - exceeding) ELSE end0
      body == SubSeq(p.body, 1, s) \o EncodeRunes(end)
  IN [post |-> [p EXCEPT !.body = body, !.lines = CountLines(body),
                         !.len = IF exceeding > 0 THEN MaxLenBody ELSE newLen],
      msg  |-> IF exceeding > 0 THEN SpliceMsg(p.id, s, Len(old) - s, end)
                                ELSE SpliceMsg(p.id, s, l, text)]

\* Mutant: on overflow the text is trimmed but res.Len is left as requested
SpliceKeepsLen(p, s, l, text) ==
  LET old == DecodeRunes(p.body)
      end0 == text \o SubSeq(old, s + l + 1, Len(old))
      newLen == p.len - l + Len(text)
      exceeding == newLen - MaxLenBody
      end == IF exceeding > 0 THEN SubSeq(end0, 1, Len(end0) - exceeding) ELSE end0
      byteStart == Len(EncodeRunes(SubSeq(old, 1, s)))
      body == SubSeq(p.body, 1, byteStart) \o EncodeRunes(end)
  IN [post |-> [p EXCEPT !.body = body, !.lines = CountLines(body),
                         !.len = IF exceeding > 0 THEN MaxLenBody ELSE newLen],
      msg  |-> IF exceeding > 0 THEN SpliceMsg(p.id, s, l, end)
                                ELSE SpliceMsg(p.id, s, l, text)]

\* Mutant: the l replaced runes are kept after the new text
SpliceKeepsReplaced(p, s, l, text) ==
  LET old == DecodeRunes(p.body)
      end0 == text \o SubSeq(old, s + 1, Len(old))
      newLen == p.len - l + Len(text)
      exceeding == newLen - MaxLenBody
      end == IF exceeding > 0 THEN SubSeq(end0, 1, Len(end0) - exceeding) ELSE end0
      byteStart == Len(EncodeRunes(SubSeq(old, 1, s)))
      body == SubSeq(p.body, 1, byteStart) \o EncodeRunes(end)
  IN [post |-> [p EXCEPT !.body = body, !.lines = CountLines(body),
                         !.len = IF exceeding > 0 THEN MaxLenBody ELSE newLen],
      msg  |-> IF exceeding > 0 THEN SpliceMsg(p.id, s, Len(old) - s, end)
                                ELSE SpliceMsg(p.id, s, l, text)]

(***************************************************************************)
(* The openPost and the broadcast message after splicing text over runes   *)
(* [s, s+l).  Past MaxLenBody the tail is trimmed and the message replaces *)
(* everything from s.  The byte offset of s sums the prefix's rune sizes.  *)
(***************************************************************************)
Splice(p, s, l, text) ==
  LET old == DecodeRunes(p.body)
      end0 == text \o SubSeq(old, s + l + 1, Len(old))
      newLen == p.len - l + Len(text)
      exceeding == newLen - MaxLenBody
      end == IF exceeding > 0 THEN SubSeq(end0, 1, Len(end0) - exceeding) ELSE end0
      byteStart == Len(EncodeRunes(SubSeq(old, 1, s)))
      body == SubSeq(p.body, 1, byteStart) \o EncodeRunes(end)
  IN [post |-> [p EXCEPT !.body = body, !.lines = CountLines(body),
                         !.len = IF exceeding > 0 THEN MaxLenBody ELSE newLen],
      msg  |-> IF exceeding > 0 THEN SpliceMsg(p.id, s, Len(old) - s, end)
                                ELSE SpliceMsg(p.id, s, l, text)]

\* The spam charged for a splice: len(res.Text) + 1, len of a Go string
SpliceCharge(msg) == Len(EncodeRunes(msg.text)) + 1

spliceText(c) ==
  LET p == post[c] IN
  /\ p.id # NoPost
  /\ \E s \in 0..MaxLenBody + 1, l \in 0..MaxLenBody + 1, text \in SpliceTexts :
       \/ SpliceRejected(p, s, l, text) /\ Refuse(c, "spliceText", 0)
       \/ /\ ~SpliceRejected(p, s, l, text)
          /\ LET r == Splice(p, s, l, text) IN
             \/ \* errTooManyLines, returned after c.post was rewritten
                /\ r.post.lines > MaxLinesBody
                /\ SetPost(c, r.post, "spliceText", 0)
             \/ /\ r.post.lines <= MaxLinesBody
                /\ updateBody(c, r.post, r.msg, SpliceCharge(r.msg), "spliceText")

-----------------------------------------------------------------------------
(***************************************************************************)
(* closePost.  With a non-empty body, filters may rewrite it (broadcast as *)
(* a splice over the whole body); on board "a" a "#steal" post with links  *)
(* takes the image of its last link (db.TransferImage); then db.ClosePost  *)
(* stores the final body.  Each Store call may fail, and the handler then  *)
(* returns with what was done so far kept and the post still open.         *)
(***************************************************************************)

\* Mutant: the filtered body is not broadcast
FilterSpliceDropped(p, body) == <<>>

\* The splice closePost broadcasts when ApplyFilters changed the body; its
\* Len is len(c.post.body), a byte count
FilterSplice(p, body) ==
  IF body = p.body THEN <<>>
  ELSE <<SpliceMsg(p.id, 0, Len(p.body), DecodeRunes(body))>>

\* Mutant: only MessageStoleImageTo is sent
StealMsgsToOnly(from, to, img) == <<StoleToMsg(to, img)>>

\* The two messages sent to the thief's Feed after a successful steal
StealMsgs(from, to, img) == <<StoleFromMsg(from), StoleToMsg(to, img)>>

\* links[len(links)-1].ID of a "#steal" post on board "a"; NoPost: no steal
StealSources(p) ==
  {NoPost} \cup IF ThreadOf[p.id] \in StealThreads /\ p.len # 0
                THEN {q \in Posts : status[q] # "unused" /\ q # p.id}
                ELSE {}

(* db.TransferImage (outside src/): in one transaction the image of post  *)
(* from moves to post to, and is returned; nil when from has none, or when *)
(* to has one already.                                                     *)
TransferImage(from, to) ==
  IF image[to] = NoImage THEN image[from] ELSE NoImage

closePost(c) ==
  LET p == post[c] IN
  /\ p.id # NoPost
  /\ \E filter \in BOOLEAN, from \in StealSources(p), transferOk, closeOk \in StoreOutcomes :
       LET body   == IF p.len # 0 /\ filter THEN Filtered(p.body) ELSE p.body
           stolen == IF from # NoPost /\ transferOk THEN TransferImage(from, p.id) ELSE NoImage
           closed == (from = NoPost \/ transferOk) /\ closeOk
           out    == FilterSplice(p, body) \o
                       (IF stolen = NoImage THEN <<>> ELSE StealMsgs(from, p.id, stolen))
       IN
       /\ post' = [post EXCEPT ![c] = IF closed THEN NoOpenPost ELSE [p EXCEPT !.body = body]]
       /\ mirror' = [mirror EXCEPT ![p.id] = body]
       /\ Broadcast(ThreadOf[p.id], out)
       /\ image' = IF stolen = NoImage THEN image
                   ELSE [image EXCEPT ![from] = NoImage, ![p.id] = stolen]
       /\ status' = IF closed THEN [status EXCEPT ![p.id] = "closed"] ELSE status
       /\ dbBody' = IF closed THEN [dbBody EXCEPT ![p.id] = body] ELSE dbBody
       /\ dbOpenBody' = IF closed THEN [dbOpenBody EXCEPT ![p.id] = <<>>] ELSE dbOpenBody
       /\ last' = [op |-> "closePost", c |-> c, out |-> out,
                   charged |-> IF stolen = NoImage THEN 0 ELSE ImageScore]
       /\ UNCHANGED staged

-----------------------------------------------------------------------------
(***************************************************************************)
(* Images.  Both handlers charge CharScore before anything else.  hasImage *)
(* asks the Store (the image may have been stolen) and clears              *)
(* c.post.isSpoilered when there is none.                                  *)
(***************************************************************************)

\* db.HasImage failed
HasImageFails == \E ok \in StoreOutcomes : ~ok

\* hasImage: with no image in the Store, allow respoilering
hasImage(p) == IF image[p.id] = NoImage THEN [p EXCEPT !.isSpoilered = FALSE] ELSE p

insertImage(c) ==
  LET p == post[c] IN
  \/ p.id = NoPost /\ Refuse(c, "insertImage", CharScore)
  \/ p.id # NoPost /\ HasImageFails /\ Refuse(c, "insertImage", CharScore)
  \/ /\ p.id # NoPost /\ image[p.id] # NoImage      \* latency: NOP
     /\ Refuse(c, "insertImage", CharScore)
  \/ /\ p.id # NoPost /\ image[p.id] = NoImage
     /\ \E tok \in Tokens, spoiler \in BOOLEAN, ok \in StoreOutcomes :
          LET q == hasImage(p)
              img == [token |-> tok, spoiler |-> spoiler]
          IN
          \/ \* errTextOnly, or db.InsertImage could not claim the token
             /\ ThreadOf[p.id] \in TextOnlyThreads \/ tok \notin staged \/ ~ok
             /\ SetPost(c, q, "insertImage", CharScore)
          \/ /\ ThreadOf[p.id] \notin TextOnlyThreads /\ tok \in staged /\ ok
             /\ image' = [image EXCEPT ![p.id] = img]
             /\ staged' = staged \ {tok}
             /\ post' = [post EXCEPT ![c] = [q EXCEPT !.isSpoilered = spoiler]]
             /\ Broadcast(ThreadOf[p.id], <<InsertImageMsg(p.id, img)>>)
             /\ last' = [op |-> "insertImage", c |-> c,
                         out |-> <<InsertImageMsg(p.id, img)>>, charged |-> CharScore]
             /\ UNCHANGED <<status, dbOpenBody, dbBody, mirror>>

\* spoilerImage: NOP when c.post.isSpoilered, which the handler never sets
spoilerImage(c) ==
  LET p == post[c] IN
  \/ p.id = NoPost /\ Refuse(c, "spoilerImage", CharScore)
  \/ p.id # NoPost /\ HasImageFails /\ Refuse(c, "spoilerImage", CharScore)
  \/ /\ p.id # NoPost /\ image[p.id] = NoImage     \* "post does not have an image"
     /\ SetPost(c, hasImage(p), "spoilerImage", CharScore)
  \/ /\ p.id # NoPost /\ image[p.id] # NoImage /\ p.isSpoilered   \* latency: NOP
     /\ Refuse(c, "spoilerImage", CharScore)
  \/ /\ p.id # NoPost /\ image[p.id] # NoImage /\ ~p.isSpoilered
     /\ \E ok \in StoreOutcomes :
          \/ ~ok /\ Refuse(c, "spoilerImage", CharScore)
          \/ /\ ok
             /\ image' = [image EXCEPT ![p.id].spoiler = TRUE]
             /\ Broadcast(ThreadOf[p.id], <<SpoilerMsg(p.id)>>)
             /\ last' = [op |-> "spoilerImage", c |-> c,
                         out |-> <<SpoilerMsg(p.id)>>, charged |-> CharScore]
             /\ UNCHANGED <<post, status, dbOpenBody, dbBody, staged, mirror>>

-----------------------------------------------------------------------------
Next ==
  \E c \in Clients :
    \/ insertPost(c)
    \/ appendRune(c)
    \/ backspace(c)
    \/ spliceText(c)
    \/ closePost(c)
    \/ insertImage(c)
    \/ spoilerImage(c)

Spec == Init /\ [][Next]_vars

-----------------------------------------------------------------------------
(***************************************************************************)
(* Properties                                                              *)
(***************************************************************************)
Msg == [kind : {"append"}, id : Posts, rune : Runes]
       \cup [kind : {"backspace", "spoiler", "stoleFrom"}, id : Posts]
       \cup [kind : {"splice"}, id : Posts, start : Nat, len : Nat, text : Seq(Runes)]
       \cup [kind : {"insertImage", "stoleTo"}, id : Posts, img : ImageVal]

TypeOK ==
  /\ post \in [Clients -> [id : Posts \cup {NoPost}, body : Seq(STRING), len : Nat,
                           lines : Nat, isSpoilered : BOOLEAN]]
  /\ status \in [Posts -> {"unused", "open", "closed"}]
  /\ dbOpenBody \in [Posts -> Seq(STRING)] /\ dbBody \in [Posts -> Seq(STRING)]
  /\ mirror \in [Posts -> Seq(STRING)]
  /\ image \in [Posts -> ImageVal] /\ staged \subseteq Tokens
  /\ view \in [Threads -> [Posts -> [body : Seq(Runes), img : ImageVal]]]
  /\ last \in [op : Ops, c : Clients, out : Seq(Msg), charged : Nat]

OpenPosts == {c \in Clients : post[c].id # NoPost}

(* Rune and byte accounting (spec 8.1): after any sequence of appendRune,  *)
(* backspace and spliceText, the byte buffer is valid UTF-8 of printable   *)
(* runes only, and c.post.len is its length in runes, within MaxLenBody.   *)
BodyAccounting ==
  \A c \in OpenPosts :
    LET rs == DecodeRunes(post[c].body) IN
    /\ EncodeRunes(rs) = post[c].body
    /\ \A i \in 1..Len(rs) : IsPrintable(rs[i])
    /\ Len(rs) = post[c].len
    /\ post[c].len <= MaxLenBody

(* A subscriber that applies the broadcast append, backspace and splice    *)
(* messages holds exactly the Feed's open body of every open post: the     *)
(* trimmed splice message (Len widened to the whole tail) says what the    *)
(* server did.                                                             *)
SubscribersSeeOpenBody ==
  \A p \in Posts :
    status[p] = "open" => view[ThreadOf[p]][p].body = DecodeRunes(mirror[p])

(* After closePost, subscribers hold the final body the Store keeps,       *)
(* including a rewrite made by the board filters at close.                 *)
FinalBodyBroadcast ==
  \A p \in Posts :
    status[p] = "closed" => view[ThreadOf[p]][p].body = DecodeRunes(dbBody[p])

(* The Client's openPost is true after every handler, refused ones too:   *)
(* its body is the open body it published to the Feed, and its lines      *)
(* count, which appendRune checks MaxLinesBody against, is the number of   *)
(* newlines in that body.                                                  *)
ClientPostTrue ==
  \A c \in OpenPosts :
    /\ post[c].body = mirror[post[c].id]
    /\ post[c].lines = CountLines(post[c].body)

(* Subscribers of a post's thread hold the image the Store gives it, with  *)
(* its spoiler flag, across inserts, spoilers and steals.                  *)
SubscribersSeeImages ==
  \A p \in Posts :
    status[p] # "unused" => view[ThreadOf[p]][p].img = image[p]

SpoilerFlagSound ==
  \A c \in OpenPosts :
    (post[c].isSpoilered /\ image[post[c].id] # NoImage) => image[post[c].id].spoiler
-----------------------------------------------------------------------------
(***************************************************************************)
(* Refinement.  The text of post p is the writer's buffer, decoded, while *)
(* a Client holds p open, and the stored final body once p is closed.    *)
(***************************************************************************)
PostText ==
  [p \in Posts |->
     IF \E c \in Clients : post[c].id = p
     THEN DecodeRunes(post[CHOOSE c \in Clients : post[c].id = p].body)
     ELSE IF status[p] = "closed" THEN DecodeRunes(dbBody[p]) ELSE <<>>]

TB == INSTANCE TextBuffer WITH text <- PostText, state <- status, Texts <- SpliceTexts,
                               Filter <- FilterRunes

(* Spec 4.5 / 8.6: every handler step is one of the text operations of     *)
(* TextBuffer or leaves the text alone: appendRune adds exactly its rune,  *)
(* backspace removes exactly the last rune of the UTF-8 buffer, spliceText *)
(* is body[0:s] + t + body[s+l:] cut to MaxLenBody from the right, and     *)
(* closePost keeps the text or applies the filters once.                   *)
TextSpec == TB!Spec
=============================================================================
